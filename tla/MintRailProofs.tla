---------------------------- MODULE MintRailProofs ----------------------------
(***************************************************************************)
(* Proofs about the pay-then-mint rail, for any number of workers, admins  *)
(* and webhook deliveries and any attempt cap.  The last two sections, one *)
(* asset per payment and the money or the NFT, need the timing config.ts   *)
(* expects (Undisturbed, Roomy); everything before them needs none.        *)
(***************************************************************************)
EXTENDS MintRailProperties, FiniteSetTheorems, TLAPS

-----------------------------------------------------------------------------
(* Type correctness: one lemma per group of actions.                       *)

LEMMA NoCtxTyped == NoCtx \in Locals
  BY RailAssumption DEF NoCtx, Locals

\* An invocation that returns forgets its local variables.
LEMMA ReturnTyped ==
  ASSUME CtxType, NEW a, Return(a)
  PROVE  CtxType'
  BY NoCtxTyped DEF CtxType, Return

\* The writes of the MintJob row: a row of the table, with updatedAt set ...
LEMMA JobWritten ==
  ASSUME NEW row \in JobRows, WriteJob(row)
  PROVE  JobType'
  BY DEF WriteJob, JobType, JobRows

\* ... the release of a job by fail and refundJob ...
LEMMA JobMoved ==
  ASSUME JobType, NEW st \in JobStatuses, NEW l \in Leases, NEW nt \in Notes
  PROVE  [job EXCEPT !.status = st, !.lease = l, !.note = nt] \in JobRows
  BY DEF JobType, JobRows

\* ... the webhook's writes ...
LEMMA JobMarked ==
  ASSUME JobType, NEW st \in JobStatuses, NEW nt \in Notes
  PROVE  /\ [job EXCEPT !.status = st] \in JobRows
         /\ [job EXCEPT !.note = nt] \in JobRows
         /\ [job EXCEPT !.status = st, !.note = nt] \in JobRows
  BY DEF JobType, JobRows

\* ... the address and the signature, before the send ...
LEMMA JobStamped ==
  ASSUME JobType, NEW x \in Seeds \cup {NoAddr}, NEW n \in 0..MaxAttempts
  PROVE  /\ [job EXCEPT !.addr = x] \in JobRows
         /\ [job EXCEPT !.sig = n] \in JobRows
  BY DEF JobType, JobRows

\* ... the claim ...
LEMMA JobClaimed ==
  ASSUME JobType, NEW n \in 0..(MaxAttempts + 1)
  PROVE  [job EXCEPT !.status = "MINTING", !.lease = "live", !.attempts = n] \in JobRows
  BY DEF JobType, JobRows, JobStatuses, Leases

\* ... and the last write of a mint.
LEMMA JobFinished ==
  ASSUME JobType, NEW x \in Seeds \cup {NoAddr}, NEW n \in 0..MaxAttempts
  PROVE  [job EXCEPT !.status = "MINTED", !.lease = "none", !.addr = x,
                     !.sig = n, !.note = "none"] \in JobRows
  BY DEF JobType, JobRows, JobStatuses, Leases, Notes

LEMMA TypeInit == Init => TypeOK
  <1> SUFFICES ASSUME Init PROVE TypeOK OBVIOUS
  <1> USE RailAssumption DEF Init
  <1>1. CheckoutType /\ PaymentType /\ JobType
    BY DEF CheckoutType, PaymentType, JobType, PaymentStatuses, JobRows, JobStatuses,
           Leases, Notes
  <1>2. StripeType /\ HookType BY DEF StripeType, StripeRows, HookType, Events
  <1>3. PcType /\ CtxType BY NoCtxTyped DEF PcType, CtxType
  <1>4. ChainType /\ RowsType /\ EnvType BY DEF ChainType, RowsType, EnvType
  <1> QED BY <1>1, <1>2, <1>3, <1>4 DEF TypeOK

LEMMA TypeCheckout == TypeOK /\ Checkout => TypeOK'
  <1> SUFFICES ASSUME TypeOK, Checkout PROVE TypeOK' OBVIOUS
  <1> USE RailAssumption DEF TypeOK, CheckoutType, PaymentType, JobType, StripeType,
          HookType, PcType, CtxType, ChainType, RowsType, EnvType
  <1>1. CASE CreateRow BY <1>1 DEF CreateRow, WriteJob, PaymentStatuses, JobStatuses, JobRows
  <1>2. CASE CallStripe BY <1>2 DEF CallStripe, StripeRows
  <1>3. CASE MarkRefused BY <1>3 DEF MarkRefused, PaymentStatuses
  <1>4. CASE AttachIntent BY <1>4 DEF AttachIntent
  <1>5. CASE CheckoutDies BY <1>5 DEF CheckoutDies, Fault
  <1> QED BY <1>1, <1>2, <1>3, <1>4, <1>5 DEF Checkout

LEMMA RefundTyped ==
  ASSUME StripeType
  PROVE  /\ [stripe EXCEPT !.refund = "dashboard", !.events = @ \cup {"refunded"}] \in StripeRows
         /\ [stripe EXCEPT !.refund = "platform", !.events = @ \cup {"refunded"}] \in StripeRows
         /\ [stripe EXCEPT !.events = @ \cup {"partlyRefunded"}] \in StripeRows
  BY DEF StripeType, StripeRows, Events

LEMMA TypeStripe == TypeOK /\ StripeActs => TypeOK'
  <1> SUFFICES ASSUME TypeOK, StripeActs PROVE TypeOK' OBVIOUS
  <1> USE DEF TypeOK, CheckoutType, PaymentType, JobType, StripeType, HookType,
          PcType, CtxType, ChainType, RowsType, EnvType, Emit, Events, StripeRows
  <1>1. CASE Pay BY <1>1 DEF Pay
  <1>2. CASE Decline BY <1>2 DEF Decline
  <1>3. CASE CancelIntent BY <1>3 DEF CancelIntent
  <1>4. CASE DashboardRefund
    <2>1. \/ stripe' = [stripe EXCEPT !.refund = "dashboard", !.events = @ \cup {"refunded"}]
          \/ stripe' = [stripe EXCEPT !.events = @ \cup {"partlyRefunded"}]
      BY <1>4 DEF DashboardRefund
    <2>4. StripeType' BY <2>1, RefundTyped
    <2> QED BY <1>4, <2>4 DEF DashboardRefund
  <1> QED BY <1>1, <1>2, <1>3, <1>4 DEF StripeActs

LEMMA TypeHook ==
  ASSUME TypeOK, NEW h \in Hooks, HookStep(h) \/ HookDies(h) \/ \E e \in Events : Deliver(h, e)
  PROVE  TypeOK'
  <1> USE RailAssumption DEF TypeOK
  <1>1. CASE \E e \in Events : Deliver(h, e)
    <2> PICK e \in Events : Deliver(h, e) BY <1>1
    <2>1. PaymentType' BY DEF Deliver, PaymentType
    <2>2. StripeType' BY DEF Deliver, StripeType, StripeRows
    <2>3. HookType' BY DEF Deliver, HookType
    <2>4. EnvType' BY DEF Deliver, Fault, EnvType
    <2> QED BY <2>1, <2>2, <2>3, <2>4
            DEF Deliver, CheckoutType, JobType, PcType, CtxType, ChainType, RowsType
  <1>2. CASE HookWritesPayment(h)
    <2>0. PaymentAfter(hook[h].ev) \in PaymentStatuses
      BY DEF PaymentAfter, PaymentType, PaymentStatuses
    <2>1. PaymentType' BY <1>2, <2>0 DEF HookWritesPayment, PaymentType
    <2>2. StripeType' BY <1>2 DEF HookWritesPayment, Ack, HookType, StripeType, StripeRows
    <2>3. HookType' BY <1>2 DEF HookWritesPayment, HookAt, Ack, HookType
    <2> QED BY <1>2, <2>1, <2>2, <2>3
            DEF HookWritesPayment, CheckoutType, JobType, PcType, CtxType, ChainType, RowsType, EnvType
  <1>3. CASE HookAdvancesJob(h)
    <2>1. JobType' BY <1>3, JobMarked, JobWritten DEF HookAdvancesJob, JobStatuses, Notes, JobType
    <2>2. StripeType' BY <1>3 DEF HookAdvancesJob, Ack, HookType, StripeType, StripeRows
    <2>3. HookType' BY <1>3 DEF HookAdvancesJob, HookAt, Ack, HookType
    <2>4. PcType' BY <1>3 DEF HookAdvancesJob, KickOff, GoTo, PcType
    <2> QED BY <1>3, <2>1, <2>2, <2>3, <2>4
            DEF HookAdvancesJob, CheckoutType, PaymentType, CtxType, ChainType, RowsType, EnvType
  <1>4. CASE HookCancelsJob(h)
    <2>1. JobType' BY <1>4, JobMarked, JobWritten DEF HookCancelsJob, JobStatuses, Notes, JobType
    <2>2. StripeType' BY <1>4 DEF HookCancelsJob, Ack, HookType, StripeType, StripeRows
    <2>3. HookType' BY <1>4 DEF HookCancelsJob, HookAt, Ack, HookType
    <2> QED BY <1>4, <2>1, <2>2, <2>3
            DEF HookCancelsJob, CheckoutType, PaymentType, PcType, CtxType, ChainType, RowsType, EnvType
  <1>5. CASE HookStopsJob(h)
    <2>1. JobType' BY <1>5, JobMarked, JobWritten DEF HookStopsJob, JobStatuses, Notes, JobType
    <2>2. HookType' BY <1>5 DEF HookStopsJob, HookAt, HookType
    <2> QED BY <1>5, <2>1, <2>2
            DEF HookStopsJob, CheckoutType, PaymentType, StripeType, PcType, CtxType, ChainType, RowsType, EnvType
  <1>6. CASE HookFlagsJob(h)
    <2>1. JobType' BY <1>6, JobMarked, JobWritten DEF HookFlagsJob, JobStatuses, Notes, JobType
    <2>2. StripeType' BY <1>6 DEF HookFlagsJob, Ack, HookType, StripeType, StripeRows
    <2>3. HookType' BY <1>6 DEF HookFlagsJob, HookAt, Ack, HookType
    <2> QED BY <1>6, <2>1, <2>2, <2>3
            DEF HookFlagsJob, CheckoutType, PaymentType, PcType, CtxType, ChainType, RowsType, EnvType
  <1>7. CASE HookDies(h)
    <2>1. HookType' BY <1>7 DEF HookDies, HookAt, HookType
    <2>2. EnvType' BY <1>7 DEF HookDies, Fault, EnvType
    <2> QED BY <1>7, <2>1, <2>2
            DEF HookDies, CheckoutType, PaymentType, JobType, StripeType, PcType, CtxType, ChainType, RowsType
  <1> QED BY <1>1, <1>2, <1>3, <1>4, <1>5, <1>6, <1>7 DEF HookStep

LEMMA TypeWorker ==
  ASSUME TypeOK, CtxInv, NEW w \in Workers, SweepPicks(w) \/ WorkerStep(w) \/ Throw(w)
  PROVE  TypeOK'
  <1> USE RailAssumption DEF TypeOK
  <1>0. w \in Actors BY DEF Actors
  <1>1. CASE SweepPicks(w)
    <2>1. PcType' BY <1>1 DEF SweepPicks, GoTo, TryBlock, PcType
    <2> QED BY <1>1, <2>1
            DEF SweepPicks, CheckoutType, PaymentType, JobType, StripeType, HookType, CtxType, ChainType, RowsType, EnvType
  <1>2. CASE Claim(w)
    <2>0. (IF job.attempts > MaxAttempts THEN job.attempts ELSE job.attempts + 1)
             \in 0..(MaxAttempts + 1)
      BY DEF JobType, JobRows
    <2>9. \A n \in 0..(MaxAttempts + 1) :
             [n |-> n, addr |-> job.addr, own |-> seed, sig |-> job.sig, ok |-> FALSE] \in Locals
      BY DEF Locals, JobType, JobRows, EnvType
    <2>1. JobType' BY <1>2, JobClaimed, JobWritten, <2>0 DEF Claim, JobType
    <2>2. PcType' BY <1>2 DEF Claim, Return, GoTo, TryBlock, PcType
    <2>3. CtxType' BY <1>2, <1>0, <2>0, <2>9, ReturnTyped DEF Claim, CtxType
    <2> QED BY <1>2, <2>1, <2>2, <2>3
            DEF Claim, CheckoutType, PaymentType, StripeType, HookType, ChainType, RowsType, EnvType
  <1>3. CASE Derive(w)
    <2>0. ctx[w].own \in Seeds \cup {NoAddr} /\ 0 \in 0..MaxAttempts
      BY <1>0 DEF CtxType, Locals
    <2>1. JobType' BY <1>3, JobStamped, JobWritten, <2>0 DEF Derive, JobType
    <2>2. PcType' BY <1>3 DEF Derive, GoTo, TryBlock, PcType
    <2> QED BY <1>3, <2>1, <2>2
            DEF Derive, CheckoutType, PaymentType, StripeType, HookType, CtxType, ChainType, RowsType, EnvType
  <1>4. CASE ReadChain(w)
    <2>1. PcType' BY <1>4 DEF ReadChain, Verdict, GoTo, TryBlock, PcType
    <2> QED BY <1>4, <2>1
            DEF ReadChain, CheckoutType, PaymentType, JobType, StripeType, HookType, CtxType, ChainType, RowsType, EnvType
  <1>5. CASE Sign(w)
    <2>0. ctx[w].n \in 1..MaxAttempts BY <1>5 DEF CtxInv, Sign, Sigs
    <2>9. [job EXCEPT !.sig = ctx[w].n] \in JobRows BY <2>0 DEF JobType, JobRows
    <2>1. JobType' BY <1>5, <2>0, <2>9, JobWritten DEF Sign, JobRows, JobType
    <2>2. CtxType' BY <1>5, <1>0, <2>0 DEF Sign, Locals, CtxType
    <2>3. PcType' BY <1>5 DEF Sign, GoTo, TryBlock, PcType
    <2> QED BY <1>5, <2>1, <2>2, <2>3
            DEF Sign, CheckoutType, PaymentType, StripeType, HookType, ChainType, RowsType, EnvType
  <1>6. CASE Send(w)
    <2>0. ctx[w].own \in Seeds /\ ctx[w].sig \in 1..MaxAttempts
      BY <1>6 DEF CtxInv, Send, TryBlock, Sigs
    <2>1. ChainType' BY <1>6, <2>0 DEF Send, Txs, Sigs, ChainType
    <2>2. PcType' BY <1>6 DEF Send, GoTo, TryBlock, PcType
    <2>3. EnvType' BY <1>6 DEF Send, Fault, EnvType
    <2> QED BY <1>6, <2>1, <2>2, <2>3
            DEF Send, CheckoutType, PaymentType, JobType, StripeType, HookType, CtxType, RowsType
  <1>7. CASE Confirm(w)
    <2>1. PcType' BY <1>7 DEF Confirm, GoTo, TryBlock, PcType
    <2> QED BY <1>7, <2>1
            DEF Confirm, CheckoutType, PaymentType, JobType, StripeType, HookType, CtxType, ChainType, RowsType, EnvType
  <1>8. CASE RecordNft(w)
    <2>1. RowsType' BY <1>8 DEF RecordNft, RowsType
    <2>2. PcType' BY <1>8 DEF RecordNft, GoTo, TryBlock, PcType
    <2> QED BY <1>8, <2>1, <2>2
            DEF RecordNft, CheckoutType, PaymentType, JobType, StripeType, HookType, CtxType, ChainType, EnvType
  <1>9. CASE RecordTx(w)
    <2>1. RowsType' BY <1>9, <1>0 DEF RecordTx, Sigs, CtxType, Locals, RowsType
    <2>2. PcType' BY <1>9 DEF RecordTx, GoTo, TryBlock, PcType
    <2> QED BY <1>9, <2>1, <2>2
            DEF RecordTx, CheckoutType, PaymentType, JobType, StripeType, HookType, CtxType, ChainType, EnvType
  <1>10. CASE Finish(w)
    <2>0. ctx[w].own \in Seeds \cup {NoAddr} /\ ctx[w].sig \in 0..MaxAttempts
      BY <1>0 DEF CtxType, Locals
    <2>1. JobType' BY <1>10, JobFinished, JobWritten, <2>0 DEF Finish, JobType
    <2>2. PcType' BY <1>10 DEF Finish, Return, GoTo, TryBlock, PcType
    <2>3. CtxType' BY <1>10, ReturnTyped DEF Finish, CtxType
    <2> QED BY <1>10, <2>1, <2>2, <2>3
            DEF Finish, CheckoutType, PaymentType, StripeType, HookType, ChainType, RowsType, EnvType
  <1>11. CASE Fail(w)
    <2>1. JobType' BY <1>11, JobMoved, JobWritten DEF Fail, JobStatuses, Leases, Notes, JobType
    <2>2. PcType' BY <1>11 DEF Fail, Return, GoTo, TryBlock, PcType
    <2>3. CtxType' BY <1>11, ReturnTyped DEF Fail, CtxType
    <2> QED BY <1>11, <2>1, <2>2, <2>3
            DEF Fail, CheckoutType, PaymentType, StripeType, HookType, ChainType, RowsType, EnvType
  <1>12. CASE Throw(w)
    <2>1. PcType' BY <1>12 DEF Throw, GoTo, TryBlock, PcType
    <2>2. EnvType' BY <1>12 DEF Throw, Fault, EnvType
    <2> QED BY <1>12, <2>1, <2>2
            DEF Throw, CheckoutType, PaymentType, JobType, StripeType, HookType, CtxType, ChainType, RowsType
  <1> QED BY <1>1, <1>2, <1>3, <1>4, <1>5, <1>6, <1>7, <1>8, <1>9, <1>10, <1>11, <1>12
          DEF WorkerStep

LEMMA TypeRefund ==
  ASSUME TypeOK, NEW a \in Actors, AdminRefund(a) \/ RefundStep(a) \/ Evict(a)
  PROVE  TypeOK'
  <1> USE RailAssumption DEF TypeOK
  <1>1. CASE AdminRefund(a)
    <2>1. PcType' BY <1>1 DEF AdminRefund, GoTo, TryBlock, PcType
    <2> QED BY <1>1, <2>1
            DEF AdminRefund, CheckoutType, PaymentType, JobType, StripeType, HookType, CtxType, ChainType, RowsType, EnvType
  <1>2. CASE RefundReads(a)
    <2>1. JobType' BY <1>2, JobMoved, JobWritten DEF RefundReads, JobStatuses, Leases, Notes, JobType
    <2>2. PcType' BY <1>2 DEF RefundReads, Return, GoTo, TryBlock, PcType
    <2>3. CtxType' BY <1>2, ReturnTyped DEF RefundReads, CtxType
    <2> QED BY <1>2, <2>1, <2>2, <2>3
            DEF RefundReads, CheckoutType, PaymentType, StripeType, HookType, ChainType, RowsType, EnvType
  <1>3. CASE CallRefund(a)
    <2>0. CtxType => [ctx EXCEPT ![a].ok = TRUE] \in [Actors -> Locals] BY DEF CtxType, Locals
    <2>1. StripeType' BY <1>3, RefundTyped DEF CallRefund, Emit, StripeType, StripeRows
    <2>2. PcType' BY <1>3 DEF CallRefund, GoTo, TryBlock, PcType
    <2>3. CtxType' BY <1>3, <2>0 DEF CallRefund, CtxType
    <2>4. EnvType' BY <1>3 DEF CallRefund, Fault, EnvType
    <2> QED BY <1>3, <2>1, <2>2, <2>3, <2>4
            DEF CallRefund, CheckoutType, PaymentType, JobType, HookType, ChainType, RowsType
  <1>4. CASE RefundWritesJob(a)
    <2>1. JobType' BY <1>4, JobMoved, JobWritten DEF RefundWritesJob, JobStatuses, Leases, Notes, JobType
    <2>2. PcType' BY <1>4 DEF RefundWritesJob, GoTo, TryBlock, PcType
    <2> QED BY <1>4, <2>1, <2>2
            DEF RefundWritesJob, CheckoutType, PaymentType, StripeType, HookType, CtxType, ChainType, RowsType, EnvType
  <1>5. CASE RefundWritesPayment(a)
    <2>1. PaymentType' BY <1>5 DEF RefundWritesPayment, PaymentStatuses, PaymentType
    <2>2. PcType' BY <1>5 DEF RefundWritesPayment, Return, GoTo, TryBlock, PcType
    <2>3. CtxType' BY <1>5, ReturnTyped DEF RefundWritesPayment, CtxType
    <2> QED BY <1>5, <2>1, <2>2, <2>3
            DEF RefundWritesPayment, CheckoutType, JobType, StripeType, HookType, ChainType, RowsType, EnvType
  <1>6. CASE Evict(a)
    <2>1. PcType' BY <1>6 DEF Evict, Return, GoTo, TryBlock, PcType
    <2>2. CtxType' BY <1>6, ReturnTyped DEF Evict, CtxType
    <2>3. EnvType' BY <1>6 DEF Evict, Fault, EnvType
    <2> QED BY <1>6, <2>1, <2>2, <2>3
            DEF Evict, CheckoutType, PaymentType, JobType, StripeType, HookType, ChainType, RowsType
  <1> QED BY <1>1, <1>2, <1>3, <1>4, <1>5, <1>6 DEF RefundStep

LEMMA TypeWorld ==
  ASSUME TypeOK,
         \/ LeaseExpires \/ BackoffElapses \/ RotateSeed
         \/ \E t \in chain.inflight : Land(t) \/ Drop(t)
         \/ \E s \in Seeds : Dust(s)
  PROVE  TypeOK'
  <1> USE RailAssumption DEF TypeOK
  <1>1. CASE LeaseExpires
    <2>1. JobType' BY <1>1 DEF LeaseExpires, JobRows, Leases, JobType
    <2> QED BY <1>1, <2>1
            DEF LeaseExpires, CheckoutType, PaymentType, StripeType, HookType, PcType, CtxType, ChainType, RowsType, EnvType
  <1>2. CASE BackoffElapses
    <2>1. JobType' BY <1>2 DEF BackoffElapses, JobRows, JobType
    <2> QED BY <1>2, <2>1
            DEF BackoffElapses, CheckoutType, PaymentType, StripeType, HookType, PcType, CtxType, ChainType, RowsType, EnvType
  <1>3. CASE \E t \in chain.inflight : Land(t) \/ Drop(t)
    <2> PICK t \in chain.inflight : Land(t) \/ Drop(t) BY <1>3
    <2>1. t \in Txs BY DEF ChainType
    <2>2. /\ chain'.inflight = chain.inflight \ {t} /\ chain'.dusted = chain.dusted
          /\ chain'.assets = chain.assets \/ chain'.assets = chain.assets \cup {t}
          /\ chain' = [inflight |-> chain'.inflight, assets |-> chain'.assets,
                       dusted |-> chain'.dusted]
      BY DEF Land, Drop, ChainType
    <2>3. ChainType' BY <2>1, <2>2 DEF ChainType
    <2>4. UNCHANGED <<checkout, payment, job, stripe, hook, pc, ctx, rows, seed, faults>>
      BY DEF Land, Drop
    <2> QED BY <2>3, <2>4
            DEF CheckoutType, PaymentType, JobType, StripeType, HookType, PcType, CtxType,
                RowsType, EnvType
  <1>4. CASE \E s \in Seeds : Dust(s)
    <2>1. ChainType' BY <1>4 DEF Dust, ChainType
    <2> QED BY <1>4, <2>1
            DEF Dust, CheckoutType, PaymentType, JobType, StripeType, HookType, PcType, CtxType, RowsType, EnvType
  <1>5. CASE RotateSeed
    <2>1. EnvType' BY <1>5 DEF RotateSeed, EnvType
    <2> QED BY <1>5, <2>1
            DEF RotateSeed, CheckoutType, PaymentType, JobType, StripeType, HookType, PcType, CtxType, ChainType, RowsType
  <1> QED BY <1>1, <1>2, <1>3, <1>4, <1>5

LEMMA TypeStep == TypeOK /\ CtxInv /\ [Next]_vars => TypeOK'
  <1> SUFFICES ASSUME TypeOK, CtxInv, [Next]_vars PROVE TypeOK' OBVIOUS
  <1>1. CASE UNCHANGED vars
    BY <1>1 DEF vars, TypeOK, CheckoutType, PaymentType, JobType, StripeType, HookType,
               PcType, CtxType, ChainType, RowsType, EnvType
  <1>2. CASE Next
    BY <1>2, TypeCheckout, TypeStripe, TypeHook, TypeWorker, TypeRefund, TypeWorld
       DEF Next, Actors
  <1> QED BY <1>1, <1>2

-----------------------------------------------------------------------------
(* The local variables of a worker inside the try block.                   *)

LEMMA CtxInit == Init => CtxInv
  BY DEF Init, CtxInv, TryBlock, Actors

LEMMA CtxStep == TypeOK /\ CtxInv /\ [Next]_vars => CtxInv'
  <1> DEFINE Ok(w) == /\ pc[w] \in TryBlock => ctx[w].own \in Seeds /\ ctx[w].n # 0
                      /\ pc[w] \in {"sign", "send", "confirm"} => ctx[w].n \in Sigs
                      /\ pc[w] \in {"send", "confirm"} => ctx[w].sig \in Sigs
  <1> SUFFICES ASSUME TypeOK, CtxInv, [Next]_vars, NEW w \in Workers
               PROVE  Ok(w)'
    BY DEF CtxInv
  <1>0. w \in Actors /\ Ok(w) BY DEF Actors, CtxInv
  <1>t. PcType /\ CtxType /\ JobType /\ EnvType BY DEF TypeOK
  <1> HIDE DEF Ok
  <1>1. ASSUME UNCHANGED <<pc, ctx>> PROVE Ok(w)'
    BY <1>0, <1>1 DEF Ok
  <1>2. ASSUME NEW h \in Hooks, HookAdvancesJob(h) PROVE Ok(w)'
    BY <1>0, <1>t, <1>2 DEF Ok, HookAdvancesJob, KickOff, GoTo, PcType, TryBlock, Actors
  <1>3. ASSUME NEW v \in Workers, SweepPicks(v) \/ WorkerStep(v) \/ Throw(v) PROVE Ok(w)'
    <2>0. v \in Actors BY DEF Actors
    <2>1. CASE v # w
      <3>1. pc'[w] = pc[w] /\ ctx'[w] = ctx[w]
        BY <1>0, <1>t, <1>3, <2>0, <2>1
           DEF PcType, CtxType, SweepPicks, WorkerStep, Throw, Claim, Derive, ReadChain, Sign,
               Send, Confirm, RecordNft, RecordTx, Finish, Fail, GoTo, Return
      <3> QED BY <1>0, <3>1 DEF Ok
    <2>2. CASE v = w /\ Claim(w)
      BY <1>0, <1>t, <2>2, RailAssumption
         DEF Ok, Claim, Return, GoTo, PcType, CtxType, EnvType, JobType, JobRows, TryBlock
    <2>3. CASE v = w /\ ReadChain(w)
      <3>1. /\ pc'[w] = Verdict(w) /\ ctx' = ctx
            /\ ctx[w].own \in Seeds /\ ctx[w].n # 0
        BY <1>0, <1>t, <2>3 DEF Ok, ReadChain, GoTo, PcType, TryBlock
      <3>2. Verdict(w) \in {"block", "recordNft", "refund"} \/ (Verdict(w) = "sign" /\ ~Exhausted(w))
        BY DEF Verdict
      <3>3. ~Exhausted(w) => ctx[w].n \in Sigs
        BY <1>0, <1>t, <3>1, RailAssumption DEF CtxType, Locals, Exhausted, Sigs
      <3> QED BY <3>1, <3>2, <3>3 DEF Ok
    <2>4. CASE v = w /\ Sign(w)
      BY <1>0, <1>t, <2>4 DEF Ok, Sign, GoTo, PcType, CtxType, TryBlock
    <2>5. CASE v = w /\ (SweepPicks(w) \/ Throw(w) \/ Derive(w) \/ Send(w) \/ Confirm(w)
                         \/ RecordNft(w) \/ RecordTx(w) \/ Finish(w) \/ Fail(w))
      BY <1>0, <1>t, <2>5
         DEF Ok, SweepPicks, Throw, Derive, Send, Confirm, RecordNft, RecordTx, Finish, Fail,
             GoTo, Return, PcType, CtxType, TryBlock
    <2> QED BY <1>3, <2>1, <2>2, <2>3, <2>4, <2>5 DEF WorkerStep
  <1>4. ASSUME NEW a \in Actors, AdminRefund(a) \/ RefundStep(a) \/ Evict(a) PROVE Ok(w)'
    <2>1. CASE a # w
      <3>1. pc'[w] = pc[w] /\ ctx'[w] = ctx[w]
        BY <1>0, <1>t, <1>4, <2>1
           DEF AdminRefund, RefundStep, Evict, RefundReads, CallRefund, RefundWritesJob,
               RefundWritesPayment, GoTo, Return, PcType, CtxType
      <3> QED BY <1>0, <3>1 DEF Ok
    <2>2. CASE a = w /\ RefundStep(w)
      <3>1. pc[w] \in TryBlock /\ pc'[w] \in {"idle", "stripe", "refundJob", "refundPayment"}
        BY <1>0, <1>t, <2>2
           DEF RefundStep, RefundReads, CallRefund, RefundWritesJob, RefundWritesPayment,
               GoTo, Return, PcType, TryBlock
      <3>2. pc'[w] = "idle" \/ ctx'[w] = ctx[w] \/ ctx'[w] = [ctx[w] EXCEPT !.ok = TRUE]
        BY <1>0, <1>t, <2>2
           DEF RefundStep, RefundReads, CallRefund, RefundWritesJob, RefundWritesPayment,
               GoTo, Return, PcType, CtxType
      <3>3. pc'[w] # "idle" => ctx'[w].own = ctx[w].own /\ ctx'[w].n = ctx[w].n
        BY <1>0, <1>t, <3>2 DEF CtxType, Locals
      <3> QED BY <1>0, <3>1, <3>3 DEF Ok, TryBlock
    <2>3. CASE a = w /\ (AdminRefund(w) \/ Evict(w))
      <3>1. pc'[w] = "idle"
        BY <1>0, <1>t, <2>3, RailAssumption
           DEF AdminRefund, Evict, Return, GoTo, PcType
      <3> QED BY <3>1 DEF Ok, TryBlock
    <2> QED BY <1>4, <2>1, <2>2, <2>3
  <1>5. CASE UNCHANGED vars BY <1>1, <1>5 DEF vars
  <1>6. CASE Checkout \/ StripeActs \/ LeaseExpires \/ BackoffElapses \/ RotateSeed
             \/ (\E s \in Seeds : Dust(s)) \/ (\E t \in chain.inflight : Land(t) \/ Drop(t))
    BY <1>1, <1>6 DEF Checkout, CreateRow, CallStripe, MarkRefused, AttachIntent, CheckoutDies,
       StripeActs, Pay, Decline, CancelIntent, DashboardRefund, LeaseExpires, BackoffElapses,
       RotateSeed, Dust, Land, Drop
  <1>7. ASSUME NEW h \in Hooks, (\E e \in Events : Deliver(h, e)) \/ HookStep(h) \/ HookDies(h)
        PROVE  Ok(w)'
    BY <1>1, <1>2, <1>7 DEF Deliver, HookStep, HookWritesPayment, HookCancelsJob, HookStopsJob,
       HookFlagsJob, HookDies
  <1>8. ASSUME NEW a \in Admins, AdminRefund(a) PROVE Ok(w)'
    BY <1>4, <1>8 DEF Actors
  <1> QED BY <1>3, <1>4, <1>5, <1>6, <1>7, <1>8 DEF Next

\* The rows, the program counters and the model of Stripe and Solana only ever
\* hold values of their types.
THEOREM TypeCorrect == Spec => []TypeOK
  <1>1. Init => TypeOK /\ CtxInv BY TypeInit, CtxInit
  <1>2. TypeOK /\ CtxInv /\ [Next]_vars => (TypeOK /\ CtxInv)' BY TypeStep, CtxStep
  <1> QED BY <1>1, <1>2, PTL DEF Spec
-----------------------------------------------------------------------------
(* Money and goods.                                                        *)

LEMMA MoneyInit == Init => MoneyInv /\ GoodsInv
  BY DEF Init, MoneyInv, GoodsInv, Charged, Refunded, Delivered, RefundIsReal, ChargedFirst,
         MintedIsDelivered, NoCtx, Actors

\* A step of an invocation that finds the order charged, leaves Stripe, the
\* webhook and the checkout alone and claims no refund keeps MoneyInv.
LEMMA MoneyKept ==
  ASSUME MoneyInv, Charged, UNCHANGED <<checkout, stripe, hook>>,
         \A a \in Actors : ctx'[a].ok => Refunded,
         payment'.status = "REFUNDED" => Refunded,
         job'.status = "REFUNDED" => Refunded
  PROVE  MoneyInv'
  BY DEF MoneyInv, Charged, Refunded, Delivered, RefundIsReal, ChargedFirst

\* A write of the job row that is not a refund's.
LEMMA JobWriteKeepsStatus ==
  ASSUME JobType, NEW row \in JobRows, WriteJob(row)
  PROVE  job'.status = row.status
  BY DEF WriteJob, JobRows

LEMMA MoneyCheckout == TypeOK /\ MoneyInv /\ Checkout => MoneyInv'
  <1> SUFFICES ASSUME TypeOK, MoneyInv, Checkout PROVE MoneyInv' OBVIOUS
  <1> USE DEF MoneyInv, Charged, Refunded, Delivered, RefundIsReal, ChargedFirst
  <1>0. PaymentType /\ JobType /\ StripeType BY DEF TypeOK
  <1>1. CASE CreateRow
    BY <1>0, <1>1 DEF CreateRow, WriteJob, PaymentType, JobType, JobRows
  <1>2. CASE CallStripe BY <1>0, <1>2 DEF CallStripe, StripeType, StripeRows
  <1>3. CASE MarkRefused BY <1>0, <1>3 DEF MarkRefused, PaymentType
  <1>4. CASE AttachIntent BY <1>0, <1>4 DEF AttachIntent, PaymentType
  <1>5. CASE CheckoutDies BY <1>5 DEF CheckoutDies
  <1> QED BY <1>1, <1>2, <1>3, <1>4, <1>5 DEF Checkout

LEMMA MoneyStripe == TypeOK /\ MoneyInv /\ StripeActs => MoneyInv'
  <1> SUFFICES ASSUME TypeOK, MoneyInv, StripeActs PROVE MoneyInv' OBVIOUS
  <1> USE DEF MoneyInv, Charged, Refunded, Delivered, RefundIsReal, ChargedFirst, Emit
  <1>0. StripeType BY DEF TypeOK
  <1>1. CASE Pay BY <1>0, <1>1 DEF Pay, StripeType, StripeRows
  <1>2. CASE Decline BY <1>0, <1>2 DEF Decline, StripeType, StripeRows
  <1>3. CASE CancelIntent BY <1>0, <1>3 DEF CancelIntent, StripeType, StripeRows
  <1>4. CASE DashboardRefund
    <2>1. /\ stripe.intent = "succeeded" /\ stripe.refund = "none"
          /\ \/ stripe' = [stripe EXCEPT !.refund = "dashboard", !.events = @ \cup {"refunded"}]
             \/ stripe' = [stripe EXCEPT !.events = @ \cup {"partlyRefunded"}]
      BY <1>4 DEF DashboardRefund
    <2>2. UNCHANGED <<checkout, payment, job, hook, pc, ctx, chain>>
      BY <1>4 DEF DashboardRefund
    <2>3. CASE stripe' = [stripe EXCEPT !.refund = "dashboard", !.events = @ \cup {"refunded"}]
      <3>1. /\ stripe'.intent = "succeeded" /\ stripe'.refund = "dashboard"
            /\ stripe.events \subseteq stripe'.events
        BY <1>0, <2>1, <2>3 DEF StripeType, StripeRows
      <3> QED BY <2>1, <2>2, <3>1
    <2>4. CASE stripe' = [stripe EXCEPT !.events = @ \cup {"partlyRefunded"}]
      <3>1. /\ stripe'.intent = "succeeded" /\ stripe'.refund = "none"
            /\ stripe'.events = stripe.events \cup {"partlyRefunded"}
        BY <1>0, <2>1, <2>4 DEF StripeType, StripeRows
      <3> QED BY <2>1, <2>2, <3>1
    <2> QED BY <2>1, <2>3, <2>4
  <1> QED BY <1>1, <1>2, <1>3, <1>4 DEF StripeActs

LEMMA MoneyHook ==
  ASSUME TypeOK, MoneyInv, NEW h \in Hooks,
         (\E e \in Events : Deliver(h, e)) \/ HookStep(h) \/ HookDies(h)
  PROVE  MoneyInv'
  <1> USE DEF MoneyInv, Charged, Refunded, Delivered, RefundIsReal, ChargedFirst
  <1>0. PaymentType /\ JobType /\ StripeType /\ HookType /\ PcType BY DEF TypeOK
  <1>1. CASE \E e \in Events : Deliver(h, e)
    <2> PICK e \in Events : Deliver(h, e) BY <1>1
    <2>1. /\ stripe'.intent = stripe.intent /\ stripe'.refund = stripe.refund
          /\ stripe'.events = stripe.events
          /\ payment'.status = payment.status
          /\ UNCHANGED <<checkout, job, pc, ctx, chain>>
      BY <1>0 DEF Deliver, StripeType, StripeRows, PaymentType
    <2>2. \A g \in Hooks : hook'[g].at # "idle" => hook'[g].ev \in stripe.events
      BY <1>0 DEF Deliver, HookType
    <2> QED BY <2>1, <2>2
  <1>2. CASE HookWritesPayment(h)
    <2>1. hook[h].ev \in stripe.events BY <1>2 DEF HookWritesPayment
    <2>2. /\ payment'.status = PaymentAfter(hook[h].ev)
          /\ stripe'.intent = stripe.intent /\ stripe'.refund = stripe.refund
          /\ stripe'.events = stripe.events
          /\ UNCHANGED <<checkout, job, pc, ctx, chain>>
      BY <1>0, <1>2 DEF HookWritesPayment, Ack, StripeType, StripeRows, PaymentType
    <2>3. \A g \in Hooks : hook'[g].at # "idle" => hook'[g].ev \in stripe.events
      BY <1>0, <1>2 DEF HookWritesPayment, HookAt, Ack, HookType
    <2>4. /\ payment'.status = "PAID" => Charged
          /\ payment'.status = "REFUNDED" => Refunded
      BY <2>1, <2>2 DEF PaymentAfter, FullRefund
    <2> QED BY <2>2, <2>3, <2>4
  <1>3. CASE HookAdvancesJob(h) \/ HookCancelsJob(h) \/ HookStopsJob(h) \/ HookFlagsJob(h)
    <2>1. hook[h].ev \in stripe.events
      BY <1>3 DEF HookAdvancesJob, HookCancelsJob, HookStopsJob, HookFlagsJob
    <2>2. /\ stripe'.intent = stripe.intent /\ stripe'.refund = stripe.refund
          /\ stripe'.events = stripe.events
          /\ UNCHANGED <<checkout, payment, ctx, chain>>
      BY <1>0, <1>3 DEF HookAdvancesJob, HookCancelsJob, HookStopsJob, HookFlagsJob, Ack,
                        StripeType, StripeRows
    <2>3. \A g \in Hooks : hook'[g].at # "idle" => hook'[g].ev \in stripe.events
      BY <1>0, <1>3 DEF HookAdvancesJob, HookCancelsJob, HookStopsJob, HookFlagsJob, HookAt,
                        Ack, HookType
    <2>4. \A a \in Actors : pc'[a] # "idle" => Charged
      BY <1>0, <1>3, <2>1 DEF HookAdvancesJob, HookCancelsJob, HookStopsJob, HookFlagsJob
    <2>5. /\ job'.status \in {"NONE", "AWAITING_PAYMENT", "FAILED"} \/ Charged
          /\ job'.status = "REFUNDED" => Refunded
      BY <1>0, <1>3, <2>1
         DEF HookAdvancesJob, HookCancelsJob, HookStopsJob, HookFlagsJob, WriteJob, JobType,
             JobRows, FullRefund
    <2> QED BY <2>2, <2>3, <2>4, <2>5
  <1>4. CASE HookDies(h)
    <2>1. \A g \in Hooks : hook'[g].at # "idle" => hook'[g].ev \in stripe.events
      BY <1>0, <1>4 DEF HookDies, HookAt, HookType
    <2>2. UNCHANGED <<checkout, payment, job, stripe, pc, ctx, chain>> BY <1>4 DEF HookDies
    <2> QED BY <2>1, <2>2
  <1> QED BY <1>1, <1>2, <1>3, <1>4 DEF HookStep

LEMMA MoneyWorker ==
  ASSUME TypeOK, MoneyInv, NEW w \in Workers, SweepPicks(w) \/ WorkerStep(w) \/ Throw(w)
  PROVE  MoneyInv'
  <1>0. w \in Actors /\ JobType /\ CtxType BY DEF TypeOK, Actors
  <1>1. Charged
    <2>1. CASE SweepPicks(w) BY <2>1 DEF SweepPicks, Claimable, MoneyInv
    <2>2. CASE WorkerStep(w) \/ Throw(w)
      <3>1. pc[w] # "idle"
        BY <2>2 DEF WorkerStep, Throw, Claim, Derive, ReadChain, Sign, Send, Confirm, RecordNft,
                    RecordTx, Finish, Fail, TryBlock
      <3> QED BY <1>0, <3>1 DEF MoneyInv
    <2> QED BY <2>1, <2>2
  <1>2. UNCHANGED <<checkout, stripe, hook, payment>>
    BY DEF SweepPicks, WorkerStep, Throw, Claim, Derive, ReadChain, Sign, Send, Confirm,
           RecordNft, RecordTx, Finish, Fail
  <1>3. \A a \in Actors : ctx'[a].ok => ctx[a].ok
    <2>1. CASE Claim(w) BY <1>0, <2>1 DEF Claim, Return, CtxType, Locals, NoCtx
    <2>2. CASE Sign(w) BY <1>0, <2>2 DEF Sign, CtxType, Locals
    <2>3. CASE Finish(w) \/ Fail(w)
      BY <1>0, <2>3 DEF Finish, Fail, Return, CtxType, Locals, NoCtx
    <2>4. CASE UNCHANGED ctx BY <2>4
    <2> QED BY <2>1, <2>2, <2>3, <2>4
            DEF SweepPicks, WorkerStep, Throw, Derive, ReadChain, Send, Confirm, RecordNft, RecordTx
  <1>4. job'.status = "REFUNDED" => job.status = "REFUNDED"
    <2>1. CASE Claim(w) BY <1>0, <2>1 DEF Claim, WriteJob, JobType, JobRows
    <2>2. CASE Derive(w) \/ Sign(w) BY <1>0, <2>2 DEF Derive, Sign, WriteJob, JobType, JobRows
    <2>3. CASE Finish(w) BY <1>0, <2>3 DEF Finish, WriteJob, JobType, JobRows
    <2>4. CASE Fail(w) BY <1>0, <2>4 DEF Fail, WriteJob, JobType, JobRows
    <2>5. CASE UNCHANGED job BY <2>5
    <2> QED BY <2>1, <2>2, <2>3, <2>4, <2>5
            DEF SweepPicks, WorkerStep, Throw, ReadChain, Send, Confirm, RecordNft, RecordTx
  <1> QED BY <1>1, <1>2, <1>3, <1>4, MoneyKept DEF MoneyInv, RefundIsReal

LEMMA MoneyRefund ==
  ASSUME TypeOK, MoneyInv, NEW a \in Actors, AdminRefund(a) \/ RefundStep(a) \/ Evict(a)
  PROVE  MoneyInv'
  <1>0. JobType /\ CtxType /\ StripeType /\ PaymentType BY DEF TypeOK
  <1>1. Charged
    BY DEF AdminRefund, MayRefund, RefundStep, RefundReads, CallRefund, RefundWritesJob,
           RefundWritesPayment, Evict, MoneyInv
  <1>2. CASE CallRefund(a)
    <2>1. UNCHANGED <<checkout, payment, job, hook, chain>> BY <1>2 DEF CallRefund
    <2>2. CASE UNCHANGED <<stripe, ctx>>
      <3>1. \A b \in Actors : ctx'[b].ok => Refunded BY <2>2 DEF MoneyInv
      <3> QED BY <1>1, <2>1, <2>2, <3>1, MoneyKept DEF MoneyInv, RefundIsReal
    <2>3. CASE stripe' = [stripe EXCEPT !.refund = "platform", !.events = @ \cup {"refunded"}]
      <3>1. /\ stripe'.intent = stripe.intent /\ stripe'.refund = "platform"
            /\ stripe'.events = stripe.events \cup {"refunded"}
        BY <1>0, <2>3 DEF StripeType, StripeRows
      <3> QED BY <1>1, <2>1, <3>1
              DEF MoneyInv, Charged, Refunded, RefundIsReal, ChargedFirst, Delivered
    <2> QED BY <1>2, <2>2, <2>3 DEF CallRefund, Emit
  <1>3. CASE AdminRefund(a) \/ RefundReads(a) \/ RefundWritesJob(a) \/ RefundWritesPayment(a)
             \/ Evict(a)
    <2>1. UNCHANGED <<checkout, stripe, hook>>
      BY <1>3 DEF AdminRefund, RefundReads, RefundWritesJob, RefundWritesPayment, Evict
    <2>2. \A b \in Actors : ctx'[b].ok => ctx[b].ok
      BY <1>0, <1>3 DEF AdminRefund, RefundReads, RefundWritesJob, RefundWritesPayment, Evict,
                        Return, CtxType, Locals, NoCtx
    <2>3. job'.status = "REFUNDED" => job.status = "REFUNDED" \/ ctx[a].ok
      BY <1>0, <1>3 DEF AdminRefund, RefundReads, RefundWritesJob, RefundWritesPayment, Evict,
                        WriteJob, JobType, JobRows
    <2>4. payment'.status = "REFUNDED" => payment.status = "REFUNDED" \/ ctx[a].ok
      BY <1>0, <1>3 DEF AdminRefund, RefundReads, RefundWritesJob, RefundWritesPayment, Evict,
                        PaymentType
    <2> QED BY <1>1, <2>1, <2>2, <2>3, <2>4, MoneyKept DEF MoneyInv, RefundIsReal
  <1> QED BY <1>2, <1>3 DEF RefundStep

LEMMA MoneyWorld ==
  ASSUME TypeOK, MoneyInv,
         \/ LeaseExpires \/ BackoffElapses \/ RotateSeed
         \/ \E t \in chain.inflight : Land(t) \/ Drop(t)
         \/ \E s \in Seeds : Dust(s)
  PROVE  MoneyInv'
  <1> USE DEF MoneyInv, Charged, Refunded, Delivered, RefundIsReal, ChargedFirst
  <1>0. JobType /\ ChainType BY DEF TypeOK
  <1>1. CASE LeaseExpires \/ BackoffElapses \/ RotateSeed
    BY <1>0, <1>1 DEF LeaseExpires, BackoffElapses, RotateSeed, JobType, JobRows
  <1>2. CASE \E t \in chain.inflight : Land(t) \/ Drop(t)
    BY <1>2 DEF Land, Drop
  <1>3. CASE \E s \in Seeds : Dust(s)
    BY <1>0, <1>3 DEF Dust, ChainType
  <1> QED BY <1>1, <1>2, <1>3

LEMMA MoneyStep == TypeOK /\ MoneyInv /\ [Next]_vars => MoneyInv'
  <1> SUFFICES ASSUME TypeOK, MoneyInv, [Next]_vars PROVE MoneyInv' OBVIOUS
  <1>1. CASE UNCHANGED vars
    BY <1>1 DEF vars, MoneyInv, Charged, Refunded, Delivered, RefundIsReal, ChargedFirst
  <1>2. CASE Next
    BY <1>2, MoneyCheckout, MoneyStripe, MoneyHook, MoneyWorker, MoneyRefund, MoneyWorld
       DEF Next, Actors
  <1> QED BY <1>1, <1>2

\* Assets and the Nft row only accumulate.
LEMMA Accumulate ==
  ASSUME TypeOK, [Next]_vars
  PROVE  (Delivered => Delivered') /\ (rows.nft => rows'.nft)
  <1>1. chain.assets \subseteq chain'.assets
    BY DEF TypeOK, ChainType, Next, vars, Checkout, CreateRow, CallStripe, MarkRefused,
       AttachIntent, CheckoutDies, StripeActs, Pay, Decline, CancelIntent, DashboardRefund,
       Deliver, HookStep, HookWritesPayment, HookAdvancesJob, HookCancelsJob, HookStopsJob,
       HookFlagsJob, HookDies, LeaseExpires, BackoffElapses, SweepPicks, WorkerStep, Claim,
       Derive, ReadChain, Sign, Send, Confirm, RecordNft, RecordTx, Finish, Fail, Throw,
       AdminRefund, RefundStep, RefundReads, CallRefund, RefundWritesJob, RefundWritesPayment,
       Evict, Land, Drop, Dust, RotateSeed
  <1>2. rows.nft => rows'.nft
    BY DEF TypeOK, RowsType, Next, vars, Checkout, CreateRow, CallStripe, MarkRefused,
       AttachIntent, CheckoutDies, StripeActs, Pay, Decline, CancelIntent, DashboardRefund,
       Deliver, HookStep, HookWritesPayment, HookAdvancesJob, HookCancelsJob, HookStopsJob,
       HookFlagsJob, HookDies, LeaseExpires, BackoffElapses, SweepPicks, WorkerStep, Claim,
       Derive, ReadChain, Sign, Send, Confirm, RecordNft, RecordTx, Finish, Fail, Throw,
       AdminRefund, RefundStep, RefundReads, CallRefund, RefundWritesJob, RefundWritesPayment,
       Evict, Land, Drop, Dust, RotateSeed
  <1> QED BY <1>1, <1>2 DEF Delivered

LEMMA GoodsStep == TypeOK /\ GoodsInv /\ [Next]_vars => GoodsInv'
  <1> SUFFICES ASSUME TypeOK, GoodsInv, [Next]_vars PROVE GoodsInv' OBVIOUS
  <1>0. PcType /\ JobType /\ RowsType BY DEF TypeOK
  <1> DEFINE Seen(w) == /\ pc[w] \in {"recordNft", "recordTx", "finish"} => Delivered
                        /\ pc[w] \in {"recordTx", "finish"} => rows.nft
  <1>1. (Delivered => Delivered') /\ (rows.nft => rows'.nft) BY Accumulate
  <1>2. ASSUME UNCHANGED <<pc, job>> PROVE GoodsInv'
    BY <1>1, <1>2 DEF GoodsInv, MintedIsDelivered
  <1>3. ASSUME NEW w \in Workers, WorkerStep(w) \/ Throw(w) \/ SweepPicks(w) PROVE GoodsInv'
    <2>0. w \in Actors BY DEF Actors
    <2>1. \A v \in Workers \ {w} : pc'[v] = pc[v]
      BY <1>0, <1>3 DEF SweepPicks, WorkerStep, Throw, Claim, Derive, ReadChain, Sign, Send,
         Confirm, RecordNft, RecordTx, Finish, Fail, GoTo, Return, PcType, Actors
    <2>2. Seen(w)'
      <3>1. CASE ReadChain(w)
        <4>1. pc'[w] = Verdict(w) BY <1>0, <2>0, <3>1 DEF ReadChain, GoTo, PcType
        <4>2. Verdict(w) \notin {"recordTx", "finish"}
          BY DEF Verdict
        <4>3. Verdict(w) = "recordNft" => Delivered
          BY DEF Verdict, MintedAt, Delivered
        <4> QED BY <1>1, <4>1, <4>2, <4>3
      <3>2. CASE Confirm(w)
        <4>1. pc'[w] = "fail" \/ (pc'[w] = "recordNft" /\ SeenLanded(w))
          BY <1>0, <2>0, <3>2 DEF Confirm, GoTo, PcType
        <4> QED BY <1>1, <4>1 DEF SeenLanded, Delivered
      <3>3. CASE RecordNft(w)
        BY <1>0, <1>1, <2>0, <3>3 DEF RecordNft, GoTo, PcType, RowsType, GoodsInv
      <3>4. CASE RecordTx(w)
        BY <1>0, <1>1, <2>0, <3>4 DEF RecordTx, GoTo, PcType, GoodsInv
      <3>5. CASE SweepPicks(w) \/ Throw(w) \/ Claim(w) \/ Derive(w) \/ Sign(w) \/ Send(w)
                 \/ Finish(w) \/ Fail(w)
        <4>1. pc'[w] \in {"idle", "called", "derive", "read", "block", "send", "confirm", "fail"}
          BY <1>0, <2>0, <3>5 DEF SweepPicks, Throw, Claim, Derive, Sign, Send, Finish, Fail,
             GoTo, Return, PcType
        <4> QED BY <4>1
      <3> QED BY <1>3, <3>1, <3>2, <3>3, <3>4, <3>5 DEF WorkerStep
    <2>3. job'.status = "MINTED" => job.status = "MINTED" \/ pc[w] = "finish"
      <3>1. CASE Claim(w) \/ Derive(w) \/ Sign(w)
        BY <1>0, <3>1 DEF Claim, Derive, Sign, WriteJob, JobType, JobRows
      <3>2. CASE Fail(w) BY <1>0, <3>2 DEF Fail, WriteJob, JobType, JobRows
      <3>3. CASE Finish(w) BY <3>3 DEF Finish
      <3>4. CASE UNCHANGED job BY <3>4
      <3> QED BY <1>3, <3>1, <3>2, <3>3, <3>4 DEF WorkerStep, SweepPicks, Throw, ReadChain, Send,
             Confirm, RecordNft, RecordTx
    <2> QED BY <1>1, <2>1, <2>2, <2>3 DEF GoodsInv, MintedIsDelivered
  <1>4. ASSUME NEW a \in Actors, AdminRefund(a) \/ RefundStep(a) \/ Evict(a) PROVE GoodsInv'
    <2>1. \A v \in Workers : pc'[v] = pc[v] \/ pc'[v] \in {"idle", "refund", "stripe",
                                                          "refundJob", "refundPayment"}
      BY <1>0, <1>4 DEF AdminRefund, RefundStep, Evict, RefundReads, CallRefund,
         RefundWritesJob, RefundWritesPayment, GoTo, Return, PcType, Actors
    <2>2. job'.status = "MINTED" => job.status = "MINTED"
      BY <1>0, <1>4 DEF AdminRefund, RefundStep, Evict, RefundReads, CallRefund,
         RefundWritesJob, RefundWritesPayment, WriteJob, JobType, JobRows
    <2> QED BY <1>1, <2>1, <2>2 DEF GoodsInv, MintedIsDelivered
  <1>5. ASSUME NEW h \in Hooks, (\E e \in Events : Deliver(h, e)) \/ HookStep(h) \/ HookDies(h)
        PROVE  GoodsInv'
    <2>1. \A v \in Workers : pc'[v] = pc[v] \/ pc'[v] = "called"
      BY <1>0, <1>5 DEF Deliver, HookStep, HookWritesPayment, HookAdvancesJob, HookCancelsJob,
         HookStopsJob, HookFlagsJob, HookDies, KickOff, GoTo, PcType, Actors
    <2>2. job'.status = "MINTED" => job.status = "MINTED"
      BY <1>0, <1>5 DEF Deliver, HookStep, HookWritesPayment, HookAdvancesJob, HookCancelsJob,
         HookStopsJob, HookFlagsJob, HookDies, WriteJob, JobType, JobRows
    <2> QED BY <1>1, <2>1, <2>2 DEF GoodsInv, MintedIsDelivered
  <1>6. CASE CreateRow \/ LeaseExpires \/ BackoffElapses
    <2>1. UNCHANGED pc /\ (job'.status = "MINTED" => job.status = "MINTED")
      BY <1>0, <1>6 DEF CreateRow, LeaseExpires, BackoffElapses, WriteJob, JobType, JobRows
    <2> QED BY <1>1, <2>1 DEF GoodsInv, MintedIsDelivered
  <1>7. CASE \/ CallStripe \/ MarkRefused \/ AttachIntent \/ CheckoutDies \/ StripeActs
             \/ RotateSeed \/ (\E s \in Seeds : Dust(s))
             \/ (\E t \in chain.inflight : Land(t) \/ Drop(t)) \/ UNCHANGED vars
    BY <1>2, <1>7 DEF vars, CallStripe, MarkRefused, AttachIntent, CheckoutDies, StripeActs,
       Pay, Decline, CancelIntent, DashboardRefund, RotateSeed, Dust, Land, Drop
  <1> QED BY <1>3, <1>4, <1>5, <1>6, <1>7 DEF Next, Checkout, Actors

-----------------------------------------------------------------------------
(* The theorems.                                                           *)

RailInv == TypeOK /\ CtxInv /\ MoneyInv /\ GoodsInv

LEMMA RailInvariant == Spec => []RailInv
  <1>1. Init => RailInv BY TypeInit, CtxInit, MoneyInit DEF RailInv
  <1>2. RailInv /\ [Next]_vars => RailInv'
    BY TypeStep, CtxStep, MoneyStep, GoodsStep DEF RailInv
  <1> QED BY <1>1, <1>2, PTL DEF Spec

\* A mint transaction is only ever signed for an order Stripe has captured.
THEOREM NeverUnpaid == Spec => []ChargedFirst
  <1>1. RailInv => ChargedFirst BY DEF RailInv, MoneyInv
  <1> QED BY <1>1, RailInvariant, PTL

\* Neither row says REFUNDED before the money went back in full.
THEOREM RefundsAreReal == Spec => []RefundIsReal
  <1>1. RailInv => RefundIsReal BY DEF RailInv, MoneyInv
  <1> QED BY <1>1, RailInvariant, PTL

\* A job that says MINTED has an asset on chain and an Nft row.
THEOREM MintedMeansDelivered == Spec => []MintedIsDelivered
  <1>1. RailInv => MintedIsDelivered BY DEF RailInv, GoodsInv
  <1> QED BY <1>1, RailInvariant, PTL

LEMMA PaymentNeverRegresses ==
  ASSUME TypeOK, MoneyInv, Next
  PROVE  /\ payment.status = "PAID" => payment'.status \in {"PAID", "REFUNDED"}
         /\ payment.status = "REFUNDED" => payment'.status = "REFUNDED"
  <1>0. PaymentType BY DEF TypeOK
  <1>1. CASE UNCHANGED payment BY <1>1
  <1>2. CASE CreateRow \/ MarkRefused
    <2>1. ~Charged BY <1>2 DEF MoneyInv, Charged, CreateRow, MarkRefused
    <2> QED BY <2>1 DEF MoneyInv
  <1>3. CASE AttachIntent \/ \E h \in Hooks, e \in Events : Deliver(h, e)
    <2>1. payment'.status = payment.status
      BY <1>0, <1>3 DEF AttachIntent, Deliver, PaymentType
    <2> QED BY <2>1
  <1>4. ASSUME NEW h \in Hooks, HookWritesPayment(h)
        PROVE  /\ payment.status = "PAID" => payment'.status \in {"PAID", "REFUNDED"}
               /\ payment.status = "REFUNDED" => payment'.status = "REFUNDED"
    <2>1. payment'.status = PaymentAfter(hook[h].ev)
      BY <1>0, <1>4 DEF HookWritesPayment, PaymentType
    <2> QED BY <2>1 DEF PaymentAfter, FullRefund
  <1>5. CASE \E a \in Actors : RefundWritesPayment(a)
    BY <1>0, <1>5 DEF RefundWritesPayment, PaymentType
  <1>6. \/ UNCHANGED payment
        \/ CreateRow \/ MarkRefused \/ AttachIntent
        \/ (\E h \in Hooks, e \in Events : Deliver(h, e))
        \/ (\E h \in Hooks : HookWritesPayment(h))
        \/ (\E a \in Actors : RefundWritesPayment(a))
    BY DEF Next, Checkout, CallStripe, CheckoutDies, StripeActs, Pay, Decline, CancelIntent,
       DashboardRefund, HookStep, HookAdvancesJob, HookCancelsJob, HookStopsJob,
       HookFlagsJob, HookDies, LeaseExpires, BackoffElapses, SweepPicks, WorkerStep, Claim,
       Derive, ReadChain, Sign, Send, Confirm, RecordNft, RecordTx, Finish, Fail, Throw,
       AdminRefund, RefundStep, RefundReads, CallRefund, RefundWritesJob,
       Evict, Land, Drop, Dust, RotateSeed
  <1> QED BY <1>1, <1>2, <1>3, <1>4, <1>5, <1>6

\* No event or retry takes a settled payment back.
THEOREM SettledPaymentStays == Spec => SettledStays
  <1>1. RailInv /\ [Next]_vars =>
          [/\ payment.status = "PAID" => payment'.status \in {"PAID", "REFUNDED"}
           /\ payment.status = "REFUNDED" => payment'.status = "REFUNDED"]_vars
    BY PaymentNeverRegresses DEF RailInv
  <1> QED BY <1>1, RailInvariant, PTL DEF Spec, SettledStays

-----------------------------------------------------------------------------
(* Refinement: the rail implements OrderLedger.                            *)

\* Which steps move the buyer's money or the NFT.
LEMMA Movers ==
  ASSUME TypeOK, MoneyInv, Next
  PROVE  \/ UNCHANGED <<Charged, Refunded, Delivered>>
         \/ UNCHANGED chain /\ (Pay \/ DashboardRefund \/ \E a \in Actors : CallRefund(a))
         \/ UNCHANGED stripe /\ (\E t \in chain.inflight : Land(t))
  <1>0. StripeType /\ ChainType BY DEF TypeOK
  <1>1. \/ UNCHANGED <<stripe, chain>>
        \/ CallStripe \/ Pay \/ Decline \/ CancelIntent \/ DashboardRefund
        \/ (\E h \in Hooks : \/ \E e \in Events : Deliver(h, e)
                             \/ HookStep(h))
        \/ (\E w \in Workers : Send(w))
        \/ (\E a \in Actors : CallRefund(a))
        \/ (\E t \in chain.inflight : Land(t) \/ Drop(t)) \/ (\E s \in Seeds : Dust(s))
    BY DEF Next, Checkout, CreateRow, MarkRefused, AttachIntent, CheckoutDies, StripeActs,
       HookDies, LeaseExpires, BackoffElapses, SweepPicks, WorkerStep, Claim,
       Derive, ReadChain, Sign, Confirm, RecordNft, RecordTx, Finish, Fail, Throw,
       AdminRefund, RefundStep, RefundReads, RefundWritesJob, RefundWritesPayment,
       Evict, RotateSeed
  <1>2. CASE UNCHANGED <<stripe, chain>> BY <1>2 DEF Charged, Refunded, Delivered
  <1>3. CASE CallStripe \/ Decline \/ CancelIntent
             \/ (\E h \in Hooks : (\E e \in Events : Deliver(h, e)) \/ HookStep(h))
    <2>1. UNCHANGED chain
      BY <1>3 DEF CallStripe, Decline, CancelIntent, Deliver, HookStep,
         HookWritesPayment, HookAdvancesJob, HookCancelsJob, HookStopsJob, HookFlagsJob
    <2>2. stripe'.refund = stripe.refund
      BY <1>0, <1>3 DEF CallStripe, Decline, CancelIntent, Emit, Deliver, HookStep,
         HookWritesPayment, HookAdvancesJob, HookCancelsJob, HookStopsJob, HookFlagsJob, Ack,
         StripeType, StripeRows
    <2>3. stripe'.intent = stripe.intent \/ (stripe.intent # "succeeded" /\ stripe'.intent # "succeeded")
      BY <1>0, <1>3 DEF CallStripe, Decline, CancelIntent, Emit, Deliver, HookStep,
         HookWritesPayment, HookAdvancesJob, HookCancelsJob, HookStopsJob, HookFlagsJob, Ack,
         StripeType, StripeRows, MoneyInv
    <2> QED BY <2>1, <2>2, <2>3 DEF Charged, Refunded, Delivered
  <1>4. CASE (\E w \in Workers : Send(w)) \/ (\E s \in Seeds : Dust(s))
             \/ (\E t \in chain.inflight : Drop(t))
    <2>1. UNCHANGED stripe /\ chain'.assets = chain.assets
      BY <1>0, <1>4 DEF Send, Dust, Drop, ChainType
    <2> QED BY <2>1 DEF Charged, Refunded, Delivered
  <1>5. CASE Pay \/ DashboardRefund \/ \E a \in Actors : CallRefund(a)
    BY <1>5 DEF Pay, DashboardRefund, CallRefund
  <1>6. CASE \E t \in chain.inflight : Land(t)
    BY <1>6 DEF Land
  <1> QED BY <1>1, <1>2, <1>3, <1>4, <1>5, <1>6

\* Every step of the rail is a step of the ledger or leaves it alone.
LEMMA OrderStep ==
  ASSUME TypeOK, MoneyInv, MoneyInv', [Next]_vars
  PROVE  [Order!Next]_(Order!ledgerVars)
  <1> USE DEF Order!Next, Order!ledgerVars, Money, Goods
  <1>0. StripeType /\ ChainType BY DEF TypeOK
  <1>1. CASE UNCHANGED <<Charged, Refunded, Delivered>> BY <1>1
  <1>2. CASE UNCHANGED vars BY <1>2 DEF vars, Charged, Refunded, Delivered
  <1>3. CASE Pay
    <2>1. Charged' /\ ~Charged /\ UNCHANGED Refunded /\ UNCHANGED Delivered
      BY <1>0, <1>3 DEF Pay, Emit, StripeType, StripeRows, Charged, Refunded, Delivered
    <2>2. ~Refunded BY <2>1 DEF MoneyInv
    <2> QED BY <2>1, <2>2 DEF Order!Capture
  <1>4. CASE UNCHANGED chain /\ (DashboardRefund \/ \E a \in Actors : CallRefund(a))
    <2>1. UNCHANGED Delivered BY <1>4 DEF Delivered
    <2>2. UNCHANGED Charged /\ (Refunded => Refunded')
      BY <1>0, <1>4 DEF DashboardRefund, CallRefund, Emit, StripeType, StripeRows, Charged, Refunded
    <2>3. Refunded' => Charged BY <2>2 DEF MoneyInv
    <2> QED BY <2>1, <2>2, <2>3 DEF Order!Return
  <1>5. CASE UNCHANGED stripe /\ (\E t \in chain.inflight : Land(t))
    <2>1. UNCHANGED Charged /\ UNCHANGED Refunded BY <1>5 DEF Charged, Refunded
    <2>2. Charged /\ Delivered' BY <1>0, <1>5 DEF Land, ChainType, MoneyInv, ChargedFirst, Delivered
    <2> QED BY <2>1, <2>2 DEF Order!Deliver
  <1> QED BY <1>1, <1>2, <1>3, <1>4, <1>5, Movers

\* The rail implements the order ledger: one charge, at most one refund of it,
\* at most one delivery, and none without a charge.
THEOREM ImplementsOrder == Spec => KeepsOrder
  <1>1. Init => Order!Init
    BY DEF Init, Order!Init, Money, Goods, Charged, Refunded, Delivered
  <1>2. RailInv /\ RailInv' /\ [Next]_vars => [Order!Next]_(Order!ledgerVars)
    BY OrderStep DEF RailInv
  <1> QED BY <1>1, <1>2, RailInvariant, PTL DEF Spec, KeepsOrder, Order!Spec

-----------------------------------------------------------------------------
(* A captured payment is never stranded.                                   *)

LEMMA PaperInit == Init => PaperInv
  BY DEF Init, PaperInv, Actors

\* An intent id is never taken off the row.
LEMMA AttachedStays ==
  ASSUME PaymentType, Next, payment.attached
  PROVE  payment'.attached
  <1>1. \/ UNCHANGED payment
        \/ payment' = [payment EXCEPT !.attached = TRUE]
        \/ \E x : payment' = [payment EXCEPT !.status = x]
    BY DEF Next, Checkout, CreateRow, CallStripe, MarkRefused, AttachIntent, CheckoutDies,
       StripeActs, Pay, Decline, CancelIntent, DashboardRefund, Deliver,
       HookStep, HookWritesPayment, HookAdvancesJob, HookCancelsJob, HookStopsJob,
       HookFlagsJob, HookDies, LeaseExpires, BackoffElapses, SweepPicks, WorkerStep, Claim,
       Derive, ReadChain, Sign, Send, Confirm, RecordNft, RecordTx, Finish, Fail, Throw,
       AdminRefund, RefundStep, RefundReads, CallRefund, RefundWritesJob, RefundWritesPayment,
       Evict, Land, Drop, Dust, RotateSeed
  <1>2. CASE payment' = [payment EXCEPT !.attached = TRUE]
    BY <1>2 DEF PaymentType
  <1>3. ASSUME NEW x, payment' = [payment EXCEPT !.status = x] PROVE payment'.attached
    BY <1>3 DEF PaymentType
  <1> QED BY <1>1, <1>2, <1>3

LEMMA PaperCheckout == TypeOK /\ MoneyInv /\ PaperInv /\ Checkout => PaperInv'
  <1> SUFFICES ASSUME TypeOK, MoneyInv, PaperInv, Checkout PROVE PaperInv' OBVIOUS
  <1>0. PaymentType /\ JobType /\ StripeType BY DEF TypeOK
  <1>a. payment.attached => payment'.attached BY <1>0, AttachedStays DEF Next
  <1>1. CASE CreateRow
    <2>1. payment'.status = "REQUIRES_PAYMENT" /\ job'.status = "AWAITING_PAYMENT"
      BY <1>0, <1>1 DEF CreateRow, WriteJob, PaymentType, JobType, JobRows
    <2> QED BY <1>a, <1>1, <2>1 DEF CreateRow, PaperInv
  <1>2. CASE CallStripe
    <2>1. stripe'.events = stripe.events BY <1>0, <1>2 DEF CallStripe, StripeType, StripeRows
    <2>2. stripe.intent = "none" BY <1>2 DEF CallStripe, MoneyInv
    <2> QED BY <1>2, <2>1, <2>2 DEF CallStripe, PaperInv
  <1>3. CASE MarkRefused
    <2>1. payment'.status = "FAILED" BY <1>0, <1>3 DEF MarkRefused, PaymentType
    <2> QED BY <1>a, <1>3, <2>1 DEF MarkRefused, PaperInv
  <1>4. CASE AttachIntent
    <2>1. payment'.attached BY <1>0, <1>4 DEF AttachIntent, PaymentType
    <2> QED BY <1>4, <2>1 DEF AttachIntent, PaperInv
  <1>5. CASE CheckoutDies BY <1>5 DEF CheckoutDies, PaperInv
  <1> QED BY <1>1, <1>2, <1>3, <1>4, <1>5 DEF Checkout

LEMMA PaperStripe == TypeOK /\ MoneyInv /\ PaperInv /\ StripeActs => PaperInv'
  <1> SUFFICES ASSUME TypeOK, MoneyInv, PaperInv, StripeActs PROVE PaperInv' OBVIOUS
  <1>0. StripeType BY DEF TypeOK
  <1>1. UNCHANGED <<payment, job, hook, pc>>
    BY DEF StripeActs, Pay, Decline, CancelIntent, DashboardRefund
  <1>2. /\ stripe.events \subseteq stripe'.events
        /\ "canceled" \in stripe'.events => stripe'.intent = "canceled"
        /\ stripe.intent = "canceled" => stripe'.intent = "canceled"
    <2>1. CASE Pay BY <1>0, <2>1 DEF Pay, Emit, StripeType, StripeRows, PaperInv
    <2>2. CASE Decline BY <1>0, <2>2 DEF Decline, Emit, StripeType, StripeRows, PaperInv
    <2>3. CASE CancelIntent BY <1>0, <2>3 DEF CancelIntent, Emit, StripeType, StripeRows
    <2>4. CASE DashboardRefund
      <3>1. \/ stripe' = [stripe EXCEPT !.refund = "dashboard", !.events = @ \cup {"refunded"}]
            \/ stripe' = [stripe EXCEPT !.events = @ \cup {"partlyRefunded"}]
        BY <2>4 DEF DashboardRefund, Emit
      <3>2. \/ stripe'.events = stripe.events \cup {"refunded"}
            \/ stripe'.events = stripe.events \cup {"partlyRefunded"}
        BY <1>0, <3>1 DEF StripeType, StripeRows
      <3>3. stripe'.intent = stripe.intent
        BY <1>0, <3>1 DEF StripeType, StripeRows
      <3> QED BY <3>2, <3>3 DEF PaperInv
    <2> QED BY <2>1, <2>2, <2>3, <2>4 DEF StripeActs
  <1> QED BY <1>1, <1>2 DEF PaperInv

LEMMA PaperHook ==
  ASSUME TypeOK, MoneyInv, PaperInv, Next, NEW h \in Hooks,
         HookStep(h) \/ HookDies(h) \/ \E e \in Events : Deliver(h, e)
  PROVE  PaperInv'
  <1>0. PaymentType /\ JobType /\ StripeType /\ HookType /\ PcType BY DEF TypeOK
  <1>a. payment.attached => payment'.attached BY <1>0, AttachedStays
  <1>s. stripe'.events = stripe.events /\ stripe'.intent = stripe.intent
    BY <1>0 DEF HookStep, HookDies, Deliver, HookWritesPayment, HookAdvancesJob, HookCancelsJob,
       HookStopsJob, HookFlagsJob, Ack, StripeType, StripeRows
  <1>1. CASE \E e \in Events : Deliver(h, e)
    <2> PICK e \in Events : Deliver(h, e) BY <1>1
    <2>1. CASE Found(e)
      <3>1. payment'.attached BY <1>0, <2>1 DEF Deliver, PaymentType
      <3> QED BY <1>s, <3>1 DEF Deliver, PaperInv
    <2>2. CASE ~Found(e)
      BY <1>s, <2>2 DEF Deliver, PaperInv
    <2> QED BY <2>1, <2>2
  <1>2. ASSUME hook[h].at # "idle" PROVE PaperInv'
    <2>1. payment'.attached BY <1>a, <1>2 DEF PaperInv
    <2>2. job'.status = "FAILED" => job.status = "FAILED" \/ hook[h].ev = "canceled"
      BY <1>0, HookStep(h) \/ HookDies(h) \/ \E e \in Events : Deliver(h, e)
         DEF HookStep, HookDies, Deliver, HookWritesPayment, HookAdvancesJob, HookCancelsJob,
         HookStopsJob, HookFlagsJob, WriteJob, JobType, JobRows, Terminal
    <2>3. hook[h].ev \in stripe.events BY <1>2 DEF MoneyInv
    <2> QED BY <1>s, <2>1, <2>2, <2>3 DEF PaperInv
  <1> QED BY <1>1, <1>2 DEF HookStep, HookDies, HookWritesPayment, HookAdvancesJob, HookCancelsJob,
         HookStopsJob, HookFlagsJob

\* An invocation is running, or starts on a job that has left its unpaid
\* statuses; either way the intent id is on the row.
LEMMA PaperActor ==
  ASSUME TypeOK, MoneyInv, PaperInv, Next, NEW a \in Actors,
         SweepPicks(a) \/ WorkerStep(a) \/ Throw(a) \/ AdminRefund(a) \/ RefundStep(a) \/ Evict(a)
  PROVE  PaperInv'
  <1>0. PaymentType /\ JobType /\ StripeType /\ PcType BY DEF TypeOK
  <1>1. payment.attached
    <2>1. CASE SweepPicks(a) BY <2>1 DEF SweepPicks, Claimable, PaperInv
    <2>2. CASE AdminRefund(a) BY <2>2 DEF AdminRefund, MayRefund, PaperInv
    <2>3. CASE pc[a] # "idle" BY <2>3 DEF PaperInv
    <2> QED BY <2>1, <2>2, <2>3 DEF WorkerStep, Throw, RefundStep, Evict, Claim, Derive, ReadChain,
          Sign, Send, Confirm, RecordNft, RecordTx, Finish, Fail, RefundReads, CallRefund,
          RefundWritesJob, RefundWritesPayment, TryBlock
  <1>2. payment'.attached BY <1>0, <1>1, AttachedStays
  <1>3. job'.status = "FAILED" => job.status = "FAILED"
    <2>1. CASE RefundReads(a)
      <3>1. UNCHANGED job BY <1>1, <2>1 DEF RefundReads
      <3> QED BY <3>1
    <2>2. CASE UNCHANGED job BY <2>2
    <2>3. CASE Claim(a) \/ Derive(a) \/ Sign(a)
      BY <1>0, <2>3 DEF Claim, Derive, Sign, WriteJob, JobType, JobRows
    <2>4. CASE Finish(a) \/ Fail(a) \/ RefundWritesJob(a)
      BY <1>0, <2>4 DEF Finish, Fail, RefundWritesJob, WriteJob, JobType, JobRows
    <2> QED BY <2>1, <2>2, <2>3, <2>4 DEF SweepPicks, WorkerStep, Throw, AdminRefund, RefundStep,
          Evict, ReadChain, Send, Confirm, RecordNft, RecordTx, CallRefund, RefundWritesPayment
  <1>4. /\ stripe'.intent = stripe.intent /\ stripe.events \subseteq stripe'.events
        /\ "canceled" \in stripe'.events => "canceled" \in stripe.events
    <2>1. CASE UNCHANGED stripe BY <2>1
    <2>2. CASE stripe' = [stripe EXCEPT !.refund = "platform", !.events = @ \cup {"refunded"}]
      BY <1>0, <2>2 DEF StripeType, StripeRows
    <2>3. CASE CallRefund(a)
      <3>1. \/ UNCHANGED stripe
            \/ stripe' = [stripe EXCEPT !.refund = "platform", !.events = @ \cup {"refunded"}]
        BY <1>0, <2>3 DEF CallRefund, Emit, StripeType, StripeRows
      <3> QED BY <2>1, <2>2, <3>1
    <2> QED BY <2>1, <2>3 DEF SweepPicks, WorkerStep, Throw, AdminRefund, RefundStep, Evict, Claim,
       Derive, ReadChain, Sign, Send, Confirm, RecordNft, RecordTx, Finish, Fail, RefundReads,
       RefundWritesJob, RefundWritesPayment
  <1>5. UNCHANGED hook
    BY DEF SweepPicks, WorkerStep, Throw, AdminRefund, RefundStep, Evict, Claim,
       Derive, ReadChain, Sign, Send, Confirm, RecordNft, RecordTx, Finish, Fail, RefundReads,
       CallRefund, RefundWritesJob, RefundWritesPayment
  <1> QED BY <1>2, <1>3, <1>4, <1>5 DEF PaperInv

LEMMA PaperStep == TypeOK /\ MoneyInv /\ PaperInv /\ [Next]_vars => PaperInv'
  <1> SUFFICES ASSUME TypeOK, MoneyInv, PaperInv, [Next]_vars PROVE PaperInv' OBVIOUS
  <1>0. JobType BY DEF TypeOK
  <1>1. ASSUME UNCHANGED <<payment, stripe, hook, pc>>, job'.status = job.status PROVE PaperInv'
    BY <1>1 DEF PaperInv
  <1>2. CASE LeaseExpires \/ BackoffElapses
    <2>1. job'.status = job.status
      BY <1>0, <1>2 DEF LeaseExpires, BackoffElapses, JobType, JobRows
    <2> QED BY <1>1, <1>2, <2>1 DEF LeaseExpires, BackoffElapses
  <1>3. CASE \/ UNCHANGED vars \/ RotateSeed \/ (\E s \in Seeds : Dust(s))
             \/ (\E t \in chain.inflight : Land(t) \/ Drop(t))
    BY <1>1, <1>3 DEF vars, RotateSeed, Dust, Land, Drop
  <1>4. CASE \E h \in Hooks : (\E e \in Events : Deliver(h, e)) \/ HookStep(h) \/ HookDies(h)
    <2>1. Next BY <1>4 DEF Next
    <2> QED BY <1>4, <2>1, PaperHook
  <1>5. CASE \/ \E w \in Workers : SweepPicks(w) \/ WorkerStep(w) \/ Throw(w)
             \/ \E a \in Admins : AdminRefund(a)
             \/ \E a \in Actors : RefundStep(a) \/ Evict(a)
    <2>1. Next BY <1>5 DEF Next
    <2> QED BY <1>5, <2>1, PaperActor DEF Actors
  <1> QED BY <1>2, <1>3, <1>4, <1>5, PaperCheckout, PaperStripe DEF Next

\* Money the platform holds is never in a job nothing looks at again.
THEOREM NeverStranded == Spec => []NotStranded
  <1>1. RailInv /\ PaperInv => NotStranded
    BY DEF RailInv, MoneyInv, RefundIsReal, PaperInv, NotStranded, Charged
  <1>2. Init => PaperInv BY PaperInit
  <1>3. RailInv /\ PaperInv /\ [Next]_vars => PaperInv' BY PaperStep DEF RailInv
  <1> QED BY <1>1, <1>2, <1>3, RailInvariant, PTL DEF Spec

-----------------------------------------------------------------------------
(* One holder, one address.                                                *)

\* A step of one invocation leaves the others where they are.
LEMMA OthersStay ==
  ASSUME PcType, CtxType, NEW w \in Actors,
         SweepPicks(w) \/ WorkerStep(w) \/ Throw(w) \/ RefundStep(w) \/ Evict(w)
  PROVE  \A v \in Actors \ {w} : pc'[v] = pc[v] /\ ctx'[v] = ctx[v]
  BY DEF SweepPicks, WorkerStep, Throw, Claim, Derive, ReadChain, Sign, Send, Confirm, RecordNft,
     RecordTx, Finish, Fail, RefundStep, RefundReads, CallRefund, RefundWritesJob,
     RefundWritesPayment, Evict, GoTo, Return, PcType, CtxType

\* A step that gives nobody the job and takes it from nobody who goes on.
LEMMA HolderKept ==
  ASSUME HolderInv, job'.attempts = job.attempts,
         \A v \in Workers : Holds(v)' =>
             /\ Holds(v) /\ ctx'[v].n = ctx[v].n
             /\ Refunding(v)' => Refunding(v) \/ job.attempts > MaxAttempts
             /\ job.attempts <= MaxAttempts => job'.status = "MINTING" /\ job'.lease = "live"
  PROVE  HolderInv'
  <1>1. \A v \in Workers : Refunding(v)' => Holds(v)'
    BY DEF Refunding, Holds
  <1> QED BY <1>1 DEF HolderInv

\* A write of the job row keeps the claim's columns, or there is no holder.
LEMMA HeldJobKept ==
  ASSUME JobType, NEW row \in JobRows, WriteJob(row)
  PROVE  /\ job'.attempts = row.attempts /\ job'.status = row.status
         /\ job'.lease = row.lease /\ job'.addr = row.addr
  BY DEF WriteJob, JobRows

\* A claim that finds the row takes it: the next attempt, a fresh lease, and the
\* row's address in the worker's hand.
LEMMA ClaimTakes ==
  ASSUME PcType, CtxType, JobType, NEW w \in Workers, Claim(w), Claimable
  PROVE  /\ job'.attempts = IF job.attempts > MaxAttempts THEN job.attempts ELSE job.attempts + 1
         /\ job'.status = "MINTING" /\ job'.lease = "live" /\ ~job'.waited
         /\ job'.addr = job.addr
         /\ ctx'[w].n = job'.attempts /\ ctx'[w].addr = job.addr
         /\ pc'[w] = "derive"
  <1> DEFINE n == IF job.attempts > MaxAttempts THEN job.attempts ELSE job.attempts + 1
  <1>0. w \in Actors BY DEF Actors
  <1>1. /\ WriteJob([job EXCEPT !.status = "MINTING", !.lease = "live", !.attempts = n])
        /\ GoTo(w, "derive")
        /\ ctx' = [ctx EXCEPT ![w] = [n |-> n, addr |-> job.addr, own |-> seed,
                                      sig |-> job.sig, ok |-> FALSE]]
    BY DEF Claim
  <1> HIDE DEF n
  <1>2. /\ job'.attempts = n /\ job'.status = "MINTING" /\ job'.lease = "live"
        /\ job'.addr = job.addr
    BY <1>1 DEF WriteJob, JobType, JobRows
  <1>3. ~job'.waited BY <1>1 DEF WriteJob, JobType, JobRows
  <1>4. ctx'[w].n = n /\ ctx'[w].addr = job.addr /\ pc'[w] = "derive"
    BY <1>0, <1>1 DEF GoTo, PcType, CtxType
  <1> QED BY <1>2, <1>3, <1>4 DEF n

LEMMA HolderWorker ==
  ASSUME TypeOK, CtxInv, HolderInv, NEW w \in Workers, WorkerStep(w) \/ Throw(w) \/ SweepPicks(w)
  PROVE  HolderInv'
  <1>0. PcType /\ CtxType /\ JobType /\ w \in Actors BY DEF TypeOK, Actors
  <1>1. \A v \in Workers \ {w} : /\ pc'[v] = pc[v] /\ ctx'[v] = ctx[v]
                                 /\ Holds(v)' = Holds(v) /\ Refunding(v)' = Refunding(v)
    <2>1. \A v \in Workers \ {w} : pc'[v] = pc[v] /\ ctx'[v] = ctx[v]
      BY <1>0, OthersStay DEF Actors
    <2> QED BY <2>1 DEF Holds, Refunding
  <1>2. CASE Claim(w)
    <2>1. CASE Claimable
      <3>1. /\ job'.attempts = IF job.attempts > MaxAttempts THEN job.attempts
                               ELSE job.attempts + 1
            /\ job'.status = "MINTING" /\ job'.lease = "live"
            /\ ctx'[w].n = job'.attempts /\ pc'[w] = "derive"
        BY <1>0, <1>2, <2>1, ClaimTakes
      <3>2. job.attempts <= MaxAttempts => \A v \in Workers : ~Holds(v)
        BY <2>1 DEF HolderInv, Claimable
      <3>3. job.attempts \in Nat BY <1>0 DEF JobType, JobRows
      <3>4. ~Refunding(w)' BY <3>1 DEF Refunding
      <3>5. ASSUME NEW v \in Workers, Holds(v)' PROVE v = w \/ (Holds(v) /\ job.attempts > MaxAttempts)
        BY <1>1, <3>2, <3>3, <3>5, RailAssumption
      <3>6. \A v \in Workers : Refunding(v)' => job'.attempts > MaxAttempts
        BY <1>1, <3>1, <3>3, <3>4, RailAssumption DEF HolderInv
      <3>7. \A v \in Workers : Holds(v)' => ctx'[v].n = job'.attempts
        BY <1>1, <3>1, <3>3, <3>5, RailAssumption DEF HolderInv
      <3>8. \A v, u \in Workers : job'.attempts <= MaxAttempts /\ Holds(v)' /\ Holds(u)' => v = u
        BY <3>1, <3>3, <3>5, RailAssumption
      <3> QED BY <3>1, <3>6, <3>7, <3>8 DEF HolderInv
    <2>2. CASE ~Claimable
      <3>1. UNCHANGED job /\ pc'[w] = "idle" BY <1>0, <1>2, <2>2 DEF Claim, Return, GoTo, PcType
      <3>2. ~Holds(w)' BY <3>1 DEF Holds
      <3> QED BY <1>1, <3>1, <3>2, HolderKept DEF HolderInv
    <2> QED BY <2>1, <2>2
  <1>3. CASE SweepPicks(w)
    <2>1. UNCHANGED job /\ pc'[w] = "called" BY <1>0, <1>3 DEF SweepPicks, GoTo, PcType
    <2>2. ~Holds(w)' BY <2>1 DEF Holds
    <2> QED BY <1>1, <2>1, <2>2, HolderKept DEF HolderInv
  <1>4. CASE Finish(w) \/ Fail(w)
    <2>1. pc'[w] = "idle" /\ job'.attempts = job.attempts /\ Holds(w)
      BY <1>0, <1>4 DEF Finish, Fail, Return, GoTo, PcType, WriteJob, JobType, JobRows, Holds
    <2>2. ~Holds(w)' BY <2>1 DEF Holds
    <2>3. \A v \in Workers : Holds(v)' => job.attempts > MaxAttempts
      <3>1. job.attempts \in Nat BY <1>0 DEF JobType, JobRows
      <3>2. \A v \in Workers : Holds(v)' => Holds(v) /\ v # w BY <1>1, <2>2
      <3> QED BY <2>1, <3>1, <3>2, RailAssumption DEF HolderInv
    <2>4. job.attempts \in Nat BY <1>0 DEF JobType, JobRows
    <2> QED BY <1>1, <2>1, <2>2, <2>3, <2>4, RailAssumption, HolderKept
  <1>5. CASE \/ Throw(w) \/ Derive(w) \/ ReadChain(w) \/ Sign(w) \/ Send(w) \/ Confirm(w)
             \/ RecordNft(w) \/ RecordTx(w)
    <2>1. Holds(w) BY <1>5 DEF Holds, Throw, TryBlock, Derive, ReadChain, Sign, Send, Confirm,
          RecordNft, RecordTx
    <2>2. ctx'[w].n = ctx[w].n
      BY <1>0, <1>5 DEF Throw, Derive, ReadChain, Sign, Send, Confirm, RecordNft, RecordTx,
         CtxType, Locals
    <2>3. Refunding(w)' => job.attempts > MaxAttempts
      <3>1. CASE ReadChain(w)
        <4>1. pc'[w] = Verdict(w) BY <1>0, <3>1 DEF ReadChain, GoTo, PcType
        <4>2. Verdict(w) \in {"block", "recordNft", "sign"} \/ (Verdict(w) = "refund" /\ Exhausted(w))
          BY DEF Verdict
        <4>3. ctx[w].n = job.attempts BY <2>1 DEF HolderInv
        <4> QED BY <4>1, <4>2, <4>3 DEF Refunding, Exhausted
      <3>2. CASE \/ Throw(w) \/ Derive(w) \/ Sign(w) \/ Send(w) \/ Confirm(w)
                 \/ RecordNft(w) \/ RecordTx(w)
        <4>1. pc'[w] \in {"fail", "block", "read", "send", "confirm", "recordNft", "recordTx", "finish"}
          BY <1>0, <3>2 DEF Throw, Derive, Sign, Send, Confirm, RecordNft, RecordTx, GoTo, PcType
        <4> QED BY <4>1 DEF Refunding
      <3> QED BY <1>5, <3>1, <3>2
    <2>4. /\ job'.attempts = job.attempts /\ job'.status = job.status
          /\ job'.lease = job.lease
      BY <1>0, <1>5 DEF Throw, Derive, ReadChain, Sign, Send, Confirm, RecordNft, RecordTx,
         WriteJob, JobType, JobRows
    <2>5. \A v \in Workers : Holds(v)' => Holds(v) /\ ctx'[v].n = ctx[v].n
      BY <1>1, <2>1, <2>2
    <2>6. \A v \in Workers : Refunding(v)' => Refunding(v) \/ job.attempts > MaxAttempts
      BY <1>1, <2>3
    <2> QED BY <2>4, <2>5, <2>6, HolderKept DEF HolderInv
  <1> QED BY <1>2, <1>3, <1>4, <1>5 DEF WorkerStep

LEMMA HolderRefund ==
  ASSUME TypeOK, HolderInv, NEW w \in Workers, RefundStep(w) \/ Evict(w)
  PROVE  HolderInv'
  <1>0. PcType /\ CtxType /\ JobType /\ w \in Actors BY DEF TypeOK, Actors
  <1>1. \A v \in Workers \ {w} : /\ pc'[v] = pc[v] /\ ctx'[v] = ctx[v]
                                 /\ Holds(v)' = Holds(v) /\ Refunding(v)' = Refunding(v)
    <2>1. \A v \in Workers \ {w} : pc'[v] = pc[v] /\ ctx'[v] = ctx[v]
      BY <1>0, OthersStay DEF Actors
    <2> QED BY <2>1 DEF Holds, Refunding
  <1>2. CASE Evict(w)
    <2>1. UNCHANGED job /\ pc'[w] = "idle" BY <1>0, <1>2 DEF Evict, Return, GoTo, PcType
    <2>2. ~Holds(w)' BY <2>1 DEF Holds
    <2> QED BY <1>1, <2>1, <2>2, HolderKept DEF HolderInv
  <1>3. CASE RefundStep(w)
    <2>1. Refunding(w) /\ Holds(w)
      BY <1>3 DEF RefundStep, RefundReads, CallRefund, RefundWritesJob, RefundWritesPayment,
         Refunding, Holds
    <2>2. job.attempts > MaxAttempts BY <2>1 DEF HolderInv
    <2>3. job'.attempts = job.attempts
      BY <1>0, <1>3 DEF RefundStep, RefundReads, CallRefund, RefundWritesJob, RefundWritesPayment,
         WriteJob, JobType, JobRows
    <2>4. Holds(w)' => ctx'[w].n = ctx[w].n
      <3>1. pc'[w] = "idle" \/ ctx'[w] = ctx[w] \/ ctx'[w] = [ctx[w] EXCEPT !.ok = TRUE]
        BY <1>0, <1>3 DEF RefundStep, RefundReads, CallRefund, RefundWritesJob,
           RefundWritesPayment, GoTo, Return, PcType, CtxType
      <3> QED BY <1>0, <3>1 DEF CtxType, Locals, Holds
    <2>5. job.attempts \in Nat BY <1>0 DEF JobType, JobRows
    <2>6. ~(job.attempts <= MaxAttempts) BY <2>2, <2>5, RailAssumption
    <2> QED BY <1>1, <2>1, <2>2, <2>3, <2>4, <2>6, HolderKept
  <1> QED BY <1>2, <1>3

\* A delivery starts a worker at most, and writes the job only when nobody
\* holds it or in a column that does not release it.
LEMMA HookKeepsHolder ==
  ASSUME TypeOK, NEW h \in Hooks, HookStep(h) \/ HookDies(h) \/ \E e \in Events : Deliver(h, e)
  PROVE  /\ \A v \in Workers : pc'[v] = pc[v] \/ pc'[v] = "called"
         /\ UNCHANGED <<ctx, chain>>
         /\ job'.attempts = job.attempts /\ job'.addr = job.addr /\ job'.lease = job.lease
         /\ job.status = "MINTING" => job'.status = "MINTING"
  <1>0. PcType /\ JobType BY DEF TypeOK
  <1>1. \A v \in Workers : pc'[v] = pc[v] \/ pc'[v] = "called"
    BY <1>0 DEF Deliver, HookStep, HookWritesPayment, HookAdvancesJob, HookCancelsJob,
       HookStopsJob, HookFlagsJob, HookDies, KickOff, GoTo, PcType, Actors
  <1>2. UNCHANGED <<ctx, chain>>
    BY DEF Deliver, HookStep, HookWritesPayment, HookAdvancesJob, HookCancelsJob,
       HookStopsJob, HookFlagsJob, HookDies
  <1>3. /\ job'.attempts = job.attempts /\ job'.addr = job.addr /\ job'.lease = job.lease
        /\ job.status = "MINTING" => job'.status = "MINTING"
    BY <1>0 DEF Deliver, HookStep, HookWritesPayment, HookAdvancesJob, HookCancelsJob,
       HookStopsJob, HookFlagsJob, HookDies, AwaitsPayment, WriteJob, JobType, JobRows
  <1> QED BY <1>1, <1>2, <1>3

LEMMA HolderStep ==
  ASSUME Undisturbed, TypeOK, CtxInv, MoneyInv, HolderInv, [Next]_vars
  PROVE  HolderInv'
  <1>0. PcType /\ JobType BY DEF TypeOK
  <1>1. ASSUME UNCHANGED <<pc, ctx>>, job'.attempts = job.attempts, job'.status = job.status,
               job'.lease = job.lease
        PROVE  HolderInv'
    BY <1>1 DEF HolderInv, Holds, Refunding
  <1>2. ASSUME NEW h \in Hooks, HookStep(h) \/ HookDies(h) \/ \E e \in Events : Deliver(h, e)
        PROVE  HolderInv'
    <2>1. \A v \in Workers : Holds(v)' => Holds(v) /\ (Refunding(v)' => Refunding(v))
      BY <1>2, HookKeepsHolder DEF Holds, Refunding
    <2> QED BY <1>2, <2>1, HookKeepsHolder, HolderKept DEF HolderInv
  <1>3. CASE LeaseExpires
    <2>1. /\ \A v \in Workers : pc'[v] = "idle"
          /\ job'.attempts = job.attempts
      BY <1>0, <1>3 DEF LeaseExpires, Elapses, Quiet, Undisturbed, JobType, JobRows
    <2>2. \A v \in Workers : ~Holds(v)' BY <2>1 DEF Holds
    <2> QED BY <2>1, <2>2, HolderKept
  <1>4. CASE BackoffElapses
    BY <1>0, <1>1, <1>4 DEF BackoffElapses, JobType, JobRows
  <1>5. CASE CreateRow
    <2>1. UNCHANGED <<pc, ctx>> /\ job'.attempts = job.attempts
      BY <1>0, <1>5 DEF CreateRow, WriteJob, JobType, JobRows
    <2>2. \A v \in Workers : ~Holds(v)'
      BY <1>5, <2>1 DEF CreateRow, MoneyInv, Charged, Holds, Actors
    <2> QED BY <2>1, <2>2, HolderKept
  <1>6. CASE \/ UNCHANGED vars \/ RotateSeed \/ (\E s \in Seeds : Dust(s))
             \/ (\E t \in chain.inflight : Land(t) \/ Drop(t))
             \/ CallStripe \/ MarkRefused \/ AttachIntent \/ CheckoutDies \/ StripeActs
    BY <1>1, <1>6 DEF vars, RotateSeed, Dust, Land, Drop, CallStripe, MarkRefused, AttachIntent,
       CheckoutDies, StripeActs, Pay, Decline, CancelIntent, DashboardRefund
  <1> QED BY <1>2, <1>3, <1>4, <1>5, <1>6, HolderWorker, HolderRefund
          DEF Next, Checkout, Actors, Undisturbed

\* A step that sends nothing and leaves addresses alone.
LEMMA AddressKept ==
  ASSUME AddressInv, job'.attempts = job.attempts, job'.addr = job.addr,
         (chain.inflight \cup chain.assets)' \subseteq chain.inflight \cup chain.assets,
         \A v \in Workers :
             /\ pc'[v] = "derive" => pc[v] = "derive" /\ ctx'[v].addr = ctx[v].addr
             /\ Addressed(v)' => Addressed(v) /\ ctx'[v].own = ctx[v].own
  PROVE  AddressInv'
  BY DEF AddressInv, Touched

\* The refund's statements, an eviction and what fails move no worker forward.
LEMMA AddressRefund ==
  ASSUME TypeOK, AddressInv, NEW w \in Workers, RefundStep(w) \/ Evict(w)
  PROVE  AddressInv'
  <1>0. PcType /\ CtxType /\ JobType /\ w \in Actors BY DEF TypeOK, Actors
  <1>1. \A v \in Workers \ {w} : pc'[v] = pc[v] /\ ctx'[v] = ctx[v]
    BY <1>0, OthersStay DEF Actors
  <1>2. pc'[w] \in {"idle", "stripe", "refundJob", "refundPayment"}
    BY <1>0 DEF RefundStep, RefundReads, CallRefund, RefundWritesJob, RefundWritesPayment, Evict,
       GoTo, Return, PcType
  <1>3. job'.attempts = job.attempts /\ job'.addr = job.addr /\ UNCHANGED chain
    BY <1>0 DEF RefundStep, RefundReads, CallRefund, RefundWritesJob, RefundWritesPayment, Evict,
       WriteJob, JobType, JobRows
  <1> QED BY <1>1, <1>2, <1>3, AddressKept DEF Addressed

LEMMA AddressWorker ==
  ASSUME TypeOK, CtxInv, GoodsInv, HolderInv, AddressInv, NEW w \in Workers,
         WorkerStep(w) \/ Throw(w) \/ SweepPicks(w)
  PROVE  AddressInv'
  <1>0. PcType /\ CtxType /\ JobType /\ ChainType /\ w \in Actors BY DEF TypeOK, Actors
  <1>n. job.attempts \in Nat BY <1>0 DEF JobType, JobRows
  <1>1. \A v \in Workers \ {w} : pc'[v] = pc[v] /\ ctx'[v] = ctx[v]
    BY <1>0, OthersStay DEF Actors
  <1>2. \A v \in Workers : pc[v] = "derive" \/ Addressed(v) => Holds(v)
    BY DEF Addressed, Holds
  <1>3. CASE Claim(w)
    <2>1. UNCHANGED chain /\ job'.addr = job.addr
      BY <1>0, <1>3 DEF Claim, WriteJob, JobType, JobRows
    <2>2. CASE ~Claimable
      <3>1. pc'[w] = "idle" /\ UNCHANGED job BY <1>0, <1>3, <2>2 DEF Claim, Return, GoTo, PcType
      <3> QED BY <1>1, <2>1, <3>1, AddressKept DEF Addressed
    <2>3. CASE Claimable
      <3>1. pc'[w] = "derive" /\ ctx'[w].addr = job.addr
        BY <1>0, <1>3, <2>3 DEF Claim, GoTo, PcType, CtxType
      <3>2. job'.attempts <= MaxAttempts => job.attempts <= MaxAttempts
        BY <1>0, <1>n, <1>3, <2>3, ClaimTakes, RailAssumption
      <3>3. ~Addressed(w)' BY <3>1 DEF Addressed
      <3>4. \A v \in Workers \ {w} : Addressed(v)' = Addressed(v) BY <1>1 DEF Addressed
      <3>5. Touched' = Touched BY <2>1 DEF Touched
      <3> QED BY <1>1, <2>1, <3>1, <3>2, <3>3, <3>4, <3>5 DEF AddressInv
    <2> QED BY <2>2, <2>3
  <1>4. CASE Derive(w)
    <2>1. UNCHANGED chain /\ job'.attempts = job.attempts /\ UNCHANGED ctx /\ pc[w] = "derive"
      BY <1>0, <1>4 DEF Derive, WriteJob, JobType, JobRows
    <2>2. CASE SeedChanged(w)
      <3>1. pc'[w] = "block" /\ UNCHANGED job BY <1>0, <1>4, <2>2 DEF Derive, GoTo, PcType
      <3> QED BY <1>1, <2>1, <3>1, AddressKept DEF Addressed
    <2>3. CASE ~SeedChanged(w) /\ ctx[w].addr # NoAddr
      <3>1. pc'[w] = "read" /\ UNCHANGED job /\ ctx[w].own = ctx[w].addr
        BY <1>0, <1>4, <2>3 DEF Derive, GoTo, PcType, SeedChanged
      <3>2. \A v \in Workers \ {w} : Addressed(v)' = Addressed(v) BY <1>1 DEF Addressed
      <3>3. Touched' = Touched BY <2>1 DEF Touched
      <3> QED BY <1>1, <2>1, <3>1, <3>2, <3>3 DEF AddressInv
    <2>4. CASE ~SeedChanged(w) /\ ctx[w].addr = NoAddr
      <3>1. pc'[w] = "read" /\ job'.addr = ctx[w].own
        BY <1>0, <1>4, <2>4 DEF Derive, GoTo, PcType, WriteJob, JobType, JobRows
      <3>2. ~Touched
        <4> SUFFICES ASSUME Touched PROVE FALSE OBVIOUS
        <4>1. job.addr = NoAddr BY <2>1, <2>4 DEF AddressInv
        <4>2. PICK t \in chain.inflight \cup chain.assets : TRUE BY DEF Touched
        <4>3. t.addr \in Seeds BY <1>0 DEF ChainType, Txs
        <4> QED BY <4>1, <4>2, <4>3, RailAssumption DEF AddressInv
      <3>3. ~Touched' /\ chain'.inflight \cup chain'.assets = {}
        BY <2>1, <3>2 DEF Touched
      <3>4. \A v \in Workers \ {w} : job'.attempts <= MaxAttempts => ~Holds(v)
        BY <1>2, <2>1 DEF HolderInv
      <3>5. \A v \in Workers \ {w} : job'.attempts <= MaxAttempts => pc'[v] # "derive" /\ ~Addressed(v)'
        BY <1>1, <1>2, <3>4 DEF Addressed
      <3> QED BY <2>1, <3>1, <3>3, <3>5 DEF AddressInv
    <2> QED BY <2>2, <2>3, <2>4
  <1>5. CASE Send(w)
    <2>1. UNCHANGED job /\ UNCHANGED ctx /\ pc[w] = "send" /\ pc'[w] \in {"confirm", "fail"}
      BY <1>0, <1>5 DEF Send, GoTo, PcType
    <2>2. job.attempts <= MaxAttempts
      BY <1>2, <2>1, RailAssumption DEF CtxInv, HolderInv, Sigs, Addressed
    <2>3. ctx[w].own = job.addr BY <2>1, <2>2 DEF AddressInv, Addressed
    <2>4. \A t \in (chain.inflight \cup chain.assets)' : t.addr = job.addr
      <3>1. CASE UNCHANGED chain BY <3>1 DEF AddressInv
      <3>2. CASE chain' = [chain EXCEPT !.inflight =
                            @ \cup {[sig |-> ctx[w].sig, addr |-> ctx[w].own]}]
        BY <1>0, <2>3, <3>2 DEF AddressInv, ChainType
      <3> QED BY <1>5, <3>1, <3>2 DEF Send
    <2>5. \A v \in Workers \ {w} : pc'[v] # "derive" /\ ~Addressed(v)'
      <3>1. \A v \in Workers \ {w} : ~Holds(v)
        BY <1>2, <2>1, <2>2 DEF HolderInv, Addressed
      <3> QED BY <1>1, <1>2, <3>1 DEF Addressed
    <2> QED BY <2>1, <2>3, <2>4, <2>5 DEF AddressInv, Addressed
  <1>6. CASE Finish(w)
    <2>1. /\ UNCHANGED chain /\ pc'[w] = "idle" /\ pc[w] = "finish"
          /\ job'.attempts = job.attempts /\ job'.addr = ctx[w].own
      BY <1>0, <1>6 DEF Finish, Return, GoTo, PcType, WriteJob, JobType, JobRows
    <2>2. Touched BY <2>1 DEF GoodsInv, Delivered, Touched
    <2>3. job'.addr = job.addr BY <2>1, <2>2 DEF AddressInv, Addressed
    <2> QED BY <1>1, <2>1, <2>3, AddressKept DEF Addressed
  <1>7. CASE \/ SweepPicks(w) \/ Throw(w) \/ ReadChain(w) \/ Sign(w) \/ Confirm(w)
             \/ RecordNft(w) \/ RecordTx(w) \/ Fail(w)
    <2>1. UNCHANGED chain /\ job'.attempts = job.attempts /\ job'.addr = job.addr
      BY <1>0, <1>7 DEF SweepPicks, Throw, ReadChain, Sign, Confirm, RecordNft, RecordTx, Fail,
         WriteJob, JobType, JobRows
    <2>2. pc'[w] # "derive" /\ (Addressed(w)' => Addressed(w) /\ ctx'[w].own = ctx[w].own)
      <3>1. CASE ReadChain(w)
        BY <1>0, <3>1 DEF ReadChain, Verdict, GoTo, PcType, Addressed
      <3>2. CASE Sign(w)
        BY <1>0, <3>2 DEF Sign, GoTo, PcType, CtxType, Locals, Addressed
      <3>3. CASE Confirm(w) \/ RecordNft(w) \/ RecordTx(w)
        BY <1>0, <3>3 DEF Confirm, RecordNft, RecordTx, GoTo, PcType, Addressed
      <3>4. CASE SweepPicks(w) \/ Throw(w) \/ Fail(w)
        BY <1>0, <3>4 DEF SweepPicks, Throw, Fail, Return, GoTo, PcType, Addressed
      <3> QED BY <1>7, <3>1, <3>2, <3>3, <3>4
    <2> QED BY <1>1, <2>1, <2>2, AddressKept DEF Addressed
  <1> QED BY <1>3, <1>4, <1>5, <1>6, <1>7 DEF WorkerStep

LEMMA AddressStep ==
  ASSUME Undisturbed, TypeOK, CtxInv, GoodsInv, HolderInv, AddressInv, [Next]_vars
  PROVE  AddressInv'
  <1>0. PcType /\ JobType /\ ChainType BY DEF TypeOK
  <1>1. ASSUME UNCHANGED <<pc, ctx>>, job'.attempts = job.attempts, job'.addr = job.addr,
               (chain.inflight \cup chain.assets)' \subseteq chain.inflight \cup chain.assets
        PROVE  AddressInv'
    BY <1>1, AddressKept DEF Addressed
  <1>2. ASSUME NEW h \in Hooks, HookStep(h) \/ HookDies(h) \/ \E e \in Events : Deliver(h, e)
        PROVE  AddressInv'
    <2>1. \A v \in Workers : /\ pc'[v] = "derive" => pc[v] = "derive"
                             /\ Addressed(v)' => Addressed(v)
      BY <1>2, HookKeepsHolder DEF Addressed
    <2> QED BY <1>2, <2>1, HookKeepsHolder, AddressKept
  <1>3. CASE LeaseExpires \/ BackoffElapses \/ CreateRow
    <2>1. /\ UNCHANGED <<pc, ctx, chain>> /\ job'.attempts = job.attempts /\ job'.addr = job.addr
      BY <1>0, <1>3 DEF LeaseExpires, BackoffElapses, CreateRow, WriteJob, JobType, JobRows
    <2> QED BY <1>1, <2>1
  <1>4. CASE \/ (\E s \in Seeds : Dust(s))
             \/ (\E t \in chain.inflight : Land(t) \/ Drop(t))
    <2>1. UNCHANGED <<pc, ctx, job>>
      BY <1>4 DEF Dust, Land, Drop
    <2>2. (chain.inflight \cup chain.assets)' \subseteq chain.inflight \cup chain.assets
      BY <1>0, <1>4 DEF Dust, Land, Drop, ChainType
    <2> QED BY <1>1, <2>1, <2>2
  <1>5. CASE \/ UNCHANGED vars \/ RotateSeed
             \/ CallStripe \/ MarkRefused \/ AttachIntent \/ CheckoutDies \/ StripeActs
    BY <1>1, <1>5 DEF vars, RotateSeed, CallStripe, MarkRefused, AttachIntent,
       CheckoutDies, StripeActs, Pay, Decline, CancelIntent, DashboardRefund
  <1> QED BY <1>2, <1>3, <1>4, <1>5, AddressWorker, AddressRefund
          DEF Next, Checkout, Actors, Undisturbed

LEMMA HolderInit == Init => HolderInv /\ AddressInv
  BY DEF Init, HolderInv, AddressInv, Holds, Refunding, Addressed, Touched, Actors

LEMMA OneHolderInvariant ==
  ASSUME Undisturbed
  PROVE  Spec => [](RailInv /\ HolderInv /\ AddressInv)
  <1>1. Init => HolderInv /\ AddressInv BY HolderInit
  <1>2. RailInv /\ HolderInv /\ AddressInv /\ [Next]_vars => (HolderInv /\ AddressInv)'
    BY HolderStep, AddressStep DEF RailInv
  <1> QED BY <1>1, <1>2, RailInvariant, PTL DEF Spec

\* One payment mints at most one asset, whatever is retried, redelivered, evicted
\* or dusted and however the seed is rotated, as long as an invocation does not
\* outlive its lease.
THEOREM MintsOneAsset ==
  ASSUME Undisturbed
  PROVE  Spec => []OneAsset
  <1>1. RailInv /\ AddressInv => OneAsset
    <2> SUFFICES ASSUME RailInv, AddressInv PROVE OneAsset OBVIOUS
    <2> DEFINE S == {t.addr : t \in chain.assets}
    <2>1. S \subseteq {job.addr} BY DEF AddressInv
    <2>2. CASE S = {}
      <3>1. Cardinality(S) = 0 BY <2>2, FS_EmptySet
      <3> QED BY <3>1 DEF OneAsset
    <2>3. CASE S = {job.addr}
      <3>1. Cardinality(S) = 1 BY <2>3, FS_Singleton
      <3> QED BY <3>1 DEF OneAsset
    <2> QED BY <2>1, <2>2, <2>3
  <1> QED BY <1>1, OneHolderInvariant, PTL

-----------------------------------------------------------------------------
(* The money or the NFT.                                                   *)

\* A step that brings no invocation nearer to a claim and sends nothing.
LEMMA CallersKept ==
  ASSUME CallersInv, job'.attempts = job.attempts,
         checkout' = "start" => job'.status = "NONE",
         job'.status \in {"NONE", "AWAITING_PAYMENT"} => job.status \in {"NONE", "AWAITING_PAYMENT"},
         job'.waited => job.waited /\ chain'.inflight \subseteq chain.inflight,
         ~job'.waited /\ job.attempts \in 1..MaxAttempts => ~job.waited,
         \A v \in Workers : \/ pc'[v] = pc[v] \/ pc'[v] = "idle"
                            \/ Holds(v) /\ Holds(v)'
  PROVE  CallersInv'
  <1>1. \A v \in Workers : /\ pc[v] = "idle" => pc'[v] = "idle"
                           /\ pc'[v] = "called" => pc[v] = "called"
                           /\ Holds(v)' => Holds(v)
    BY DEF Holds
  <1> QED BY <1>1 DEF CallersInv

\* A step of the worker that holds the job.
LEMMA CallersHolder ==
  ASSUME TypeOK, MoneyInv, CallersInv, NEW w \in Workers,
         \/ Throw(w) \/ Derive(w) \/ ReadChain(w) \/ Sign(w) \/ Send(w) \/ Confirm(w)
         \/ RecordNft(w) \/ RecordTx(w) \/ Finish(w) \/ Fail(w) \/ RefundStep(w)
  PROVE  CallersInv'
  <1>0. PcType /\ CtxType /\ JobType /\ w \in Actors BY DEF TypeOK, Actors
  <1>1. \A v \in Workers \ {w} : pc'[v] = pc[v]
    BY <1>0, OthersStay DEF Actors, WorkerStep
  <1>2. Holds(w)
    BY DEF Throw, Derive, ReadChain, Sign, Send, Confirm, RecordNft, RecordTx, Finish, Fail,
       RefundStep, RefundReads, CallRefund, RefundWritesJob, RefundWritesPayment, TryBlock, Holds
  <1>3. pc'[w] = "idle" \/ Holds(w)'
    <2>1. CASE ReadChain(w)
      BY <1>0, <2>1 DEF ReadChain, Verdict, GoTo, PcType, Holds
    <2>2. CASE \/ Throw(w) \/ Derive(w) \/ Sign(w) \/ Send(w) \/ Confirm(w)
               \/ RecordNft(w) \/ RecordTx(w) \/ Finish(w) \/ Fail(w) \/ RefundStep(w)
      BY <1>0, <2>2 DEF Throw, Derive, Sign, Send, Confirm, RecordNft, RecordTx,
         Finish, Fail, RefundStep, RefundReads, CallRefund, RefundWritesJob, RefundWritesPayment,
         GoTo, Return, PcType, Holds
    <2> QED BY <2>1, <2>2
  <1>4. ~job.waited BY <1>2 DEF CallersInv
  <1>5. ~job'.waited
    <2>1. CASE UNCHANGED job BY <1>4, <2>1
    <2>2. CASE Derive(w) \/ Sign(w)
      BY <1>0, <1>4, <2>2 DEF Derive, Sign, WriteJob, JobType, JobRows
    <2>3. CASE Finish(w) \/ Fail(w)
      BY <1>0, <1>4, <2>3 DEF Finish, Fail, WriteJob, JobType, JobRows
    <2>4. CASE RefundReads(w) \/ RefundWritesJob(w)
      BY <1>0, <1>4, <2>4 DEF RefundReads, RefundWritesJob, WriteJob, JobType, JobRows
    <2> QED BY <2>1, <2>2, <2>3, <2>4 DEF Throw, ReadChain, Send, Confirm, RecordNft, RecordTx,
           RefundStep, CallRefund, RefundWritesPayment
  <1>6. /\ job'.attempts = job.attempts
        /\ job'.status \in {"NONE", "AWAITING_PAYMENT"} => job'.status = job.status
    BY <1>0 DEF Throw, Derive, ReadChain, Sign, Send, Confirm, RecordNft, RecordTx,
       Finish, Fail, RefundStep, RefundReads, CallRefund, RefundWritesJob, RefundWritesPayment,
       WriteJob, JobType, JobRows
  <1>7. checkout' # "start"
    <2>1. UNCHANGED checkout
      BY DEF Throw, Derive, ReadChain, Sign, Send, Confirm, RecordNft, RecordTx,
         Finish, Fail, RefundStep, RefundReads, CallRefund, RefundWritesJob, RefundWritesPayment
    <2> QED BY <1>0, <1>2, <2>1 DEF MoneyInv, Charged, Holds
  <1> QED BY <1>1, <1>2, <1>3, <1>4, <1>5, <1>6, <1>7, CallersKept

LEMMA CallersClaim ==
  ASSUME Roomy, TypeOK, MoneyInv, CallersInv, NEW w \in Workers, Claim(w)
  PROVE  CallersInv'
  <1>0. PcType /\ CtxType /\ JobType /\ w \in Actors BY DEF TypeOK, Actors
  <1>n. job.attempts \in Nat BY <1>0 DEF JobType, JobRows
  <1>1. \A v \in Workers \ {w} : pc'[v] = pc[v]
    BY <1>0, OthersStay DEF Actors, WorkerStep
  <1>2. checkout' # "start"
    BY <1>0 DEF Claim, MoneyInv, Charged
  <1>3. CASE ~Claimable
    <2>1. UNCHANGED <<job, chain>> /\ pc'[w] = "idle"
      BY <1>0, <1>3 DEF Claim, Return, GoTo, PcType
    <2> QED BY <1>1, <1>2, <2>1, CallersKept
  <1>4. CASE Claimable
    <2>1. /\ job'.attempts = IF job.attempts > MaxAttempts THEN job.attempts
                             ELSE job.attempts + 1
          /\ job'.status = "MINTING" /\ ~job'.waited /\ pc'[w] = "derive" /\ pc[w] = "called"
      BY <1>0, <1>4, ClaimTakes DEF Claim
    <2>2. \A v, u \in Workers \ Sweepers : pc'[v] # "idle" /\ pc'[u] # "idle" => v = u
      BY <1>1, <2>1 DEF CallersInv
    <2>3. ASSUME NEW v \in Workers, NEW u \in Workers, pc'[v] = "called", pc'[u] = "called",
                 job'.attempts \in 1..MaxAttempts
          PROVE  v = u /\ job'.attempts = 1
      <3>1. v # w /\ u # w /\ pc[v] = "called" /\ pc[u] = "called" BY <1>1, <2>1, <2>3
      <3>2. CASE job.attempts = 0
        <4>1. job'.attempts = 1 BY <2>1, <3>2, RailAssumption
        <4>2. v = u BY <2>1, <3>1 DEF CallersInv, Roomy
        <4> QED BY <4>1, <4>2
      <3>3. CASE job.attempts # 0
        <4>1. job.attempts \in 1..MaxAttempts BY <1>n, <2>1, <2>3, <3>3, RailAssumption
        <4>2. CASE job.waited
          BY <2>1, <3>1, <4>2 DEF CallersInv, Roomy
        <4>3. CASE ~job.waited
          BY <2>1, <3>1, <4>1, <4>3 DEF CallersInv
        <4> QED BY <4>2, <4>3
      <3> QED BY <3>2, <3>3
    <2> QED BY <1>2, <2>1, <2>2, <2>3 DEF CallersInv
  <1> QED BY <1>3, <1>4

\* Before the second claim of a backoff period nobody else is about to claim.
LEMMA CapIsQuiet ==
  ASSUME Roomy, JobType, CallersInv, NEW w \in Workers, pc[w] = "called",
         job.attempts = MaxAttempts
  PROVE  chain.inflight = {}
  BY RailAssumption DEF CallersInv, Roomy

LEMMA CallersHook ==
  ASSUME TypeOK, MoneyInv, CallersInv, SaleInv, NEW h \in Hooks,
         HookStep(h) \/ HookDies(h) \/ \E e \in Events : Deliver(h, e)
  PROVE  CallersInv'
  <1>0. PcType /\ JobType /\ StripeType /\ HookType BY DEF TypeOK
  <1>n. job.attempts \in Nat BY <1>0 DEF JobType, JobRows
  <1>c. UNCHANGED <<chain, checkout>>
    BY DEF Deliver, HookStep, HookWritesPayment, HookAdvancesJob, HookCancelsJob,
       HookStopsJob, HookFlagsJob, HookDies
  <1>1. CASE UNCHANGED <<job, pc>>
    BY <1>c, <1>1, CallersKept DEF CallersInv
  <1>2. CASE HookAdvancesJob(h) /\ AwaitsPayment
    <2>1. /\ job.attempts = 0 /\ \A v \in Workers : pc[v] = "idle"
          /\ checkout' # "start"
      BY <1>c, <1>2 DEF AwaitsPayment, CallersInv
    <2>2. PICK k \in Workers \ Sweepers : GoTo(k, "called")
      BY <1>2 DEF HookAdvancesJob, KickOff
    <2>3. \A v \in Workers : pc'[v] = "idle" \/ (v = k /\ pc'[v] = "called")
      BY <1>0, <2>1, <2>2 DEF GoTo, PcType, Actors
    <2>4. job'.status = "PENDING" /\ job'.attempts = 0 /\ ~job'.waited
      BY <1>0, <1>2, <2>1 DEF HookAdvancesJob, WriteJob, JobType, JobRows
    <2> QED BY <2>1, <2>3, <2>4 DEF CallersInv
  <1>3. CASE HookCancelsJob(h) /\ AwaitsPayment
    <2>1. job.attempts = 0 /\ checkout' # "start" BY <1>c, <1>3 DEF AwaitsPayment, CallersInv
    <2>2. UNCHANGED pc BY <1>3 DEF HookCancelsJob
    <2>3. job'.status = "FAILED" /\ job'.attempts = job.attempts /\ ~job'.waited
      BY <1>0, <1>3 DEF HookCancelsJob, WriteJob, JobType, JobRows
    <2> QED BY <2>1, <2>2, <2>3, CallersKept
  <1>4. CASE (HookStopsJob(h) \/ HookFlagsJob(h)) /\ ~UNCHANGED job
    <2>1. job.status \notin {"NONE", "FAILED"} /\ UNCHANGED pc
      BY <1>4 DEF HookStopsJob, HookFlagsJob
    <2>2. job'.attempts = job.attempts /\ ~job'.waited
      BY <1>0, <1>4 DEF HookStopsJob, HookFlagsJob, WriteJob, JobType, JobRows
    <2>3. job'.status \in {"NONE", "AWAITING_PAYMENT"} => job'.status = job.status
      BY <1>0, <1>4 DEF HookStopsJob, HookFlagsJob, WriteJob, JobType, JobRows
    <2>4. Refunded
      <3>1. CASE HookStopsJob(h) BY <3>1 DEF HookStopsJob, FullRefund, MoneyInv
      <3>2. CASE HookFlagsJob(h) BY <3>2 DEF HookFlagsJob, SaleInv
      <3> QED BY <1>4, <3>1, <3>2
    <2>5. job.attempts \notin 1..MaxAttempts BY <1>n, <2>4, RailAssumption DEF SaleInv
    <2>6. checkout' # "start" BY <1>c, <2>4 DEF MoneyInv, Charged
    <2> QED BY <2>1, <2>2, <2>3, <2>5, <2>6, CallersKept
  <1> QED BY <1>1, <1>2, <1>3, <1>4 DEF HookStep, HookDies, Deliver, HookWritesPayment,
          HookAdvancesJob, HookCancelsJob, HookStopsJob, HookFlagsJob

LEMMA CallersStep ==
  ASSUME Roomy, TypeOK, MoneyInv, CallersInv, SaleInv, [Next]_vars
  PROVE  CallersInv'
  <1>0. PcType /\ CtxType /\ JobType /\ ChainType BY DEF TypeOK
  <1>1. ASSUME UNCHANGED <<pc, job>>, checkout' = "start" => checkout = "start",
               chain'.inflight \subseteq chain.inflight
        PROVE  CallersInv'
    BY <1>1, CallersKept DEF CallersInv
  <1>2. ASSUME NEW w \in Workers, SweepPicks(w) PROVE CallersInv'
    <2>1. /\ UNCHANGED <<job, chain, checkout>> /\ w \in Sweepers
          /\ \A v \in Workers : pc'[v] = IF v = w THEN "called" ELSE pc[v]
      BY <1>0, <1>2 DEF SweepPicks, GoTo, PcType, Actors
    <2>2. job.status \notin {"NONE", "AWAITING_PAYMENT"} BY <1>2 DEF SweepPicks, Claimable
    <2>3. job.waited \/ job.attempts \notin 1..MaxAttempts
      BY <1>2 DEF SweepPicks, Due
    <2>4. \A v \in Workers : Holds(v)' => Holds(v) BY <2>1 DEF Holds
    <2> QED BY <2>1, <2>2, <2>3, <2>4 DEF CallersInv
  <1>3. ASSUME NEW w \in Workers, Evict(w) PROVE CallersInv'
    <2>1. UNCHANGED <<job, chain, checkout>> /\ pc'[w] = "idle"
      BY <1>0, <1>3 DEF Evict, Return, GoTo, PcType, Actors
    <2>2. \A v \in Workers \ {w} : pc'[v] = pc[v]
      BY <1>0, <1>3, OthersStay DEF Actors
    <2> QED BY <2>1, <2>2, CallersKept DEF CallersInv
  <1>4. CASE CreateRow
    <2>1. \A v \in Workers : pc'[v] = "idle"
      BY <1>4 DEF CreateRow, MoneyInv, Charged, Actors
    <2>2. job.attempts = 0 BY <1>4 DEF CreateRow, CallersInv
    <2>3. job'.attempts = 0 /\ ~job'.waited /\ checkout' # "start"
      BY <1>0, <1>4, <2>2 DEF CreateRow, WriteJob, JobType, JobRows
    <2> QED BY <2>1, <2>3 DEF CallersInv
  <1>5. CASE LeaseExpires
    <2>1. /\ UNCHANGED <<pc, chain, checkout>> /\ job'.waited = job.waited
          /\ job'.attempts = job.attempts /\ job'.status = job.status
      BY <1>0, <1>5 DEF LeaseExpires, JobType, JobRows
    <2> QED BY <2>1, CallersKept DEF CallersInv
  <1>6. CASE BackoffElapses
    <2>1. /\ UNCHANGED <<pc, chain, checkout>> /\ job'.attempts = job.attempts
          /\ job'.status = job.status /\ job'.waited
      BY <1>0, <1>6 DEF BackoffElapses, JobType, JobRows
    <2>2. chain.inflight = {} /\ \A v \in Workers : pc[v] = "idle"
      BY <1>6 DEF BackoffElapses, Elapses, Quiet, Roomy, Undisturbed
    <2> QED BY <2>1, <2>2 DEF CallersInv, Holds
  <1>7. CASE \/ (\E s \in Seeds : Dust(s))
             \/ (\E t \in chain.inflight : Land(t) \/ Drop(t))
    <2>1. UNCHANGED <<pc, job, checkout>> BY <1>7 DEF Dust, Land, Drop
    <2>2. chain'.inflight \subseteq chain.inflight
      BY <1>0, <1>7 DEF Dust, Land, Drop, ChainType
    <2> QED BY <1>1, <2>1, <2>2
  <1>8. CASE \/ UNCHANGED vars \/ RotateSeed
             \/ CallStripe \/ MarkRefused \/ AttachIntent \/ CheckoutDies \/ StripeActs
    BY <1>1, <1>8 DEF vars, RotateSeed, CallStripe, MarkRefused, AttachIntent,
       CheckoutDies, StripeActs, Pay, Decline, CancelIntent, DashboardRefund
  <1> QED BY <1>2, <1>3, <1>4, <1>5, <1>6, <1>7, <1>8, CallersHook, CallersClaim, CallersHolder
          DEF Next, Checkout, Actors, WorkerStep, Roomy, Undisturbed

-----------------------------------------------------------------------------
(* The cap and the refund.                                                 *)

LEMMA SaleKept ==
  ASSUME SaleInv, HolderInv, job'.attempts = job.attempts,
         chain'.inflight \subseteq chain.inflight \/ job.attempts <= MaxAttempts,
         Delivered' => Delivered,
         \A v \in Workers : Refunding(v)' => Refunding(v),
         Refunded' => Refunded \/ \E v \in Workers : Refunding(v),
         Refunded => Refunded',
         \A h \in Hooks : hook'[h].at = "flag" => hook[h].at = "flag" \/ Refunded,
         job.attempts \in Nat
  PROVE  SaleInv'
  <1>1. Refunded' => job.attempts > MaxAttempts /\ ~Delivered
    BY DEF SaleInv, HolderInv
  <1>2. job'.attempts > MaxAttempts => chain'.inflight = {}
    BY RailAssumption DEF SaleInv
  <1> QED BY <1>1, <1>2 DEF SaleInv

LEMMA SaleWorker ==
  ASSUME Roomy, TypeOK, CtxInv, HolderInv, AddressInv, CallersInv, SaleInv, NEW w \in Workers,
         WorkerStep(w) \/ Throw(w) \/ SweepPicks(w)
  PROVE  SaleInv'
  <1>0. PcType /\ CtxType /\ JobType /\ ChainType /\ w \in Actors BY DEF TypeOK, Actors
  <1>n. job.attempts \in Nat BY <1>0 DEF JobType, JobRows
  <1>1. \A v \in Workers \ {w} : Refunding(v)' = Refunding(v)
    BY <1>0, OthersStay DEF Actors, Refunding
  <1>2. UNCHANGED <<stripe, hook>> /\ Refunded' = Refunded
    BY DEF WorkerStep, Throw, SweepPicks, Claim, Derive, ReadChain, Sign, Send, Confirm,
       RecordNft, RecordTx, Finish, Fail, Refunded
  <1>3. CASE Claim(w) /\ Claimable
    <2>1. /\ job'.attempts = IF job.attempts > MaxAttempts THEN job.attempts
                             ELSE job.attempts + 1
          /\ pc'[w] = "derive" /\ pc[w] = "called" /\ UNCHANGED chain
      BY <1>0, <1>3, ClaimTakes DEF Claim
    <2>2. job'.attempts > MaxAttempts => chain'.inflight = {}
      <3>1. CASE job.attempts > MaxAttempts BY <2>1, <3>1 DEF SaleInv
      <3>2. CASE job.attempts = MaxAttempts BY <1>0, <2>1, <3>2, CapIsQuiet
      <3> QED BY <1>n, <2>1, <3>1, <3>2, RailAssumption
    <2>3. job.attempts > MaxAttempts => job'.attempts > MaxAttempts BY <2>1
    <2>4. ~Refunding(w)' BY <2>1 DEF Refunding
    <2>5. Delivered' = Delivered BY <2>1 DEF Delivered
    <2> QED BY <1>1, <1>2, <2>2, <2>3, <2>4, <2>5 DEF SaleInv
  <1>4. CASE Send(w)
    <2>1. job.attempts <= MaxAttempts
      BY <1>0, <1>4, RailAssumption DEF Send, CtxInv, HolderInv, Sigs, Holds
    <2>2. UNCHANGED job /\ Delivered' = Delivered
      BY <1>0, <1>4 DEF Send, Delivered, ChainType
    <2>3. pc'[w] \in {"confirm", "fail"} BY <1>0, <1>4 DEF Send, GoTo, PcType
    <2>4. ~Refunding(w)' BY <2>3 DEF Refunding
    <2> QED BY <1>n, <1>1, <1>2, <2>1, <2>2, <2>4, SaleKept
  <1>5. CASE ReadChain(w)
    <2>1. UNCHANGED <<job, chain>> /\ pc'[w] = Verdict(w)
      BY <1>0, <1>5 DEF ReadChain, GoTo, PcType
    <2>2. Delivered' = Delivered BY <2>1 DEF Delivered
    <2>3. Refunding(w)' => ~Delivered
      <3> SUFFICES ASSUME Refunding(w)', Delivered PROVE FALSE OBVIOUS
      <3>1. ~MintedAt(ctx[w].own)
        BY <2>1 DEF Refunding, Verdict
      <3>2. ctx[w].own = job.addr
        BY <1>5 DEF ReadChain, AddressInv, Addressed, Touched, Delivered
      <3> QED BY <3>1, <3>2 DEF MintedAt, AddressInv, Delivered
    <2> QED BY <1>1, <1>2, <2>1, <2>2, <2>3 DEF SaleInv
  <1>6. CASE \/ Throw(w) \/ SweepPicks(w) \/ (Claim(w) /\ ~Claimable) \/ Derive(w) \/ Sign(w)
             \/ Confirm(w) \/ RecordNft(w) \/ RecordTx(w) \/ Finish(w) \/ Fail(w)
    <2>1. UNCHANGED chain /\ job'.attempts = job.attempts
      BY <1>0, <1>6 DEF Throw, SweepPicks, Claim, Derive, Sign, Confirm, RecordNft, RecordTx,
         Finish, Fail, WriteJob, JobType, JobRows
    <2>2. pc'[w] \in {"fail", "called", "idle", "read", "block", "send", "recordNft", "recordTx", "finish"}
      BY <1>0, <1>6 DEF Throw, SweepPicks, Claim, Derive, Sign, Confirm, RecordNft, RecordTx,
         Finish, Fail, Return, GoTo, PcType
    <2>3. ~Refunding(w)' BY <2>2 DEF Refunding
    <2>4. Delivered' = Delivered BY <2>1 DEF Delivered
    <2> QED BY <1>n, <1>1, <1>2, <2>1, <2>3, <2>4, SaleKept
  <1> QED BY <1>3, <1>4, <1>5, <1>6 DEF WorkerStep

LEMMA SaleRefund ==
  ASSUME TypeOK, HolderInv, SaleInv, NEW w \in Workers, RefundStep(w) \/ Evict(w)
  PROVE  SaleInv'
  <1>0. PcType /\ CtxType /\ JobType /\ StripeType /\ w \in Actors BY DEF TypeOK, Actors
  <1>n. job.attempts \in Nat BY <1>0 DEF JobType, JobRows
  <1>1. \A v \in Workers \ {w} : Refunding(v)' = Refunding(v)
    BY <1>0, OthersStay DEF Actors, Refunding
  <1>2. Refunding(w)' => Refunding(w)
    BY <1>0 DEF RefundStep, RefundReads, CallRefund, RefundWritesJob, RefundWritesPayment, Evict,
       GoTo, Return, PcType, Refunding
  <1>3. UNCHANGED <<chain, hook>> /\ job'.attempts = job.attempts
    BY <1>0 DEF RefundStep, RefundReads, CallRefund, RefundWritesJob, RefundWritesPayment, Evict,
       WriteJob, JobType, JobRows
  <1>4. Refunded => Refunded'
    BY <1>0 DEF RefundStep, RefundReads, CallRefund, RefundWritesJob, RefundWritesPayment, Evict,
       Emit, Refunded, StripeType, StripeRows
  <1>5. Refunded' => Refunded \/ Refunding(w)
    BY DEF RefundStep, RefundReads, CallRefund, RefundWritesJob, RefundWritesPayment, Evict,
       Refunded, Refunding
  <1>6. Delivered' = Delivered BY <1>3 DEF Delivered
  <1> QED BY <1>n, <1>1, <1>2, <1>3, <1>4, <1>5, <1>6, SaleKept

LEMMA SaleStep ==
  ASSUME Roomy, TypeOK, CtxInv, MoneyInv, HolderInv, AddressInv, CallersInv, SaleInv, [Next]_vars
  PROVE  SaleInv'
  <1>0. PcType /\ JobType /\ StripeType /\ ChainType /\ HookType BY DEF TypeOK
  <1>n. job.attempts \in Nat BY <1>0 DEF JobType, JobRows
  <1>1. ASSUME UNCHANGED <<pc, hook>>, job'.attempts = job.attempts, Refunded' = Refunded,
               chain'.inflight \subseteq chain.inflight, Delivered' => Delivered
        PROVE  SaleInv'
    <2>1. \A v \in Workers : Refunding(v)' = Refunding(v) BY <1>1 DEF Refunding
    <2> QED BY <1>n, <1>1, <2>1, SaleKept
  <1>2. ASSUME NEW h \in Hooks, HookStep(h) \/ HookDies(h) \/ \E e \in Events : Deliver(h, e)
        PROVE  SaleInv'
    <2>1. Refunded' = Refunded
      BY <1>0, <1>2 DEF Deliver, HookStep, HookDies, HookWritesPayment, HookAdvancesJob,
         HookCancelsJob, HookStopsJob, HookFlagsJob, Ack, Refunded, StripeType, StripeRows
    <2>2. \A v \in Workers : Refunding(v)' => Refunding(v)
      BY <1>2, HookKeepsHolder DEF Refunding
    <2>3. \A i \in Hooks : hook'[i].at = "flag" => hook[i].at = "flag" \/ Refunded
      <3>1. CASE HookStopsJob(h)
        BY <1>0, <3>1 DEF HookStopsJob, HookAt, HookType, FullRefund, MoneyInv
      <3>2. CASE ~HookStopsJob(h)
        BY <1>0, <1>2, <3>2 DEF Deliver, HookStep, HookDies, HookWritesPayment, HookAdvancesJob,
           HookCancelsJob, HookFlagsJob, Ack, HookAt, HookType
      <3> QED BY <3>1, <3>2
    <2>4. UNCHANGED chain /\ job'.attempts = job.attempts BY <1>2, HookKeepsHolder
    <2>5. Delivered' = Delivered BY <2>4 DEF Delivered
    <2> QED BY <1>n, <2>1, <2>2, <2>3, <2>4, <2>5, SaleKept
  <1>3. ASSUME NEW t \in chain.inflight, Land(t) PROVE SaleInv'
    <2>1. job.attempts <= MaxAttempts BY <1>n, RailAssumption DEF SaleInv
    <2>2. ~Refunded /\ \A v \in Workers : ~Refunding(v)
      BY <1>n, <2>1, RailAssumption DEF SaleInv, HolderInv
    <2>3. /\ UNCHANGED <<job, pc, hook>> /\ Refunded' = Refunded
          /\ \A v \in Workers : ~Refunding(v)'
      BY <1>3, <2>2 DEF Land, Refunded, Refunding
    <2> QED BY <1>n, <2>1, <2>2, <2>3, RailAssumption DEF SaleInv
  <1>4. CASE (\E s \in Seeds : Dust(s)) \/ (\E t \in chain.inflight : Drop(t))
    <2>1. UNCHANGED <<pc, hook, job, stripe>> BY <1>4 DEF Dust, Drop
    <2>2. chain'.inflight \subseteq chain.inflight /\ chain'.assets = chain.assets
      BY <1>0, <1>4 DEF Dust, Drop, ChainType
    <2> QED BY <1>1, <2>1, <2>2 DEF Refunded, Delivered
  <1>5. CASE LeaseExpires \/ BackoffElapses \/ CreateRow
    <2>1. UNCHANGED <<pc, hook, chain, stripe>> /\ job'.attempts = job.attempts
      BY <1>0, <1>5 DEF LeaseExpires, BackoffElapses, CreateRow, WriteJob, JobType, JobRows
    <2> QED BY <1>1, <2>1 DEF Refunded, Delivered
  <1>6. CASE CallStripe \/ StripeActs
    <2>1. UNCHANGED <<pc, hook, chain, job>>
      BY <1>6 DEF CallStripe, StripeActs, Pay, Decline, CancelIntent, DashboardRefund
    <2>2. stripe'.refund = stripe.refund
      <3>1. CASE DashboardRefund
        <4>1. stripe' = [stripe EXCEPT !.events = @ \cup {"partlyRefunded"}]
          BY <3>1 DEF DashboardRefund, Emit, Roomy
        <4> QED BY <1>0, <4>1 DEF StripeType, StripeRows
      <3> QED BY <1>0, <1>6, <3>1 DEF CallStripe, StripeActs, Pay, Decline, CancelIntent,
              Emit, StripeType, StripeRows
    <2> QED BY <1>1, <2>1, <2>2 DEF Refunded, Delivered
  <1>7. CASE UNCHANGED vars \/ RotateSeed \/ MarkRefused \/ AttachIntent \/ CheckoutDies
    BY <1>1, <1>7 DEF vars, RotateSeed, MarkRefused, AttachIntent, CheckoutDies, Refunded, Delivered
  <1> QED BY <1>2, <1>3, <1>4, <1>5, <1>6, <1>7, SaleWorker, SaleRefund
          DEF Next, Checkout, Actors, Roomy, Undisturbed

\* Every step of the rail is a step of the exclusive ledger or leaves it alone.
LEMMA SaleLedgerStep ==
  ASSUME TypeOK, MoneyInv, MoneyInv', SaleInv', [Next]_vars
  PROVE  [Sale!Next]_(Sale!ledgerVars)
  <1> USE DEF Sale!Next, Sale!ledgerVars, Money, Goods
  <1>0. StripeType /\ ChainType BY DEF TypeOK
  <1>s. Refunded' => ~Delivered' BY DEF SaleInv
  <1>1. CASE UNCHANGED <<Charged, Refunded, Delivered>> BY <1>1
  <1>2. CASE UNCHANGED vars BY <1>2 DEF vars, Charged, Refunded, Delivered
  <1>3. CASE Pay
    <2>1. Charged' /\ ~Charged /\ UNCHANGED Refunded /\ UNCHANGED Delivered
      BY <1>0, <1>3 DEF Pay, Emit, StripeType, StripeRows, Charged, Refunded, Delivered
    <2>2. ~Refunded BY <2>1 DEF MoneyInv
    <2> QED BY <2>1, <2>2 DEF Sale!Capture
  <1>4. CASE UNCHANGED chain /\ (DashboardRefund \/ \E a \in Actors : CallRefund(a))
    <2>1. UNCHANGED Delivered BY <1>4 DEF Delivered
    <2>2. UNCHANGED Charged /\ (Refunded => Refunded')
      BY <1>0, <1>4 DEF DashboardRefund, CallRefund, Emit, StripeType, StripeRows, Charged, Refunded
    <2>3. Refunded' => Charged BY <2>2 DEF MoneyInv
    <2> QED BY <1>s, <2>1, <2>2, <2>3 DEF Sale!Return
  <1>5. CASE UNCHANGED stripe /\ (\E t \in chain.inflight : Land(t))
    <2>1. UNCHANGED Charged /\ UNCHANGED Refunded BY <1>5 DEF Charged, Refunded
    <2>2. Charged /\ Delivered' BY <1>0, <1>5 DEF Land, ChainType, MoneyInv, ChargedFirst, Delivered
    <2> QED BY <1>s, <2>1, <2>2 DEF Sale!Deliver
  <1> QED BY <1>1, <1>2, <1>3, <1>4, <1>5, Movers

\* The buyer ends with the money or with the NFT, never with both: the rail
\* implements the exclusive ledger when no invocation outlives its lease, one
\* sweep is alive at a time, an order may be attempted twice, and refunds are the
\* worker's own.
THEOREM ImplementsSale ==
  ASSUME Roomy
  PROVE  Spec => KeepsSale
  <1>1. Init => Sale!Init /\ CallersInv /\ SaleInv
    BY DEF Init, Sale!Init, Money, Goods, Charged, Refunded, Delivered, CallersInv, SaleInv,
       Holds, Refunding, Actors
  <1>2. RailInv /\ HolderInv /\ AddressInv /\ CallersInv /\ SaleInv /\ [Next]_vars
          => (CallersInv /\ SaleInv)'
    BY CallersStep, SaleStep DEF RailInv
  <1>3. RailInv /\ RailInv' /\ SaleInv' /\ [Next]_vars => [Sale!Next]_(Sale!ledgerVars)
    BY SaleLedgerStep DEF RailInv
  <1>4. Undisturbed BY DEF Roomy
  <1>5. Spec => [](RailInv /\ HolderInv /\ AddressInv) BY <1>4, OneHolderInvariant
  <1> QED BY <1>1, <1>2, <1>3, <1>5, PTL DEF Spec, KeepsSale, Sale!Spec
=============================================================================

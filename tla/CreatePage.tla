------------------------------ MODULE CreatePage ------------------------------
(***************************************************************************)
(* The page that mints: by card on Solana, by the buyer's own wallet where *)
(* cards are off, and on Base.                                             *)
(*                                                                         *)
(* One screen is shared by handlers that outlive it.  A start goes on      *)
(* after the chain has been switched, and sets the screen whatever is on   *)
(* it by then; a poll answers after its form has gone.  The worker's order *)
(* is MintRail's, as far as getPayment tells the page.                     *)
(*                                                                         *)
(* This is one life of the page: a reload forgets everything but orders.   *)
(***************************************************************************)
EXTENDS Naturals, FiniteSetsExt

CONSTANTS
    Attempts,       \* presses of the button; each may mint with its wallet
    Orders,         \* payments createPaymentIntent may open
    Nothing,
    MaxRerenders    \* bound: times the page renders while a form waits

ASSUME CreateAssumption ==
    /\ Attempts \cap Orders = {} /\ Nothing \notin Attempts \cup Orders
    /\ MaxRerenders \in Nat

VARIABLES
    rails,      \* what is live: [card, wallet]
    heard,      \* whether /api/chains has answered
    chain,      \* the chain chosen
    screen,     \* what the page shows: [kind, of]
    form,       \* the card form: [step, card, late, renders]
    attempt,    \* attempt -> where its handler is, on which path
    sending,    \* orders with a confirmPayment under way
    polls,      \* polls under way
    order,      \* order -> what the worker and Stripe know of it
    wallet,     \* attempt -> its wallet's transaction
    strayed     \* history: the chain was switched with something afoot

createVars == <<rails, heard, chain, screen, form, attempt, sending, polls, order, wallet, strayed>>

Shows(kind, x) == [kind |-> kind, of |-> x]
NoForm == [step |-> "gone", card |-> Nothing, late |-> FALSE, renders |-> 0]

CreateInit ==
    /\ rails \in [card : BOOLEAN, wallet : BOOLEAN]
    /\ heard = FALSE
    /\ chain = "SOLANA"
    /\ screen = Shows("idle", Nothing)
    /\ form = NoForm
    /\ attempt = [a \in Attempts |-> [step |-> "unused", path |-> "none"]]
    /\ sending = {}
    /\ polls = {}
    /\ order = [o \in Orders |-> "none"]
    /\ wallet = [a \in Attempts |-> "none"]
    /\ strayed = FALSE

-----------------------------------------------------------------------------
(* What is drawn                                                           *)

CardLive == heard /\ rails.card
SolanaUnavailable == heard /\ chain = "SOLANA" /\ ~rails.card /\ ~rails.wallet

\* A payment exists for what failed: its reference is shown, and no button.
ChargedAlready == screen.kind = "error" /\ screen.of # Nothing

\* The button is on the page and can be pressed.
Armed ==
    /\ screen.kind \in {"idle", "error"}
    /\ ~ChargedAlready
    /\ ~SolanaUnavailable

\* The screen is set, and with it the form mounted, kept or unmounted.  A poll
\* of a form that is unmounted is cancelled, and answers all the same.
Draws(s) ==
    /\ screen' = s
    /\ form' = IF s.kind # "checkout" THEN NoForm
               ELSE IF screen.kind = "checkout" THEN form
               ELSE [NoForm EXCEPT !.step = "open", !.card = s.of]
    /\ polls' = IF s.kind = "checkout" /\ screen.kind = "checkout" THEN polls
                ELSE {[q EXCEPT !.live = FALSE] : q \in polls}

Hear ==
    /\ ~heard
    /\ heard' = TRUE
    /\ UNCHANGED <<rails, chain, screen, form, attempt, sending, polls, order, wallet, strayed>>

Running == {a \in Attempts : attempt[a].step \notin {"unused", "over"}}

\* Possible at any time but in checkout, and the form is idle again.
SwitchChain ==
    /\ screen.kind # "checkout"
    /\ chain' = IF chain = "SOLANA" THEN "ETHEREUM" ELSE "SOLANA"
    /\ Draws(Shows("idle", Nothing))
    /\ strayed' = (strayed \/ Running # {} \/ screen.of # Nothing)
    /\ UNCHANGED <<rails, heard, attempt, sending, order, wallet>>

-----------------------------------------------------------------------------
(* start: one handler per press                                            *)

At(a, step) == attempt[a].step = step
Goes(a, step) == attempt' = [attempt EXCEPT ![a].step = step]
Busy == Draws(Shows("busy", Nothing))

PathTaken ==
    IF chain = "ETHEREUM" THEN "base" ELSE IF CardLive THEN "card" ELSE "wallet"

Press(a) ==
    /\ Armed
    /\ At(a, "unused")
    /\ attempt' = [attempt EXCEPT ![a] = [step |-> "publish", path |-> PathTaken]]
    /\ Busy
    /\ UNCHANGED <<rails, heard, chain, sending, order, wallet, strayed>>

\* Any call may throw: a refusal, a wallet that says no, a lost answer.
Throws(a) ==
    /\ a \in Running
    /\ Goes(a, "over")
    /\ Draws(Shows("error", Nothing))
    /\ UNCHANGED <<rails, heard, chain, sending, order, wallet, strayed>>

\* Image and metadata are uploaded before anything is paid for or signed.
Publish(a) ==
    /\ At(a, "publish")
    /\ Goes(a, CASE attempt[a].path = "card" -> "order"
                 [] attempt[a].path = "wallet" -> "build"
                 [] attempt[a].path = "base" -> "sign")
    /\ Busy
    /\ UNCHANGED <<rails, heard, chain, sending, order, wallet, strayed>>

\* The worker builds the wallet's transaction, unless that route is closed.
Build(a) ==
    /\ At(a, "build")
    /\ rails.wallet
    /\ Goes(a, "sign")
    /\ Busy
    /\ UNCHANGED <<rails, heard, chain, sending, order, wallet, strayed>>

Sign(a) ==
    /\ At(a, "sign")
    /\ wallet' = [wallet EXCEPT ![a] = "sent"]
    /\ Goes(a, "mined")
    /\ Busy
    /\ UNCHANGED <<rails, heard, chain, sending, order, strayed>>

Mined(t) == t = "landed"

\* The receipt, or the confirmation, names success; otherwise start throws.
Confirm(a) ==
    /\ At(a, "mined")
    /\ Mined(wallet[a])
    /\ IF attempt[a].path = "base"
       THEN Goes(a, "index") /\ Busy
       ELSE Goes(a, "over") /\ Draws(Shows("done", a))
    /\ UNCHANGED <<rails, heard, chain, sending, order, wallet, strayed>>

Index(a) ==
    /\ At(a, "index")
    /\ Goes(a, "over")
    /\ Draws(Shows("done", a))
    /\ UNCHANGED <<rails, heard, chain, sending, order, wallet, strayed>>

\* Quoted, then a PaymentIntent; the answer opens the checkout, or is lost.
OpenOrder(a) ==
    /\ At(a, "order")
    /\ \E o \in Orders :
          /\ order[o] = "none"
          /\ order' = [order EXCEPT ![o] = "open"]
          /\ \/ Goes(a, "over") /\ Draws(Shows("checkout", o))
             \/ Goes(a, "over") /\ Draws(Shows("error", Nothing))
    /\ UNCHANGED <<rails, heard, chain, sending, wallet, strayed>>

-----------------------------------------------------------------------------
(* CheckoutForm                                                            *)

\* Once stripe.js is there.
Pay ==
    /\ form.step = "open"
    /\ form' = [form EXCEPT !.step = "paying"]
    /\ sending' = sending \cup {form.card}
    /\ UNCHANGED <<rails, heard, chain, screen, attempt, polls, order, wallet, strayed>>

\* Stripe takes the money of the order whose secret the form was mounted with,
\* or declines.  The form hears which, or hears of an error: the call was lost,
\* or the order is paid already.
Charge(o) ==
    /\ o \in sending
    /\ sending' = sending \ {o}
    /\ \E taken \in {FALSE, order[o] = "open"} :
          /\ order' = IF taken THEN [order EXCEPT ![o] = "paid"] ELSE order
          /\ IF form.step = "paying" /\ form.card = o
             THEN \E heardOf \in {FALSE, taken} :
                     form' = [form EXCEPT !.step = IF heardOf THEN "waiting" ELSE "open"]
             ELSE UNCHANGED form
    /\ UNCHANGED <<rails, heard, chain, screen, attempt, polls, wallet, strayed>>

\* The form asks about the order on the screen, one call at a time.
Poll ==
    /\ form.step = "waiting"
    /\ \A q \in polls : ~q.live
    /\ polls' = polls \cup {[of |-> screen.of, live |-> TRUE, saw |-> "unread"]}
    /\ UNCHANGED <<rails, heard, chain, screen, form, attempt, sending, order, wallet, strayed>>

\* getPayment reads the order; no asset is named before it is minted.
ReadPayment(q) ==
    /\ q.saw = "unread"
    /\ \E saw \in {order[q.of], "failed call"} :
          polls' = (polls \ {q}) \cup {[q EXCEPT !.saw = saw]}
    /\ UNCHANGED <<rails, heard, chain, screen, form, attempt, sending, order, wallet, strayed>>

\* Mutated: the page forgets which payment failed.
ForgetsPayment(o) == Shows("error", Nothing)

PaymentFailed(o) == Shows("error", o)

\* Mutated: a form watches for as long as it takes.
WatchesOn(q) == FALSE

\* Five minutes after the form began to watch.  A cancelled poll has the clock
\* of the effect it was started by, which is no later.
GivesUp(q) == form.late \/ ~q.live

\* The answer is acted upon without another look at whether it was cancelled.
PollAnswer(q) ==
    /\ q.saw # "unread"
    /\ LET rest == polls \ {q}
           turns(s) == /\ screen' = s /\ form' = NoForm
                       /\ polls' = {[p EXCEPT !.live = FALSE] : p \in rest}
       IN  IF q.saw = "minted" THEN turns(Shows("done", q.of))
           ELSE IF q.saw \in {"stuck", "refunded"} THEN turns(PaymentFailed(q.of))
           ELSE \/ GivesUp(q) /\ turns(PaymentFailed(q.of))
                \/ ~(q.live /\ GivesUp(q)) /\ polls' = rest /\ UNCHANGED <<screen, form>>
    /\ UNCHANGED <<rails, heard, chain, attempt, sending, order, wallet, strayed>>

FiveMinutes ==
    /\ form.step = "waiting" /\ ~form.late
    /\ form' = [form EXCEPT !.late = TRUE]
    /\ UNCHANGED <<rails, heard, chain, screen, attempt, sending, polls, order, wallet, strayed>>

\* The callbacks are new on every render, so the effect is run again: polls
\* are cancelled and the clock starts over.
Rerender ==
    /\ form.step = "waiting" /\ form.renders < MaxRerenders
    /\ form' = [form EXCEPT !.renders = @ + 1, !.late = FALSE]
    /\ polls' = {[q EXCEPT !.live = FALSE] : q \in polls}
    /\ UNCHANGED <<rails, heard, chain, screen, attempt, sending, order, wallet, strayed>>

-----------------------------------------------------------------------------
(* The worker and the chains                                               *)

Fulfils ==
    {<<"paid", "minted">>, <<"paid", "stuck">>, <<"paid", "refunded">>,
     <<"stuck", "minted">>, <<"stuck", "refunded">>}

Fulfil(o) ==
    /\ \E step \in Fulfils : order[o] = step[1] /\ order' = [order EXCEPT ![o] = step[2]]
    /\ UNCHANGED <<rails, heard, chain, screen, form, attempt, sending, polls, wallet, strayed>>

ChainTakes(a) ==
    /\ wallet[a] = "sent"
    /\ \E to \in {"landed", "failed"} : wallet' = [wallet EXCEPT ![a] = to]
    /\ UNCHANGED <<rails, heard, chain, screen, form, attempt, sending, polls, order, strayed>>

-----------------------------------------------------------------------------

CreateNext ==
    \/ Hear \/ SwitchChain
    \/ \E a \in Attempts :
          \/ Press(a) \/ Throws(a) \/ Publish(a) \/ Build(a) \/ Sign(a)
          \/ Confirm(a) \/ Index(a) \/ OpenOrder(a) \/ ChainTakes(a)
    \/ Pay \/ Poll \/ FiveMinutes \/ Rerender
    \/ \E o \in Orders : Charge(o) \/ Fulfil(o)
    \/ \E q \in polls : ReadPayment(q) \/ PollAnswer(q)

\* Timers run and every request is answered, or fails, in the end.
CreateFairness ==
    /\ WF_createVars(Poll) /\ WF_createVars(FiveMinutes)
    /\ WF_createVars(\E q \in polls : ReadPayment(q))
    /\ WF_createVars(\E q \in polls : PollAnswer(q))

-----------------------------------------------------------------------------
(* Properties                                                              *)

Charged == {o \in Orders : order[o] \notin {"none", "open"}}

\* Nobody pays twice for one NFT: once a card has been charged the page shows
\* that payment, in its checkout, as minted or with the reference, and no
\* button, whichever answers were lost, late or out of order.  A person who
\* switched chain with something afoot is on their own: that button is live
\* in all states but checkout, and start goes on behind it.
PaysOnce ==
    ~strayed /\ Charged # {} => Charged = {screen.of} /\ ~Armed

\* Whatever else was pressed meanwhile, "Minted" is said of an NFT that exists.
MintedIsReal ==
    screen.kind = "done" =>
       IF screen.of \in Orders THEN order[screen.of] = "minted"
       ELSE wallet[screen.of] = "landed"

\* "Minting your NFT" is not shown for ever: it ends in the NFT, in a failure
\* or in giving up, though the order may stay as it is, polls fail and the
\* clock is reset by renders.
SpinnerStops == form.step = "waiting" ~> form.step # "waiting"
=============================================================================

------------------------------ MODULE PagesProofs ------------------------------
(***************************************************************************)
(* Proofs about the two pages people pay on: that nobody is charged twice  *)
(* for one NFT, that neither page announces what did not happen, and that  *)
(* a price survives its way to the chain and back; for any number of       *)
(* presses, orders, people, prices, digits and transactions.               *)
(***************************************************************************)
EXTENDS MCPages, WellFoundedInduction, NaturalsInduction, TLAPS

-----------------------------------------------------------------------------
(* The page that mints.                                                    *)
(*                                                                         *)
(* Handlers and polls outlive the screen they were started from.  As long  *)
(* as nobody switched chain behind one, there is only one story: a handler *)
(* at work has the screen for itself (Alone), and a charge, a call to      *)
(* Stripe, a form and a poll are all of the payment on the screen.         *)

Screens == [kind : {"idle", "busy", "error", "checkout", "done"}, of : Attempts \cup Orders \cup {Nothing}]
Forms == [step : {"gone", "open", "paying", "waiting"}, card : Orders \cup {Nothing},
          late : BOOLEAN, renders : Nat]
Handlers == [step : {"unused", "publish", "order", "build", "sign", "mined", "index", "over"},
             path : {"none", "base", "card", "wallet"}]
Known == {"none", "open", "paid", "minted", "stuck", "refunded"}
Polls == [of : Orders, live : BOOLEAN, saw : Known \cup {"unread", "failed call"}]

CreateTypes ==
    /\ screen \in Screens
    /\ form \in Forms
    /\ attempt \in [Attempts -> Handlers]
    /\ sending \subseteq Orders
    /\ polls \subseteq Polls
    /\ order \in [Orders -> Known]
    /\ wallet \in [Attempts -> {"none", "sent", "landed", "failed"}]

\* What is drawn, and what a handler or a poll carries, is real.
Real ==
    /\ screen.kind = "checkout" => screen.of \in Orders
    /\ screen.kind \in {"idle", "busy"} => screen.of = Nothing
    /\ form.step # "gone" => screen.kind = "checkout" /\ form.card \in Orders
    /\ screen.kind = "done" /\ screen.of \in Orders => order[screen.of] = "minted"
    /\ screen.kind = "done" /\ screen.of \notin Orders =>
          screen.of \in Attempts /\ At(screen.of, "over") /\ wallet[screen.of] = "landed"
    /\ \A q \in polls : q.saw = "minted" => order[q.of] = "minted"
    /\ \A a \in Attempts :
          /\ At(a, "index") => wallet[a] = "landed"
          /\ ~At(a, "unused") => attempt[a].path # "none"

Alone ==
    /\ \A a \in Running : screen = Shows("busy", Nothing) /\ Running = {a}
    /\ form.step # "gone" => form.card = screen.of
    /\ \A o \in sending \cup Charged : screen.of = o
    /\ \A q \in polls : screen.of = q.of

CreateInv == CreateTypes /\ Real /\ (~strayed => Alone)

LEMMA CreateInitSound == ASSUME CreateInit PROVE CreateInv
<1>. USE DEF CreateInit
<1>1. CreateTypes
  BY DEF CreateTypes, Screens, Forms, Handlers, Known, Polls, Shows, NoForm
<1>2. Real
  BY DEF Real, Shows, NoForm, At
<1>3. Alone
  BY DEF Alone, Running, Charged, Shows, NoForm
<1>. QED
  BY <1>1, <1>2, <1>3 DEF CreateInv

LEMMA DrawsSound ==
    ASSUME CreateInv, NEW s \in Screens, s.kind = "checkout" => s.of \in Orders, Draws(s)
    PROVE  /\ screen' = s
           /\ form' \in Forms
           /\ polls' \subseteq Polls
           /\ form'.step # "gone" => s.kind = "checkout" /\ form'.card \in Orders
           /\ form'.step # "gone" /\ screen.kind # "checkout" => form'.card = s.of
           /\ \A q \in polls' : \E p \in polls : q.of = p.of /\ q.saw = p.saw
<1>1. form \in Forms /\ polls \subseteq Polls /\ (form.step # "gone" => form.card \in Orders)
  BY DEF CreateInv, CreateTypes, Real
<1>2. NoForm \in Forms /\ NoForm.step = "gone"
  BY DEF NoForm, Forms
<1>3. s.kind = "checkout" => [NoForm EXCEPT !.step = "open", !.card = s.of]
                                \in {f \in Forms : f.card = s.of /\ f.step = "open"}
  BY <1>2 DEF Forms
<1>4. \A p \in polls : [p EXCEPT !.live = FALSE] \in {q \in Polls : q.of = p.of /\ q.saw = p.saw}
  BY <1>1 DEF Polls
<1>5. \A q \in polls' : \E p \in polls : q \in Polls /\ q.of = p.of /\ q.saw = p.saw
  BY <1>1, <1>4 DEF Draws
<1>. QED
  BY <1>1, <1>2, <1>3, <1>5 DEF Draws

\* A handler takes a step and draws, the first one of a press included.
LEMMA HandlerDraws ==
    ASSUME CreateInv, CreateAssumption, NEW a \in Attempts, (a \in Running \/ (Armed /\ At(a, "unused"))),
           NEW x \in Handlers, x.step # "unused", x.path # "none", attempt' = [attempt EXCEPT ![a] = x],
           NEW s \in Screens, Draws(s),
           (s = Shows("busy", Nothing) /\ x.step # "over")
              \/ (s = Shows("error", Nothing) /\ x.step = "over")
              \/ (s = Shows("done", a) /\ x.step = "over" /\ wallet'[a] = "landed")
              \/ (s.kind = "checkout" /\ s.of \in Orders /\ x.step = "over"),
           order' \in [Orders -> Known],
           \A o \in Orders : order'[o] = order[o] \/ (order[o] = "none" /\ order'[o] = "open"),
           wallet' \in [Attempts -> {"none", "sent", "landed", "failed"}],
           x.step = "index" => wallet'[a] = "landed",
           \A b \in Attempts \ {a} : wallet'[b] = wallet[b],
           UNCHANGED <<sending, strayed>>
    PROVE  CreateInv'
<1>0. CreateTypes /\ Real /\ (~strayed => Alone)
  BY DEF CreateInv
<1>1. \A b \in Attempts : attempt'[b] = IF b = a THEN x ELSE attempt[b]
  BY <1>0 DEF CreateTypes
<1>2. s.kind = "checkout" => s.of \in Orders
  BY DEF Shows
<1>3. /\ screen' = s
      /\ form' \in Forms
      /\ polls' \subseteq Polls
      /\ form'.step # "gone" => s.kind = "checkout" /\ form'.card \in Orders
      /\ form'.step # "gone" /\ screen.kind # "checkout" => form'.card = s.of
      /\ \A q \in polls' : \E p \in polls : q.of = p.of /\ q.saw = p.saw
  BY <1>2, DrawsSound
<1>4. CreateTypes'
  BY <1>0, <1>3 DEF CreateTypes
<1>5. Real'
  <2>1. ASSUME NEW q \in polls', q.saw = "minted"
        PROVE  order'[q.of] = "minted"
    <3>1. PICK p \in polls : q.of = p.of /\ q.saw = p.saw
      BY <1>3
    <3>2. p \in Polls
      BY <1>0, <3>1 DEF CreateTypes
    <3>3. p.of \in Orders
      BY <3>2 DEF Polls
    <3>4. order[p.of] = "minted"
      BY <1>0, <2>1, <3>1 DEF Real
    <3>. QED
      BY <3>1, <3>3, <3>4
  <2>2. \A b \in Attempts :
          /\ attempt'[b].step = "index" => wallet'[b] = "landed"
          /\ attempt'[b].step # "unused" => attempt'[b].path # "none"
    BY <1>0, <1>1 DEF Real, At
  <2>3. s.kind = "done" => s.of = a /\ a \notin Orders /\ attempt'[a].step = "over" /\ wallet'[a] = "landed"
    BY <1>1 DEF Shows, CreateAssumption
  <2>4. s.kind \in {"idle", "busy"} => s.of = Nothing
    BY DEF Shows
  <2>. QED
    BY <1>2, <1>3, <2>1, <2>2, <2>3, <2>4 DEF Real, At
<1>6. ASSUME ~strayed
      PROVE  Alone'
  <2>1. Alone
    BY <1>0, <1>6
  <2>2. screen.of = Nothing /\ screen.kind # "checkout" /\ Running \subseteq {a}
    <3>1. CASE a \in Running
      BY <2>1, <3>1 DEF Alone, Shows
    <3>2. CASE Armed
      BY <1>0, <2>1, <3>2 DEF Alone, Armed, ChargedAlready, Real, Shows
    <3>. QED
      BY <3>1, <3>2
  <2>3. sending = {} /\ Charged = {} /\ polls = {}
    <3>1. screen.of \notin Orders
      BY <2>2 DEF CreateAssumption
    <3>2. sending \subseteq Orders /\ Charged \subseteq Orders /\ polls \subseteq Polls
      BY <1>0 DEF CreateTypes, Charged
    <3>3. \A q \in polls : q.of \in Orders
      BY <3>2 DEF Polls
    <3>4. sending = {} /\ Charged = {}
      BY <2>1, <3>1, <3>2 DEF Alone
    <3>5. polls = {}
      BY <2>1, <3>1, <3>3 DEF Alone
    <3>. QED
      BY <3>4, <3>5
  <2>4. Charged' = {} /\ polls' = {} /\ sending' = {}
    BY <1>3, <2>3 DEF Charged
  <2>5. \A b \in Running' : b = a /\ s = Shows("busy", Nothing)
    BY <1>1, <2>2 DEF Running, Shows
  <2>6. \A b \in Running' : s = Shows("busy", Nothing) /\ Running' = {b}
    BY <2>5
  <2>. QED
    BY <1>3, <2>2, <2>4, <2>6 DEF Alone
<1>. QED
  BY <1>4, <1>5, <1>6 DEF CreateInv

LEMMA PressKeeps ==
    ASSUME CreateInv, CreateAssumption, NEW a \in Attempts, Press(a)
    PROVE  CreateInv'
<1>. DEFINE x == [step |-> "publish", path |-> PathTaken]
<1>1. x \in Handlers /\ x.step = "publish" /\ x.path # "none"
  BY DEF Handlers, PathTaken
<1>2. attempt' = [attempt EXCEPT ![a] = x] /\ Armed /\ At(a, "unused")
      /\ Draws(Shows("busy", Nothing)) /\ UNCHANGED <<sending, order, wallet, strayed>>
  BY DEF Press, Busy
<1>. HIDE DEF x
<1>3. Shows("busy", Nothing) \in Screens
  BY DEF Shows, Screens
<1>4. order \in [Orders -> Known] /\ wallet \in [Attempts -> {"none", "sent", "landed", "failed"}]
  BY DEF CreateInv, CreateTypes
<1>. QED
  BY <1>1, <1>2, <1>3, <1>4, HandlerDraws

\* What HandlerDraws asks of a step of a handler at work.
LEMMA GoesOn ==
    ASSUME CreateInv, CreateAssumption, NEW a \in Running,
           NEW step \in {"order", "build", "sign", "mined", "index", "over"}, Goes(a, step),
           NEW s \in Screens, Draws(s),
           (s = Shows("busy", Nothing) /\ step # "over")
              \/ (s = Shows("error", Nothing) /\ step = "over")
              \/ (s = Shows("done", a) /\ step = "over" /\ wallet'[a] = "landed")
              \/ (s.kind = "checkout" /\ s.of \in Orders /\ step = "over"),
           order' \in [Orders -> Known],
           \A o \in Orders : order'[o] = order[o] \/ (order[o] = "none" /\ order'[o] = "open"),
           wallet' \in [Attempts -> {"none", "sent", "landed", "failed"}],
           step = "index" => wallet'[a] = "landed",
           \A b \in Attempts \ {a} : wallet'[b] = wallet[b],
           UNCHANGED <<sending, strayed>>
    PROVE  CreateInv'
<1>. DEFINE x == [attempt[a] EXCEPT !.step = step]
<1>1. a \in Attempts /\ attempt[a] \in Handlers /\ attempt[a].path # "none"
  BY DEF Running, CreateInv, CreateTypes, Real, At
<1>2. x \in Handlers /\ x.step = step /\ x.path # "none"
  BY <1>1 DEF Handlers
<1>3. attempt' = [attempt EXCEPT ![a] = x]
  BY DEF Goes
<1>. HIDE DEF x
<1>. QED
  BY <1>1, <1>2, <1>3, HandlerDraws

LEMMA HandlerKeeps ==
    ASSUME CreateInv, CreateAssumption, NEW a \in Attempts,
           \/ Throws(a) \/ Publish(a) \/ Build(a) \/ Sign(a)
           \/ Confirm(a) \/ Index(a) \/ OpenOrder(a)
    PROVE  CreateInv'
<1>0. CreateTypes /\ Real
  BY DEF CreateInv
<1>1. /\ order \in [Orders -> Known]
      /\ wallet \in [Attempts -> {"none", "sent", "landed", "failed"}]
      /\ UNCHANGED <<sending, strayed>>
  BY <1>0 DEF CreateTypes, Throws, Publish, Build, Sign, Confirm, Index, OpenOrder
<1>2. a \in Running
  BY DEF Throws, Publish, Build, Sign, Confirm, Index, OpenOrder, At, Running
<1>3. /\ Shows("busy", Nothing) \in Screens /\ Shows("error", Nothing) \in Screens
      /\ Shows("done", a) \in Screens
      /\ \A o \in Orders : /\ Shows("checkout", o) \in Screens
                           /\ Shows("checkout", o).kind = "checkout" /\ Shows("checkout", o).of = o
  BY DEF Shows, Screens
<1>4. CASE Throws(a)
  BY <1>1, <1>2, <1>3, <1>4, GoesOn DEF Throws
<1>5. CASE Publish(a)
  <2>1. attempt[a].path \in {"card", "wallet", "base"}
    BY <1>0, <1>2 DEF Running, CreateTypes, Real, Handlers, At
  <2>2. PICK step \in {"order", "build", "sign"} : Goes(a, step)
    BY <1>5, <2>1 DEF Publish
  <2>. QED
    BY <1>1, <1>2, <1>3, <1>5, <2>2, GoesOn DEF Publish, Busy
<1>6. CASE Build(a)
  BY <1>1, <1>2, <1>3, <1>6, GoesOn DEF Build, Busy
<1>7. CASE Sign(a)
  <2>1. wallet' \in [Attempts -> {"none", "sent", "landed", "failed"}] /\ \A b \in Attempts \ {a} : wallet'[b] = wallet[b]
    BY <1>1, <1>7 DEF Sign
  <2>2. Goes(a, "mined") /\ Draws(Shows("busy", Nothing)) /\ UNCHANGED order
    BY <1>7 DEF Sign, Busy
  <2>. QED
    BY <1>1, <1>2, <1>3, <2>1, <2>2, GoesOn
<1>8. CASE Confirm(a)
  <2>1. wallet[a] = "landed" /\ UNCHANGED <<order, wallet>>
    BY <1>8 DEF Confirm, Mined
  <2>2. \/ Goes(a, "index") /\ Draws(Shows("busy", Nothing))
        \/ Goes(a, "over") /\ Draws(Shows("done", a))
    BY <1>8 DEF Confirm, Busy
  <2>. QED
    BY <1>1, <1>2, <1>3, <2>1, <2>2, GoesOn
<1>9. CASE Index(a)
  <2>1. wallet[a] = "landed" /\ UNCHANGED <<order, wallet>> /\ Goes(a, "over") /\ Draws(Shows("done", a))
    BY <1>0, <1>9 DEF Index, Real
  <2>. QED
    BY <1>1, <1>2, <1>3, <2>1, GoesOn
<1>10. CASE OpenOrder(a)
  <2>1. PICK o \in Orders :
          /\ order[o] = "none"
          /\ order' = [order EXCEPT ![o] = "open"]
          /\ Goes(a, "over")
          /\ Draws(Shows("checkout", o)) \/ Draws(Shows("error", Nothing))
    BY <1>10 DEF OpenOrder
  <2>2. /\ order' \in [Orders -> Known]
        /\ \A p \in Orders : order'[p] = order[p] \/ (order[p] = "none" /\ order'[p] = "open")
    BY <1>1, <2>1 DEF Known
  <2>3. UNCHANGED wallet
    BY <1>10 DEF OpenOrder
  <2>. QED
    BY <1>1, <1>2, <1>3, <2>1, <2>2, <2>3, GoesOn
<1>. QED
  BY <1>4, <1>5, <1>6, <1>7, <1>8, <1>9, <1>10

LEMMA SwitchChainKeeps == ASSUME CreateInv, CreateAssumption, SwitchChain PROVE CreateInv'
<1>. DEFINE s == Shows("idle", Nothing)
<1>0. CreateTypes /\ Real /\ (~strayed => Alone)
  BY DEF CreateInv
<1>1. s \in Screens /\ s.kind = "idle" /\ s.of = Nothing
  BY DEF Shows, Screens
<1>2. Draws(s) /\ UNCHANGED <<attempt, sending, order, wallet>>
  BY DEF SwitchChain
<1>3. strayed' = (strayed \/ Running # {} \/ screen.of # Nothing)
  BY DEF SwitchChain
<1>. HIDE DEF s
<1>4. /\ screen' = s
      /\ form' \in Forms
      /\ polls' \subseteq Polls
      /\ form'.step = "gone"
      /\ \A q \in polls' : \E p \in polls : q.of = p.of /\ q.saw = p.saw
  BY <1>1, <1>2, DrawsSound
<1>5. CreateTypes'
  BY <1>0, <1>1, <1>2, <1>4 DEF CreateTypes
<1>6. Real'
  BY <1>0, <1>1, <1>2, <1>4 DEF Real, At
<1>7. ASSUME ~strayed'
      PROVE  Alone'
  <2>1. Alone /\ Running = {} /\ screen.of = Nothing
    BY <1>0, <1>3, <1>7
  <2>2. sending = {} /\ Charged = {} /\ polls = {}
    <3>1. Nothing \notin Orders
      BY DEF CreateAssumption
    <3>. QED
      BY <1>0, <2>1, <3>1 DEF Alone, CreateTypes, Charged, Polls
  <2>3. Running' = {} /\ Charged' = {} /\ polls' = {} /\ sending' = {}
    BY <1>2, <1>4, <2>1, <2>2 DEF Running, Charged
  <2>. QED
    BY <1>4, <2>3 DEF Alone
<1>. QED
  BY <1>5, <1>6, <1>7 DEF CreateInv

\* The card form, Stripe and the worker: no handler moves, and no form opens.
LEMMA FormKeeps ==
    ASSUME CreateInv, Pay \/ FiveMinutes \/ Rerender
    PROVE  CreateInv'
<1>0. CreateTypes /\ Real /\ (~strayed => Alone)
  BY DEF CreateInv
<1>1. /\ UNCHANGED <<screen, attempt, order, wallet, strayed>>
      /\ form.step # "gone"
  BY DEF Pay, FiveMinutes, Rerender
<1>2. form' \in Forms /\ form'.step # "gone" /\ form'.card = form.card
  <2>1. form \in Forms
    BY <1>0 DEF CreateTypes
  <2>2. CASE Pay
    BY <2>1, <2>2 DEF Pay, Forms
  <2>3. CASE FiveMinutes
    BY <2>1, <2>3 DEF FiveMinutes, Forms
  <2>4. CASE Rerender
    <3>1. form.renders + 1 \in Nat
      BY <2>1 DEF Forms
    <3>2. form' = [form EXCEPT !.renders = form.renders + 1, !.late = FALSE]
      BY <2>4 DEF Rerender
    <3>. QED
      BY <1>1, <2>1, <3>1, <3>2 DEF Forms
  <2>. QED
    BY <2>2, <2>3, <2>4
<1>3. form.card \in Orders /\ sending' \subseteq sending \cup {form.card}
  BY <1>0, <1>1 DEF Real, Pay, FiveMinutes, Rerender
<1>4. \A q \in polls' : \E p \in polls : q \in Polls /\ q.of = p.of /\ q.saw = p.saw
  <2>1. \A p \in polls : p \in Polls /\ [p EXCEPT !.live = FALSE] \in {q \in Polls : q.of = p.of /\ q.saw = p.saw}
    BY <1>0 DEF CreateTypes, Polls
  <2>2. polls' \in {polls, {[q EXCEPT !.live = FALSE] : q \in polls}}
    BY DEF Pay, FiveMinutes, Rerender
  <2>3. CASE polls' = polls
    BY <2>1, <2>3
  <2>4. CASE polls' = {[q EXCEPT !.live = FALSE] : q \in polls}
    BY <2>1, <2>4
  <2>. QED
    BY <2>2, <2>3, <2>4
<1>5. CreateTypes'
  BY <1>0, <1>1, <1>2, <1>3, <1>4 DEF CreateTypes
<1>6. Real'
  BY <1>0, <1>1, <1>2, <1>3, <1>4 DEF Real, At
<1>7. ASSUME ~strayed
      PROVE  Alone'
  <2>1. Alone /\ Running' = Running /\ Charged' = Charged
    BY <1>0, <1>1, <1>7 DEF Running, Charged
  <2>2. screen.of = form.card
    BY <1>1, <2>1 DEF Alone
  <2>. QED
    BY <1>1, <1>2, <1>3, <1>4, <2>1, <2>2 DEF Alone
<1>. QED
  BY <1>1, <1>5, <1>6, <1>7 DEF CreateInv

LEMMA ChargeKeeps == ASSUME CreateInv, NEW o \in Orders, Charge(o) PROVE CreateInv'
<1>0. CreateTypes /\ Real /\ (~strayed => Alone)
  BY DEF CreateInv
<1>1. /\ o \in sending /\ sending' = sending \ {o}
      /\ UNCHANGED <<screen, attempt, polls, wallet, strayed>>
  BY DEF Charge
<1>2. PICK taken \in {FALSE, order[o] = "open"} :
        /\ order' = IF taken THEN [order EXCEPT ![o] = "paid"] ELSE order
        /\ IF form.step = "paying" /\ form.card = o
           THEN \E heardOf \in {FALSE, taken} :
                   form' = [form EXCEPT !.step = IF heardOf THEN "waiting" ELSE "open"]
           ELSE UNCHANGED form
  BY DEF Charge
<1>3. /\ order' \in [Orders -> Known]
      /\ \A p \in Orders : order'[p] = order[p] \/ (p = o /\ order[p] = "open" /\ order'[p] = "paid")
  BY <1>0, <1>2 DEF CreateTypes, Known
<1>4. form' \in Forms /\ form'.card = form.card /\ (form'.step # "gone" => form.step # "gone")
  <2>1. form \in Forms
    BY <1>0 DEF CreateTypes
  <2>. QED
    BY <1>2, <2>1 DEF Forms
<1>5. CreateTypes'
  BY <1>0, <1>1, <1>3, <1>4 DEF CreateTypes
<1>6. Real'
  <2>1. \A p \in Orders : order[p] = "minted" => order'[p] = "minted"
    BY <1>3
  <2>2. \A q \in polls : q.of \in Orders
    BY <1>0 DEF CreateTypes, Polls
  <2>. QED
    BY <1>0, <1>1, <1>4, <2>1, <2>2 DEF Real, At
<1>7. ASSUME ~strayed
      PROVE  Alone'
  <2>1. Alone /\ Running' = Running /\ Charged' \subseteq Charged \cup {o}
    BY <1>0, <1>1, <1>3, <1>7 DEF Running, Charged
  <2>. QED
    BY <1>1, <1>4, <2>1 DEF Alone
<1>. QED
  BY <1>1, <1>5, <1>6, <1>7 DEF CreateInv

LEMMA FulfilKeeps == ASSUME CreateInv, NEW o \in Orders, Fulfil(o) PROVE CreateInv'
<1>0. CreateTypes /\ Real /\ (~strayed => Alone)
  BY DEF CreateInv
<1>1. UNCHANGED <<screen, form, attempt, sending, polls, wallet, strayed>>
  BY DEF Fulfil
<1>2. PICK step \in Fulfils : order[o] = step[1] /\ order' = [order EXCEPT ![o] = step[2]]
  BY DEF Fulfil
<1>3. /\ step[1] \in {"paid", "stuck"} /\ step[2] \in {"minted", "stuck", "refunded"}
  BY DEF Fulfils
<1>4. order' \in [Orders -> Known] /\ (\A p \in Orders : order[p] = "minted" => order'[p] = "minted")
  BY <1>0, <1>2, <1>3 DEF CreateTypes, Known
<1>5. Charged' = Charged
  BY <1>0, <1>2, <1>3 DEF CreateTypes, Charged
<1>6. CreateTypes'
  BY <1>0, <1>1, <1>4 DEF CreateTypes
<1>7. Real'
  <2>1. \A q \in polls : q.of \in Orders
    BY <1>0 DEF CreateTypes, Polls
  <2>. QED
    BY <1>0, <1>1, <1>4, <2>1 DEF Real, At
<1>8. ~strayed => Alone'
  BY <1>0, <1>1, <1>5 DEF Alone, Running
<1>. QED
  BY <1>1, <1>6, <1>7, <1>8 DEF CreateInv

LEMMA ChainTakesKeeps == ASSUME CreateInv, NEW a \in Attempts, ChainTakes(a) PROVE CreateInv'
<1>0. CreateTypes /\ Real /\ (~strayed => Alone)
  BY DEF CreateInv
<1>1. UNCHANGED <<screen, form, attempt, sending, polls, order, strayed>>
  BY DEF ChainTakes
<1>2. /\ wallet' \in [Attempts -> {"none", "sent", "landed", "failed"}]
      /\ \A b \in Attempts : wallet[b] = "landed" => wallet'[b] = "landed"
  BY <1>0 DEF CreateTypes, ChainTakes
<1>3. CreateTypes' /\ Real'
  BY <1>0, <1>1, <1>2 DEF CreateTypes, Real, At
<1>4. ~strayed => Alone'
  BY <1>0, <1>1 DEF Alone, Running, Charged
<1>. QED
  BY <1>1, <1>3, <1>4 DEF CreateInv

LEMMA PollKeeps == ASSUME CreateInv, Poll PROVE CreateInv'
<1>0. CreateTypes /\ Real /\ (~strayed => Alone)
  BY DEF CreateInv
<1>. DEFINE q == [of |-> screen.of, live |-> TRUE, saw |-> "unread"]
<1>1. /\ UNCHANGED <<screen, form, attempt, sending, order, wallet, strayed>>
      /\ form.step = "waiting" /\ polls' = polls \cup {q}
  BY DEF Poll
<1>2. q \in Polls /\ q.saw = "unread" /\ q.of = screen.of
  BY <1>0, <1>1 DEF Real, Polls
<1>. HIDE DEF q
<1>3. CreateTypes' /\ Real'
  BY <1>0, <1>1, <1>2 DEF CreateTypes, Real, At
<1>4. ~strayed => Alone'
  BY <1>0, <1>1, <1>2 DEF Alone, Running, Charged
<1>. QED
  BY <1>1, <1>3, <1>4 DEF CreateInv

LEMMA ReadPaymentKeeps == ASSUME CreateInv, NEW q \in polls, ReadPayment(q) PROVE CreateInv'
<1>0. CreateTypes /\ Real /\ (~strayed => Alone)
  BY DEF CreateInv
<1>1. /\ UNCHANGED <<screen, form, attempt, sending, order, wallet, strayed>>
      /\ \E saw \in {order[q.of], "failed call"} : polls' = (polls \ {q}) \cup {[q EXCEPT !.saw = saw]}
  BY DEF ReadPayment
<1>2. PICK saw \in {order[q.of], "failed call"} : polls' = (polls \ {q}) \cup {[q EXCEPT !.saw = saw]}
  BY <1>1
<1>. DEFINE r == [q EXCEPT !.saw = saw]
<1>3. q \in Polls
  BY <1>0 DEF CreateTypes
<1>4. saw \in Known \cup {"failed call"}
  <2>1. q.of \in Orders
    BY <1>3 DEF Polls
  <2>. QED
    BY <1>0, <1>2, <2>1 DEF CreateTypes
<1>5. r \in Polls /\ r.saw = saw /\ r.of = q.of
  BY <1>3, <1>4 DEF Polls
<1>6. polls' = (polls \ {q}) \cup {r}
  BY <1>2
<1>. HIDE DEF r
<1>7. r.saw = "minted" => order[r.of] = "minted"
  BY <1>2, <1>5
<1>8. CreateTypes' /\ Real'
  BY <1>0, <1>1, <1>5, <1>6, <1>7 DEF CreateTypes, Real, At
<1>9. ~strayed => Alone'
  BY <1>0, <1>1, <1>5, <1>6 DEF Alone, Running, Charged
<1>. QED
  BY <1>1, <1>8, <1>9 DEF CreateInv

LEMMA PollAnswerKeeps ==
    ASSUME CreateInv, CreateAssumption, NEW q \in polls, PollAnswer(q)
    PROVE  CreateInv'
<1>0. CreateTypes /\ Real /\ (~strayed => Alone)
  BY DEF CreateInv
<1>1. UNCHANGED <<attempt, sending, order, wallet, strayed>>
  BY DEF PollAnswer
<1>2. q \in Polls /\ q.of \in Orders /\ q.of # Nothing
  BY <1>0 DEF CreateTypes, Polls, CreateAssumption
<1>3. CASE polls' = polls \ {q} /\ UNCHANGED <<screen, form>>
  <2>1. CreateTypes' /\ Real'
    BY <1>0, <1>1, <1>3 DEF CreateTypes, Real, At
  <2>2. ~strayed => Alone'
    BY <1>0, <1>1, <1>3 DEF Alone, Running, Charged
  <2>. QED
    BY <1>1, <2>1, <2>2 DEF CreateInv
<1>4. CASE /\ form' = NoForm /\ polls' = {[p EXCEPT !.live = FALSE] : p \in polls \ {q}}
           /\ \/ screen' = Shows("done", q.of) /\ q.saw = "minted"
              \/ screen' = Shows("error", q.of)
  <2>1. screen' \in Screens /\ screen'.of = q.of /\ screen'.kind \in {"done", "error"}
        /\ (screen'.kind = "done" => order[q.of] = "minted")
    BY <1>0, <1>2, <1>4 DEF Shows, Screens, Real
  <2>2. form' \in Forms /\ form'.step = "gone"
    BY <1>4 DEF NoForm, Forms
  <2>3. \A r \in polls' : \E p \in polls : r \in Polls /\ r.of = p.of /\ r.saw = p.saw
    <3>1. \A p \in polls : p \in Polls /\ [p EXCEPT !.live = FALSE] \in {r \in Polls : r.of = p.of /\ r.saw = p.saw}
      BY <1>0 DEF CreateTypes, Polls
    <3>. QED
      BY <1>4, <3>1
  <2>4. CreateTypes'
    BY <1>0, <1>1, <2>1, <2>2, <2>3 DEF CreateTypes
  <2>5. Real'
    BY <1>0, <1>1, <1>2, <2>1, <2>2, <2>3 DEF Real, At
  <2>6. ASSUME ~strayed
        PROVE  Alone'
    <3>1. Alone /\ screen.of = q.of
      BY <1>0, <2>6 DEF Alone
    <3>2. Running' = {} /\ Charged' = Charged
      BY <1>1, <1>2, <3>1 DEF Running, Charged, Alone, Shows
    <3>. QED
      BY <1>1, <2>1, <2>2, <2>3, <3>1, <3>2 DEF Alone
  <2>. QED
    BY <1>1, <2>4, <2>5, <2>6 DEF CreateInv
<1>. QED
  BY <1>3, <1>4 DEF PollAnswer, PaymentFailed

LEMMA CreateStepKeeps ==
    ASSUME CreateAssumption, CreateInv, [CreateNext]_createVars
    PROVE  CreateInv'
<1>1. CASE Hear
  BY <1>1 DEF Hear, CreateInv, CreateTypes, Real, Alone, At, Running, Charged
<1>2. CASE SwitchChain
  BY <1>2, SwitchChainKeeps
<1>3. ASSUME NEW a \in Attempts,
             \/ Press(a) \/ Throws(a) \/ Publish(a) \/ Build(a) \/ Sign(a)
             \/ Confirm(a) \/ Index(a) \/ OpenOrder(a) \/ ChainTakes(a)
      PROVE  CreateInv'
  BY <1>3, PressKeeps, HandlerKeeps, ChainTakesKeeps
<1>4. CASE Pay \/ Poll \/ FiveMinutes \/ Rerender
  BY <1>4, FormKeeps, PollKeeps
<1>5. ASSUME NEW o \in Orders, Charge(o) \/ Fulfil(o)
      PROVE  CreateInv'
  BY <1>5, ChargeKeeps, FulfilKeeps
<1>6. ASSUME NEW q \in polls, ReadPayment(q) \/ PollAnswer(q)
      PROVE  CreateInv'
  BY <1>6, ReadPaymentKeeps, PollAnswerKeeps
<1>7. CASE UNCHANGED createVars
  BY <1>7 DEF createVars, CreateInv, CreateTypes, Real, Alone, At, Running, Charged
<1>. QED
  BY <1>1, <1>2, <1>3, <1>4, <1>5, <1>6, <1>7 DEF CreateNext

LEMMA OnePayment == ASSUME CreateAssumption, CreateInv PROVE PaysOnce
<1>1. SUFFICES ASSUME ~strayed, NEW o \in Charged
               PROVE  Charged = {screen.of} /\ ~Armed
  BY DEF PaysOnce
<1>2. Alone /\ Real /\ CreateTypes
  BY <1>1 DEF CreateInv
<1>3. Charged = {screen.of} /\ screen.of \in Orders
  BY <1>1, <1>2 DEF Alone, Charged
<1>4. screen.of # Nothing
  BY <1>3 DEF CreateAssumption
<1>. QED
  BY <1>2, <1>3, <1>4 DEF Real, Armed, ChargedAlready

-----------------------------------------------------------------------------
(* The page of one NFT.                                                    *)
(*                                                                         *)
(* A page that waits for a transaction, or has heard of it, has signed     *)
(* that one itself, for the operation it was pressed for; one that goes on *)
(* to record it has seen it succeed, and what has landed stays so.         *)

PageSteps == {"none", "prepare", "approve", "sign", "confirm", "verify", "record"}

\* The shape of a page and of a transaction; amounts are whatever they are.
IsPage(x) ==
    /\ DOMAIN x = {"step", "op", "text", "units", "from", "says", "tx", "view"}
    /\ x.step \in PageSteps
    /\ x.says \in {"nothing", "error", "done", "behind"}

IsTransaction(t) == DOMAIN t = {"by", "op", "text", "units", "from", "fate"}

\* A transaction of this person's, for this operation.
Own(p, x) == x.tx \in DOMAIN ledger /\ ledger[x.tx].by = p /\ ledger[x.tx].op = x.op

PageSound(p, x) ==
    /\ IsPage(x)
    /\ x.step \in {"confirm", "verify", "record"} \/ x.says \in {"done", "behind"} => Own(p, x)
    /\ x.step \in {"verify", "record"} \/ x.says \in {"done", "behind"} => ledger[x.tx].fate = "landed"

LedgerSound ==
    /\ ledger \in Seq({ledger[i] : i \in DOMAIN ledger})
    /\ \A i \in DOMAIN ledger : IsTransaction(ledger[i])

DetailInv ==
    /\ LedgerSound
    /\ DOMAIN page = People /\ page = [p \in People |-> page[p]]
    /\ \A p \in People : PageSound(p, page[p])

LEMMA DetailInitSound == ASSUME DetailInit PROVE DetailInv
  BY DEF DetailInit, DetailInv, LedgerSound, PageSound, IsPage, Quiet, PageSteps

\* One page changes and the ledger stays.
LEMMA PageTurns ==
    ASSUME DetailInv, NEW p \in People, NEW x, PageSound(p, x),
           page' = [page EXCEPT ![p] = x], UNCHANGED ledger
    PROVE  DetailInv'
<1>1. DOMAIN page' = People /\ \A q \in People : page'[q] = IF q = p THEN x ELSE page[q]
  BY DEF DetailInv
<1>2. page' = [q \in People |-> page'[q]]
  BY <1>1 DEF DetailInv
<1>3. LedgerSound'
  BY DEF DetailInv, LedgerSound
<1>4. \A q \in People : PageSound(q, page'[q])
  BY <1>1 DEF DetailInv
<1>5. ASSUME NEW q \in People
      PROVE  PageSound(q, page[q])'
  BY <1>4 DEF PageSound, Own
<1>. QED
  BY <1>1, <1>2, <1>3, <1>5 DEF DetailInv

LEMMA FetchKeeps == ASSUME DetailInv, NEW p \in People, Fetch(p) PROVE DetailInv'
<1>. DEFINE v == GetNft
            x == [page[p] EXCEPT !.view = v]
<1>1. PageSound(p, page[p])
  BY DEF DetailInv
<1>2. x = [page[p] EXCEPT !.view = v] /\ page' = [page EXCEPT ![p] = x] /\ UNCHANGED ledger
  BY DEF Fetch
<1>. HIDE DEF v, x
<1>3. PageSound(p, x)
  BY <1>1, <1>2 DEF PageSound, IsPage, Own
<1>. QED
  BY <1>2, <1>3, PageTurns

\* Said of a page that has a transaction, or of one that says an error.
LEMMA SaysKeeps ==
    ASSUME DetailInv, NEW p \in People, NEW what \in {"error", "done", "behind"}, Says(p, what), UNCHANGED ledger,
           what = "error" \/ page[p].step = "record"
    PROVE  DetailInv'
<1>. DEFINE x == [Quiet EXCEPT !.op = page[p].op, !.tx = page[p].tx, !.says = what, !.view = page[p].view]
<1>1. PageSound(p, page[p])
  BY DEF DetailInv
<1>2. page' = [page EXCEPT ![p] = x]
  BY DEF Says
<1>3. PageSound(p, x)
  BY <1>1 DEF PageSound, IsPage, Own, Quiet, PageSteps
<1>. HIDE DEF x
<1>. QED
  BY <1>2, <1>3, PageTurns

LEMMA StepsKeeps ==
    ASSUME DetailInv, NEW p \in People, NEW step \in PageSteps, Steps(p, step), UNCHANGED ledger,
           step \in {"confirm", "verify", "record"} => page[p].step \in {"confirm", "verify"},
           step \in {"verify", "record"} => ledger[page[p].tx].fate = "landed"
    PROVE  DetailInv'
<1>. DEFINE x == [page[p] EXCEPT !.step = step]
<1>1. PageSound(p, page[p])
  BY DEF DetailInv
<1>2. x = [page[p] EXCEPT !.step = step] /\ page' = [page EXCEPT ![p] = x]
  BY DEF Steps
<1>. HIDE DEF x
<1>3. PageSound(p, x)
  BY <1>1, <1>2 DEF PageSound, IsPage, Own
<1>. QED
  BY <1>2, <1>3, PageTurns

LEMMA PressesKeeps ==
    ASSUME DetailInv, NEW p \in People, NEW op, Presses(p, op)
    PROVE  DetailInv'
<1>1. PICK a \in (IF op = "list" THEN Typed ELSE {Zero}) : Begin(p, op, a)
  BY DEF Presses
<1>. DEFINE from == IF Offer(p) THEN Last(page[p].view.shelf).seller ELSE Nobody
            x == [page[p] EXCEPT !.step = "prepare", !.op = op, !.text = a, !.says = "nothing", !.tx = 0, !.from = from]
<1>2. PageSound(p, page[p])
  BY DEF DetailInv
<1>3. page' = [page EXCEPT ![p] = x] /\ UNCHANGED ledger
  BY <1>1 DEF Begin, Presses, OnPage
<1>4. PageSound(p, x)
  <2>. HIDE DEF from
  <2>. QED
    BY <1>2 DEF PageSound, IsPage, PageSteps
<1>. HIDE DEF x
<1>. QED
  BY <1>3, <1>4, PageTurns

LEMMA PrepareKeeps ==
    ASSUME DetailInv, NEW p \in People, PrepareSolana(p) \/ PrepareEvm(p)
    PROVE  DetailInv'
<1>1. page[p].step = "prepare" /\ UNCHANGED ledger
  BY DEF PrepareSolana, PrepareEvm, OnPage
<1>2. PageSound(p, page[p])
  BY DEF DetailInv
<1>3. ASSUME NEW step \in {"sign", "approve"}, NEW units, NEW from,
             page' = [page EXCEPT ![p].step = step, ![p].units = units, ![p].from = from]
      PROVE  DetailInv'
  <2>. DEFINE x == [page[p] EXCEPT !.step = step, !.units = units, !.from = from]
  <2>1. page' = [page EXCEPT ![p] = x]
    BY <1>3
  <2>2. PageSound(p, x)
    BY <1>1, <1>2 DEF PageSound, IsPage, Own, PageSteps
  <2>. HIDE DEF x
  <2>. QED
    BY <1>1, <2>1, <2>2, PageTurns
<1>4. ASSUME NEW step \in {"sign", "approve"}, NEW units,
             page' = [page EXCEPT ![p].step = step, ![p].units = units]
      PROVE  DetailInv'
  <2>. DEFINE x == [page[p] EXCEPT !.step = step, !.units = units]
  <2>1. page' = [page EXCEPT ![p] = x]
    BY <1>4
  <2>2. PageSound(p, x)
    BY <1>1, <1>2 DEF PageSound, IsPage, Own, PageSteps
  <2>. HIDE DEF x
  <2>. QED
    BY <1>1, <2>1, <2>2, PageTurns
<1>5. CASE PrepareSolana(p)
  BY <1>4, <1>5 DEF PrepareSolana
<1>6. CASE PrepareEvm(p)
  BY <1>3, <1>4, <1>6 DEF PrepareEvm
<1>. QED
  BY <1>5, <1>6

LEMMA SignsKeeps == ASSUME DetailInv, NEW p \in People, Signs(p) PROVE DetailInv'
<1>. DEFINE t == [by |-> p, op |-> page[p].op, text |-> page[p].text,
                  units |-> page[p].units, from |-> page[p].from, fate |-> "sent"]
            x == [Quiet EXCEPT !.step = "confirm", !.op = page[p].op, !.tx = Len(ledger) + 1, !.view = page[p].view]
            R == {ledger[i] : i \in DOMAIN ledger}
<1>1. ledger' = Append(ledger, t) /\ page' = [page EXCEPT ![p] = x]
  BY DEF Signs
<1>2. IsTransaction(t) /\ t.by = p /\ t.op = page[p].op
  BY DEF IsTransaction
<1>3. IsPage(x) /\ x.op = page[p].op /\ x.tx = Len(ledger) + 1 /\ x.step = "confirm" /\ x.says = "nothing"
  BY DEF IsPage, Quiet, PageSteps
<1>. HIDE DEF t, x
<1>4. /\ ledger' \in Seq(R \cup {t}) /\ Len(ledger) \in Nat
      /\ DOMAIN ledger = 1..Len(ledger) /\ DOMAIN ledger' = 1..(Len(ledger) + 1)
      /\ \A i \in DOMAIN ledger' : ledger'[i] = IF i = Len(ledger) + 1 THEN t ELSE ledger[i]
  <2>1. ledger \in Seq(R)
    BY DEF DetailInv, LedgerSound
  <2>2. ledger \in Seq(R \cup {t})
    BY <2>1
  <2>. HIDE DEF R
  <2>. QED
    BY <1>1, <2>2
<1>5. LedgerSound'
  <2>1. R \cup {t} \subseteq {ledger'[i] : i \in DOMAIN ledger'}
    BY <1>4
  <2>2. ledger' \in Seq({ledger'[i] : i \in DOMAIN ledger'})
    <3>. DEFINE Q == {ledger'[i] : i \in DOMAIN ledger'}
    <3>1. R \cup {t} \subseteq Q
      BY <2>1
    <3>. HIDE DEF Q, R
    <3>2. ledger' \in Seq(Q)
      BY <1>4, <3>1
    <3>. QED
      BY <3>2 DEF Q
  <2>3. \A i \in DOMAIN ledger' : IsTransaction(ledger'[i])
    BY <1>2, <1>4 DEF DetailInv, LedgerSound
  <2>. QED
    BY <2>2, <2>3 DEF LedgerSound, IsTransaction
<1>6. DOMAIN page' = People /\ \A q \in People : page'[q] = IF q = p THEN x ELSE page[q]
  BY <1>1 DEF DetailInv
<1>7. page' = [q \in People |-> page'[q]]
  BY <1>1, <1>6 DEF DetailInv
<1>8. ASSUME NEW q \in People
      PROVE  PageSound(q, page[q])'
  <2>1. CASE q = p
    BY <1>2, <1>3, <1>4, <1>6, <2>1 DEF PageSound, Own, IsPage
  <2>2. CASE q # p
    <3>1. PageSound(q, page[q]) /\ page'[q] = page[q]
      BY <1>6, <2>2 DEF DetailInv
    <3>2. page[q].tx \in DOMAIN ledger => page[q].tx \in DOMAIN ledger' /\ ledger'[page[q].tx] = ledger[page[q].tx]
      BY <1>4
    <3>. QED
      BY <3>1, <3>2 DEF PageSound, Own, IsPage
  <2>. QED
    BY <2>1, <2>2
<1>. QED
  BY <1>5, <1>6, <1>7, <1>8 DEF DetailInv

LEMMA LandsKeeps == ASSUME DetailInv, NEW i \in DOMAIN ledger, Lands(i) PROVE DetailInv'
<1>1. /\ ledger[i].fate = "sent" /\ UNCHANGED page
      /\ \E fate \in {"landed", "failed"} : ledger' = [ledger EXCEPT ![i].fate = fate]
  BY DEF Lands
<1>2. PICK fate \in {"landed", "failed"} : ledger' = [ledger EXCEPT ![i].fate = fate]
  BY <1>1
<1>. DEFINE t == [ledger[i] EXCEPT !.fate = fate]
            R == {ledger[j] : j \in DOMAIN ledger}
<1>3. IsTransaction(ledger[i]) /\ ledger \in Seq(R)
  BY DEF DetailInv, LedgerSound
<1>4. IsTransaction(t) /\ t.by = ledger[i].by /\ t.op = ledger[i].op
  BY <1>3 DEF IsTransaction
<1>5. ledger' = [ledger EXCEPT ![i] = t]
  BY <1>2
<1>. HIDE DEF t
<1>6. DOMAIN ledger' = DOMAIN ledger /\ \A j \in DOMAIN ledger : ledger'[j] = IF j = i THEN t ELSE ledger[j]
  BY <1>5
<1>7. ledger' \in Seq({ledger'[j] : j \in DOMAIN ledger'})
  <2>. DEFINE Q == {ledger'[j] : j \in DOMAIN ledger'}
  <2>1. \A j \in DOMAIN ledger' : ledger'[j] \in Q
    OBVIOUS
  <2>2. Len(ledger) \in Nat /\ DOMAIN ledger = 1..Len(ledger)
    <3>. HIDE DEF R
    <3>. QED
      BY <1>3
  <2>3. ledger' = [j \in 1..Len(ledger) |-> ledger'[j]]
    BY <1>5, <1>6, <2>2
  <2>. HIDE DEF Q
  <2>4. ledger' \in Seq(Q)
    BY <1>6, <2>1, <2>2, <2>3
  <2>. QED
    BY <2>4 DEF Q
<1>8. LedgerSound'
  <2>1. \A j \in DOMAIN ledger' : IsTransaction(ledger'[j])
    BY <1>4, <1>6 DEF DetailInv, LedgerSound
  <2>. QED
    BY <1>7, <2>1 DEF LedgerSound, IsTransaction
<1>9. ASSUME NEW q \in People
      PROVE  PageSound(q, page[q])'
  <2>1. PageSound(q, page[q])
    BY DEF DetailInv
  <2>2. page[q].tx \in DOMAIN ledger =>
          /\ page[q].tx \in DOMAIN ledger'
          /\ ledger'[page[q].tx].by = ledger[page[q].tx].by
          /\ ledger'[page[q].tx].op = ledger[page[q].tx].op
          /\ ledger[page[q].tx].fate = "landed" => ledger'[page[q].tx].fate = "landed"
    BY <1>1, <1>4, <1>6
  <2>. QED
    BY <1>1, <2>1, <2>2 DEF PageSound, Own, IsPage
<1>. QED
  BY <1>1, <1>8, <1>9 DEF DetailInv

LEMMA DetailStepKeeps == ASSUME DetailInv, [DetailNext]_detailVars PROVE DetailInv'
<1>1. ASSUME NEW p \in People, Fails(p) \/ Records(p)
      PROVE  DetailInv'
  <2>1. PICK what \in {"error", "done", "behind"} : Says(p, what) /\ (what = "error" \/ page[p].step = "record")
    BY <1>1 DEF Fails, Records
  <2>2. UNCHANGED ledger
    BY <1>1 DEF Fails, Records
  <2>. QED
    BY <2>1, <2>2, SaysKeeps
<1>2. ASSUME NEW p \in People, ApprovalMined(p) \/ Confirms(p) \/ Verifies(p)
      PROVE  DetailInv'
  BY <1>2, StepsKeeps DEF ApprovalMined, Confirms, Verifies, Succeeded, OnPage, PageSteps
<1>3. ASSUME NEW p \in People,
             \/ Fetch(p) \/ PrepareSolana(p) \/ PrepareEvm(p) \/ Signs(p)
             \/ \E op \in {"buy", "cancel", "list", "burn"} : Presses(p, op)
      PROVE  DetailInv'
  BY <1>3, FetchKeeps, PrepareKeeps, SignsKeeps, PressesKeeps
<1>4. ASSUME NEW i \in DOMAIN ledger, Lands(i)
      PROVE  DetailInv'
  BY <1>4, LandsKeeps
<1>5. CASE UNCHANGED detailVars
  BY <1>5 DEF detailVars, DetailInv, LedgerSound, PageSound, Own, IsPage, IsTransaction
<1>. QED
  BY <1>1, <1>2, <1>3, <1>4, <1>5 DEF DetailNext

-----------------------------------------------------------------------------
(* Numbers and their digits.                                               *)
(*                                                                         *)
(* Number is a recursive function of the digits read so far.  Any function *)
(* that reads them so gives the same (ReadOnce), which is what joins       *)
(* numbers (NumberJoin) and bounds them (NumberBelow); each induction      *)
(* takes the least counterexample.                                         *)

LEMMA LeastExists ==
    ASSUME NEW S \in SUBSET Nat, S # {}
    PROVE  \E x \in S : \A y \in S : x <= y
<1>. DEFINE R == {p \in Nat \X Nat : p[1] < p[2]}
<1>1. IsWellFoundedOn(R, Nat)
  BY NatLessThanWellFounded DEF OpToRel
<1>. HIDE DEF R
<1>2. PICK x \in S : \A y \in S : ~(<<y, x>> \in R)
  BY <1>1, WFMin
<1>3. \A y \in S : ~(y < x)
  BY <1>2 DEF R
<1>. QED
  BY <1>3

\* What is read of the digits so far.
Values(f, s) ==
    /\ f \in [0..Len(s) -> Nat]
    /\ f[0] = 0
    /\ \A n \in 1..Len(s) : f[n] = 10 * f[n - 1] + s[n]

\* Whatever reads the digits from the left is what Number computes.
LEMMA ReadOnce ==
    ASSUME NEW s \in Seq(Nat), NEW f, Values(f, s), NEW g, Values(g, s)
    PROVE  f[Len(s)] = g[Len(s)]
<1>0. Len(s) \in Nat /\ \A n \in 1..Len(s) : s[n] \in Nat
  OBVIOUS
<1>. DEFINE Bad == {n \in 0..Len(s) : f[n] # g[n]}
<1>1. Bad = {}
  <2>1. SUFFICES ASSUME Bad # {} PROVE FALSE
    OBVIOUS
  <2>2. PICK m \in Bad : \A k \in Bad : m <= k
    <3>1. Bad \in SUBSET Nat
      BY <1>0
    <3>. HIDE DEF Bad
    <3>. QED
      BY <2>1, <3>1, LeastExists
  <2>3. m \in 0..Len(s) /\ f[m] # g[m]
    BY <2>2
  <2>4. m # 0
    BY <2>3 DEF Values
  <2>5. m \in 1..Len(s) /\ m - 1 \in 0..Len(s) /\ ~(m <= m - 1)
    BY <1>0, <2>3, <2>4
  <2>6. f[m - 1] = g[m - 1]
    <3>1. m - 1 \notin Bad
      <4>. HIDE DEF Bad
      <4>. QED
        BY <2>2, <2>5
    <3>. QED
      BY <2>5, <3>1
  <2>. QED
    BY <2>3, <2>5, <2>6 DEF Values
<1>. QED
  BY <1>0, <1>1

\* Some function does.
LEMMA ReadsThrough ==
    ASSUME NEW s \in Seq(Nat)
    PROVE  \E f : Values(f, s) /\ Number(s) = f[Len(s)]
<1>. DEFINE Next(f, n) == IF n = 0 THEN 0 ELSE 10 * f[n - 1] + s[n]
            Whole(f, m) == f = [n \in 0..m |-> Next(f, n)]
            Unread == {m \in 0..Len(s) : ~\E f : Whole(f, m)}
<1>0. Len(s) \in Nat /\ \A n \in 1..Len(s) : s[n] \in Nat
  OBVIOUS
<1>1. Unread = {}
  <2>1. SUFFICES ASSUME Unread # {} PROVE FALSE
    OBVIOUS
  <2>2. PICK m \in Unread : \A k \in Unread : m <= k
    <3>1. Unread \in SUBSET Nat
      BY <1>0
    <3>. HIDE DEF Unread
    <3>. QED
      BY <2>1, <3>1, LeastExists
  <2>3. m \in 0..Len(s) /\ ~\E f : Whole(f, m)
    BY <2>2
  <2>4. CASE m = 0
    <3>. DEFINE g == [n \in 0..0 |-> 0]
    <3>1. Whole(g, 0)
      OBVIOUS
    <3>. QED
      BY <2>3, <2>4, <3>1
  <2>5. CASE m > 0
    <3>1. m - 1 \in 0..Len(s) /\ ~(m <= m - 1)
      BY <1>0, <2>3, <2>5
    <3>2. m - 1 \notin Unread
      <4>. HIDE DEF Unread
      <4>. QED
        BY <2>2, <3>1
    <3>. HIDE DEF Whole
    <3>0. PICK f : Whole(f, m - 1)
      BY <3>1, <3>2
    <3>. USE DEF Whole
    <3>. DEFINE g == [n \in 0..m |-> Next(f, n)]
    <3>3. \A n \in 0..(m - 1) : g[n] = f[n]
      <4>1. f = [n \in 0..(m - 1) |-> Next(f, n)]
        BY <3>0
      <4>2. \A n \in 0..(m - 1) : f[n] = Next(f, n)
        <5>. HIDE DEF Next
        <5>. QED
          BY <4>1, Zenon
      <4>3. \A n \in 0..(m - 1) : g[n] = Next(f, n)
        <5>. HIDE DEF Next
        <5>. QED
          BY <2>3
      <4>. HIDE DEF Next, g
      <4>. QED
        BY <4>2, <4>3
    <3>4. \A n \in 0..m : Next(g, n) = Next(f, n)
      <4>. HIDE DEF g
      <4>. QED
        BY <2>3, <3>3
    <3>5. Whole(g, m)
      <4>1. g = [n \in 0..m |-> Next(f, n)]
        OBVIOUS
      <4>. HIDE DEF g, Next
      <4>. QED
        BY <3>4, <4>1
    <3>. QED
      BY <2>3, <3>5
  <2>. QED
    BY <2>3, <2>4, <2>5
<1>. DEFINE value == CHOOSE f : Whole(f, Len(s))
<1>2. Number(s) = value[Len(s)]
  BY DEF Number
<1>3. Whole(value, Len(s))
  <2>. HIDE DEF Whole
  <2>1. \E f : Whole(f, Len(s))
    BY <1>0, <1>1
  <2>. QED
    BY <2>1, Zenon
<1>. HIDE DEF value
<1>4. value = [n \in 0..Len(s) |-> Next(value, n)]
  BY <1>3
<1>5. \A n \in 0..Len(s) : value[n] = Next(value, n)
  <2>. HIDE DEF Next
  <2>. QED
    BY <1>4, Zenon
<1>6. DOMAIN value = 0..Len(s)
  <2>. HIDE DEF Next
  <2>. QED
    BY <1>4, Zenon
<1>. DEFINE Bad == {n \in 0..Len(s) : value[n] \notin Nat}
<1>7. Bad = {}
  <2>1. SUFFICES ASSUME Bad # {} PROVE FALSE
    OBVIOUS
  <2>2. PICK m \in Bad : \A k \in Bad : m <= k
    <3>1. Bad \in SUBSET Nat
      BY <1>0
    <3>. HIDE DEF Bad
    <3>. QED
      BY <2>1, <3>1, LeastExists
  <2>3. m \in 0..Len(s) /\ value[m] \notin Nat
    BY <2>2
  <2>4. m # 0
    BY <1>0, <1>5, <2>3
  <2>5. m \in 1..Len(s) /\ m - 1 \in 0..Len(s) /\ ~(m <= m - 1)
    BY <1>0, <2>3, <2>4
  <2>6. value[m - 1] \in Nat
    <3>1. m - 1 \notin Bad
      <4>. HIDE DEF Bad
      <4>. QED
        BY <2>2, <2>5
    <3>. QED
      BY <2>5, <3>1
  <2>7. value[m] = 10 * value[m - 1] + s[m] /\ s[m] \in Nat
    BY <1>0, <1>5, <2>3, <2>4, <2>5
  <2>. HIDE DEF Next
  <2>8. 10 * value[m - 1] + s[m] \in Nat
    BY <2>6, <2>7
  <2>. QED
    BY <2>3, <2>7, <2>8
<1>8. value \in [0..Len(s) -> Nat]
  <2>1. \A n \in 0..Len(s) : value[n] \in Nat
    BY <1>7
  <2>2. value = [n \in 0..Len(s) |-> value[n]]
    <3>. HIDE DEF Next
    <3>. QED
      BY <1>4, Zenon
  <2>. HIDE DEF Next
  <2>. QED
    BY <2>1, <2>2
<1>9. Values(value, s)
  BY <1>0, <1>5, <1>8 DEF Values
<1>. QED
  BY <1>2, <1>9

LEMMA NumberIs ==
    ASSUME NEW s \in Seq(Nat), NEW f, Values(f, s)
    PROVE  Number(s) = f[Len(s)]
  BY ReadOnce, ReadsThrough

LEMMA NumberNatural == ASSUME NEW s \in Seq(Nat) PROVE Number(s) \in Nat
<1>1. PICK f : Values(f, s) /\ Number(s) = f[Len(s)]
  BY ReadsThrough
<1>. QED
  BY <1>1 DEF Values

LEMMA NumberEmpty == Number(<<>>) = 0
<1>1. <<>> \in Seq(Nat) /\ Len(<<>>) = 0
  OBVIOUS
<1>2. PICK f : Values(f, <<>>) /\ Number(<<>>) = f[Len(<<>>)]
  BY <1>1, ReadsThrough
<1>. QED
  BY <1>1, <1>2 DEF Values

\* One more digit.
LEMMA NumberAppend ==
    ASSUME NEW s \in Seq(Nat), NEW d \in Nat
    PROVE  Number(Append(s, d)) = 10 * Number(s) + d
<1>1. PICK f : Values(f, s) /\ Number(s) = f[Len(s)]
  BY ReadsThrough
<1>. DEFINE t == Append(s, d)
            g == [n \in 0..Len(t) |-> IF n = Len(t) THEN 10 * f[Len(s)] + d ELSE f[n]]
<1>2. t \in Seq(Nat) /\ Len(s) \in Nat /\ Len(t) = Len(s) + 1 /\ t[Len(t)] = d /\ \A n \in 1..Len(s) : t[n] = s[n] /\ s[n] \in Nat
  OBVIOUS
<1>. HIDE DEF t
<1>0. \A n \in 0..Len(s) : f[n] \in Nat
  BY <1>1 DEF Values
<1>3. \A n \in 0..Len(s) : g[n] = f[n] /\ f[n] \in Nat
  BY <1>0, <1>2
<1>4. g[Len(t)] = 10 * f[Len(s)] + d
  BY <1>2
<1>5. g \in [0..Len(t) -> Nat]
  <2>1. 10 * f[Len(s)] + d \in Nat
    BY <1>0, <1>2
  <2>2. \A n \in 0..Len(t) : n # Len(t) => n \in 0..Len(s)
    BY <1>2
  <2>. QED
    BY <1>0, <2>1, <2>2
<1>. HIDE DEF g
<1>6. ASSUME NEW n \in 1..Len(t)
      PROVE  g[n] = 10 * g[n - 1] + t[n]
  <2>1. CASE n = Len(t)
    BY <1>2, <1>3, <1>4, <2>1
  <2>2. CASE n # Len(t)
    <3>1. n \in 1..Len(s) /\ n \in 0..Len(s) /\ n - 1 \in 0..Len(s)
      BY <1>2, <2>2
    <3>. QED
      BY <1>1, <1>2, <1>3, <3>1 DEF Values
  <2>. QED
    BY <2>1, <2>2
<1>7. Values(g, t)
  BY <1>1, <1>2, <1>3, <1>5, <1>6 DEF Values
<1>8. Number(t) = g[Len(t)]
  BY <1>2, <1>7, NumberIs
<1>. QED
  BY <1>1, <1>4, <1>8 DEF t

LEMMA ZerosAre ==
    ASSUME NEW n \in Int
    PROVE  /\ Zeros(n) \in Seq(0..9) /\ Zeros(n) \in Seq(Nat)
           /\ Len(Zeros(n)) = IF n > 0 THEN n ELSE 0
           /\ \A i \in 1..Len(Zeros(n)) : Zeros(n)[i] = 0
<1>1. CASE n > 0
  <2>1. n \in Nat /\ 0 \in 0..9 /\ 0 \in Nat
    BY <1>1
  <2>. QED
    BY <1>1, <2>1 DEF Zeros
<1>2. CASE ~(n > 0)
  <2>1. 1..n = {}
    BY <1>2
  <2>2. Zeros(n) = <<>>
    BY <2>1 DEF Zeros
  <2>. QED
    BY <1>2, <2>2
<1>. QED
  BY <1>1, <1>2

LEMMA JoinAppend ==
    ASSUME NEW S, NEW p \in Seq(S), NEW q \in Seq(S), NEW d \in S
    PROVE  p \o Append(q, d) = Append(p \o q, d)
  OBVIOUS

LEMMA SameSequence ==
    ASSUME NEW S, NEW p \in Seq(S), NEW q \in Seq(S), Len(p) = Len(q), \A i \in 1..Len(p) : p[i] = q[i]
    PROVE  p = q
  OBVIOUS

LEMMA JoinIs ==
    ASSUME NEW S, NEW p \in Seq(S), NEW q \in Seq(S)
    PROVE  /\ p \o q \in Seq(S) /\ Len(p \o q) = Len(p) + Len(q)
           /\ \A i \in 1..Len(p) : (p \o q)[i] = p[i]
           /\ \A i \in 1..Len(q) : (p \o q)[Len(p) + i] = q[i]
  OBVIOUS

LEMMA DigitsNatural == ASSUME NEW s \in Seq(0..9) PROVE s \in Seq(Nat)
  OBVIOUS

LEMMA JoinNothing ==
    ASSUME NEW S, NEW p \in Seq(S)
    PROVE  p \o <<>> = p
  OBVIOUS

LEMMA JoinThree ==
    ASSUME NEW p \in Seq(Nat), NEW q \in Seq(Nat), NEW r \in Seq(Nat)
    PROVE  (p \o q) \o r = p \o (q \o r)
<1>1. p \o q \in Seq(Nat) /\ q \o r \in Seq(Nat) /\ (p \o q) \o r \in Seq(Nat) /\ p \o (q \o r) \in Seq(Nat)
  OBVIOUS
<1>2. Len((p \o q) \o r) = Len(p) + Len(q) + Len(r) /\ Len(p \o (q \o r)) = Len(p) + Len(q) + Len(r)
  OBVIOUS
<1>3. ASSUME NEW i \in 1..(Len(p) + Len(q) + Len(r))
      PROVE  ((p \o q) \o r)[i] = (p \o (q \o r))[i]
  OBVIOUS
<1>. QED
  BY <1>1, <1>2, <1>3

\* A sequence that is not empty is what comes before its last, and its last.
LEMMA LastApart ==
    ASSUME NEW S, NEW q \in Seq(S), NEW n \in Nat, Len(q) = n + 1
    PROVE  /\ SubSeq(q, 1, n) \in Seq(S) /\ Len(SubSeq(q, 1, n)) = n
           /\ q[n + 1] \in S
           /\ q = Append(SubSeq(q, 1, n), q[n + 1])
<1>1. SubSeq(q, 1, n) \in Seq(S) /\ Len(SubSeq(q, 1, n)) = n /\ \A i \in 1..n : SubSeq(q, 1, n)[i] = q[i]
  OBVIOUS
<1>2. n + 1 \in 1..Len(q)
  OBVIOUS
<1>3. q[n + 1] \in S
  BY <1>2
<1>. DEFINE t == SubSeq(q, 1, n)
<1>. HIDE DEF t
<1>4. t \in Seq(S) /\ Len(t) = n /\ \A i \in 1..n : t[i] = q[i]
  BY <1>1 DEF t
<1>5. q = Append(t, q[n + 1])
  BY <1>3, <1>4
<1>. QED
  BY <1>1, <1>3, <1>5 DEF t

LEMMA TenZero == ASSUME NEW n \in Int, n <= 0 PROVE Ten(n) = 1
<1>1. Zeros(n) = <<>>
  <2>1. 1..n = {}
    OBVIOUS
  <2>. QED
    BY <2>1 DEF Zeros
<1>2. <<1>> \o Zeros(n) = Append(<<>>, 1)
  BY <1>1
<1>3. Number(Append(<<>>, 1)) = 10 * Number(<<>>) + 1
  <2>1. <<>> \in Seq(Nat) /\ 1 \in Nat
    OBVIOUS
  <2>. QED
    BY <2>1, NumberAppend
<1>4. Ten(n) = Number(Append(<<>>, 1))
  BY <1>2, Zenon DEF Ten
<1>. QED
  BY <1>3, <1>4, NumberEmpty

LEMMA TenStep ==
    ASSUME NEW n \in Nat
    PROVE  Ten(n + 1) = 10 * Ten(n) /\ Ten(n) \in Nat
<1>1. <<1>> \in Seq(Nat) /\ Zeros(n) \in Seq(Nat) /\ 0 \in Nat
  BY ZerosAre
<1>2. Zeros(n + 1) = Append(Zeros(n), 0)
  <2>1. Len(Zeros(n)) = n /\ Len(Zeros(n + 1)) = n + 1
    BY ZerosAre
  <2>2. Zeros(n) \in Seq(Nat) /\ Zeros(n + 1) \in Seq(Nat)
    BY ZerosAre
  <2>3. \A i \in 1..n : Zeros(n)[i] = 0
    BY DEF Zeros
  <2>4. \A i \in 1..(n + 1) : Zeros(n + 1)[i] = 0
    BY DEF Zeros
  <2>5. \A i \in 1..(n + 1) : Append(Zeros(n), 0)[i] = 0
    BY <2>1, <2>2, <2>3
  <2>. QED
    BY <2>1, <2>2, <2>4, <2>5
<1>. DEFINE one == <<1>>
            z == Zeros(n)
            t == one \o z
<1>3. t \in Seq(Nat)
  BY <1>1
<1>4. one \o Append(z, 0) = Append(t, 0)
  <2>1. one \in Seq(Nat) /\ z \in Seq(Nat)
    BY <1>1
  <2>. HIDE DEF one, z
  <2>. QED
    BY <1>1, <2>1, JoinAppend
<1>. HIDE DEF t
<1>5. Number(Append(t, 0)) = 10 * Number(t) + 0 /\ Number(t) \in Nat
  BY <1>1, <1>3, NumberAppend, NumberNatural
<1>6. Ten(n) = Number(t)
  BY Zenon DEF Ten, t
<1>7. Ten(n + 1) = Number(Append(t, 0))
  BY <1>2, <1>4, Zenon DEF Ten
<1>. QED
  BY <1>5, <1>6, <1>7

LEMMA TenPositive == ASSUME NEW n \in Int PROVE Ten(n) \in Nat /\ Ten(n) > 0
<1>. DEFINE Bad == {k \in Nat : ~(Ten(k) \in Nat /\ Ten(k) > 0)}
<1>1. Bad = {}
  <2>1. SUFFICES ASSUME Bad # {} PROVE FALSE
    OBVIOUS
  <2>2. PICK m \in Bad : \A k \in Bad : m <= k
    <3>1. Bad \in SUBSET Nat
      OBVIOUS
    <3>. HIDE DEF Bad
    <3>. QED
      BY <2>1, <3>1, LeastExists
  <2>3. m \in Nat /\ ~(Ten(m) \in Nat /\ Ten(m) > 0)
    BY <2>2
  <2>4. m # 0
    BY <2>3, TenZero
  <2>5. m - 1 \in Nat /\ ~(m <= m - 1) /\ (m - 1) + 1 = m
    BY <2>3, <2>4
  <2>6. m - 1 \notin Bad
    <3>. HIDE DEF Bad
    <3>. QED
      BY <2>2, <2>5
  <2>7. Ten(m - 1) \in Nat /\ Ten(m - 1) > 0
    BY <2>5, <2>6
  <2>8. Ten(m) = 10 * Ten(m - 1)
    BY <2>5, TenStep
  <2>. QED
    BY <2>3, <2>7, <2>8
<1>2. CASE n \in Nat
  BY <1>1, <1>2
<1>3. CASE n \notin Nat
  BY <1>3, TenZero
<1>. QED
  BY <1>2, <1>3

LEMMA Shifted ==
    ASSUME NEW a \in Nat, NEW t \in Nat, NEW b \in Nat, NEW d \in Nat
    PROVE  10 * (a * t + b) + d = a * (10 * t) + (10 * b + d)
  OBVIOUS

\* Digits after digits.
LEMMA NumberJoin ==
    ASSUME NEW p \in Seq(Nat), NEW q \in Seq(Nat)
    PROVE  Number(p \o q) = Number(p) * Ten(Len(q)) + Number(q)
<1>. DEFINE Holds(r) == Number(p \o r) = Number(p) * Ten(Len(r)) + Number(r)
            Bad == {n \in Nat : \E r \in Seq(Nat) : Len(r) = n /\ ~Holds(r)}
<1>1. Bad = {}
  <2>1. SUFFICES ASSUME Bad # {} PROVE FALSE
    OBVIOUS
  <2>2. PICK m \in Bad : \A k \in Bad : m <= k
    <3>1. Bad \in SUBSET Nat
      OBVIOUS
    <3>. HIDE DEF Bad
    <3>. QED
      BY <2>1, <3>1, LeastExists
  <2>3. PICK r \in Seq(Nat) : Len(r) = m /\ ~Holds(r)
    BY <2>2
  <2>4. m \in Nat /\ Number(p) \in Nat
    BY <2>2, NumberNatural
  <2>5. CASE m = 0
    <3>1. r = <<>> /\ p \o r = p
      BY <2>3, <2>5
    <3>2. Number(p) * Ten(Len(r)) = Number(p)
      BY <2>3, <2>4, <2>5, TenZero
    <3>. QED
      BY <2>3, <2>4, <3>1, <3>2, NumberEmpty
  <2>6. CASE m # 0
    <3>. DEFINE n == m - 1
                t == SubSeq(r, 1, n)
                d == r[n + 1]
    <3>1. n \in Nat /\ Len(r) = n + 1 /\ ~(m <= n) /\ m = n + 1
      BY <2>3, <2>4, <2>6
    <3>. HIDE DEF n
    <3>2. t \in Seq(Nat) /\ Len(t) = n /\ d \in Nat /\ r = Append(t, d)
      BY <3>1, LastApart
    <3>3. Holds(t)
      <4>1. n \notin Bad
        <5>. HIDE DEF Bad
        <5>. QED
          BY <2>2, <3>1
      <4>. HIDE DEF Holds
      <4>. QED
        BY <3>1, <3>2, <4>1
    <3>. HIDE DEF t, d
    <3>4. p \o r = Append(p \o t, d) /\ p \o t \in Seq(Nat)
      BY <3>2, JoinAppend
    <3>5. Number(p \o r) = 10 * Number(p \o t) + d
      BY <3>2, <3>4, NumberAppend
    <3>6. Number(r) = 10 * Number(t) + d /\ Number(t) \in Nat
      BY <3>2, NumberAppend, NumberNatural
    <3>7. Ten(m) = 10 * Ten(n) /\ Ten(n) \in Nat
      BY <3>1, TenStep
    <3>8. 10 * (Number(p) * Ten(n) + Number(t)) + d = Number(p) * (10 * Ten(n)) + (10 * Number(t) + d)
      BY <2>4, <3>2, <3>6, <3>7, Shifted
    <3>. QED
      BY <2>3, <3>2, <3>3, <3>5, <3>6, <3>7, <3>8
  <2>. QED
    BY <2>5, <2>6
<1>. HIDE DEF Holds
<1>2. Len(q) \in Nat
  OBVIOUS
<1>3. Holds(q)
  BY <1>1, <1>2
<1>. QED
  BY <1>3 DEF Holds

Blank(s) == \A i \in 1..Len(s) : s[i] = 0

\* A fraction is less than one, and nothing only if all its digits are.
LEMMA NumberBelow ==
    ASSUME NEW q \in Seq(0..9)
    PROVE  /\ Number(q) \in Nat /\ Number(q) < Ten(Len(q))
           /\ Number(q) = 0 <=> Blank(q)
<1>. DEFINE Holds(r) == Number(r) \in Nat /\ Number(r) < Ten(Len(r)) /\ (Number(r) = 0 <=> Blank(r))
            Bad == {n \in Nat : \E r \in Seq(0..9) : Len(r) = n /\ ~Holds(r)}
<1>1. Bad = {}
  <2>1. SUFFICES ASSUME Bad # {} PROVE FALSE
    OBVIOUS
  <2>2. PICK m \in Bad : \A k \in Bad : m <= k
    <3>1. Bad \in SUBSET Nat
      OBVIOUS
    <3>. HIDE DEF Bad
    <3>. QED
      BY <2>1, <3>1, LeastExists
  <2>3. PICK r \in Seq(0..9) : Len(r) = m /\ ~Holds(r)
    BY <2>2
  <2>4. m \in Nat
    BY <2>2
  <2>5. CASE m = 0
    <3>1. r = <<>> /\ Len(r) = 0 /\ Blank(r)
      BY <2>3, <2>5 DEF Blank
    <3>2. Ten(Len(r)) = 1
      BY <3>1, TenZero
    <3>. QED
      BY <2>3, <3>1, <3>2, NumberEmpty
  <2>6. CASE m # 0
    <3>. DEFINE n == m - 1
                t == SubSeq(r, 1, n)
                d == r[n + 1]
    <3>1. n \in Nat /\ Len(r) = n + 1 /\ ~(m <= n) /\ m = n + 1
      BY <2>3, <2>4, <2>6
    <3>. HIDE DEF n
    <3>2. t \in Seq(0..9) /\ Len(t) = n /\ d \in 0..9 /\ r = Append(t, d)
      BY <3>1, LastApart
    <3>3. Holds(t)
      <4>1. n \notin Bad
        <5>. HIDE DEF Bad
        <5>. QED
          BY <2>2, <3>1
      <4>. HIDE DEF Holds
      <4>. QED
        BY <3>1, <3>2, <4>1
    <3>. HIDE DEF t, d
    <3>4. t \in Seq(Nat) /\ d \in Nat /\ d <= 9
      BY <3>2
    <3>5. Number(r) = 10 * Number(t) + d
      BY <3>2, <3>4, NumberAppend
    <3>6. Ten(m) = 10 * Ten(n) /\ Ten(n) \in Nat
      BY <3>1, TenStep
    <3>7. Blank(r) <=> Blank(t) /\ d = 0
      <4>1. \A i \in 1..n : r[i] = t[i]
        BY <3>1, <3>2
      <4>2. r[n + 1] = d
        BY <3>2
      <4>3. 1..Len(r) = (1..n) \cup {n + 1}
        BY <3>1
      <4>. QED
        BY <3>2, <4>1, <4>2, <4>3 DEF Blank
    <3>8. Number(t) < Ten(n) /\ Number(t) \in Nat /\ (Number(t) = 0 <=> Blank(t))
      BY <3>2, <3>3
    <3>9. 10 * Number(t) + d < 10 * Ten(n) /\ (10 * Number(t) + d = 0 <=> Number(t) = 0 /\ d = 0) /\ 10 * Number(t) + d \in Nat
      BY <3>4, <3>6, <3>8
    <3>. QED
      BY <2>3, <3>5, <3>6, <3>7, <3>8, <3>9
  <2>. QED
    BY <2>5, <2>6
<1>. HIDE DEF Holds
<1>2. Len(q) \in Nat
  OBVIOUS
<1>3. Holds(q)
  BY <1>1, <1>2
<1>. QED
  BY <1>3 DEF Holds

-----------------------------------------------------------------------------
(* Division.                                                               *)

LEMMA Gap == ASSUME NEW x \in Nat, NEW y \in Nat, x < y PROVE \E k \in Nat : y = x + 1 + k
<1>1. y - (x + 1) \in Nat /\ y = x + 1 + (y - (x + 1))
  OBVIOUS
<1>. QED
  BY <1>1

LEMMA Dwarfs ==
    ASSUME NEW t \in Nat, NEW x \in Nat, NEW y \in Nat, x < y
    PROVE  x * t + t <= y * t
<1>1. PICK k \in Nat : y = x + 1 + k
  BY Gap
<1>2. y * t = (x * t + t) + k * t
  BY <1>1
<1>3. k * t \in Nat /\ x * t + t \in Nat
  OBVIOUS
<1>. QED
  BY <1>2, <1>3

LEMMA Divides ==
    ASSUME NEW a \in Nat, NEW t \in Nat, t > 0
    PROVE  a \div t \in Nat /\ a % t \in Nat /\ a % t < t /\ a = (a \div t) * t + (a % t)
  OBVIOUS

LEMMA OneQuotient ==
    ASSUME NEW t \in Nat, NEW q \in Nat, NEW r \in Nat, NEW p \in Nat, NEW s \in Nat,
           r < t, s < t, q * t + r = p * t + s
    PROVE  q = p /\ r = s
<1>0. q * t \in Nat /\ p * t \in Nat
  OBVIOUS
<1>1. ~(q < p)
  <2>1. q < p => q * t + t <= p * t
    BY Dwarfs
  <2>. QED
    BY <1>0, <2>1
<1>2. ~(p < q)
  <2>1. p < q => p * t + t <= q * t
    BY Dwarfs
  <2>. QED
    BY <1>0, <2>1
<1>3. q = p
  BY <1>1, <1>2
<1>. QED
  BY <1>0, <1>3

LEMMA QuotientIs ==
    ASSUME NEW a \in Nat, NEW t \in Nat, t > 0, NEW q \in Nat, NEW r \in Nat, r < t, a = q * t + r
    PROVE  a \div t = q /\ a % t = r
<1>1. a \div t \in Nat /\ a % t \in Nat /\ a % t < t /\ a = (a \div t) * t + (a % t)
  BY Divides
<1>. QED
  BY <1>1, OneQuotient

\* The digit before.
LEMMA DividesAgain ==
    ASSUME NEW a \in Nat, NEW t \in Nat, t > 0
    PROVE  /\ (a \div t) % 10 \in 0..9
           /\ a \div t = 10 * (a \div (10 * t)) + ((a \div t) % 10)
<1>. DEFINE q == a \div t
            r == a % t
            p == q \div 10
            s == q % 10
<1>1. q \in Nat /\ r \in Nat /\ r < t /\ a = q * t + r
  BY Divides
<1>. HIDE DEF q, r
<1>2. p \in Nat /\ s \in 0..9 /\ q = 10 * p + s
  BY <1>1
<1>. HIDE DEF p, s
<1>3. a = p * (10 * t) + (s * t + r)
  BY <1>1, <1>2
<1>4. s * t + r \in Nat /\ s * t + r < 10 * t
  <2>1. s \in Nat /\ s < 10 /\ 10 \in Nat
    BY <1>2
  <2>2. s * t + t <= 10 * t
    BY <2>1, Dwarfs
  <2>3. s * t \in Nat
    BY <2>1
  <2>. QED
    BY <1>1, <2>2, <2>3
<1>5. a \div (10 * t) = p
  <2>1. 10 * t \in Nat /\ 10 * t > 0
    OBVIOUS
  <2>. QED
    BY <1>2, <1>3, <1>4, <2>1, QuotientIs
<1>. QED
  BY <1>2, <1>5 DEF q, s

-----------------------------------------------------------------------------
(* From base units to digits and back.                                     *)

LEMMA DigitsAre ==
    ASSUME NEW r \in Nat, NEW n \in Nat
    PROVE  /\ DigitsOf(r, n) \in Seq(0..9) /\ Len(DigitsOf(r, n)) = n
           /\ \A i \in 1..n : DigitsOf(r, n)[i] = (r \div Ten(n - i)) % 10
<1>1. ASSUME NEW i \in 1..n
      PROVE  (r \div Ten(n - i)) % 10 \in 0..9
  <2>1. Ten(n - i) \in Nat /\ Ten(n - i) > 0
    BY TenPositive
  <2>. QED
    BY <2>1, DividesAgain
<1>. QED
  BY <1>1 DEF DigitsOf

\* The digits of a remainder read back as it.
LEMMA DigitsRead ==
    ASSUME NEW r \in Nat, NEW n \in Nat, r < Ten(n)
    PROVE  Number(DigitsOf(r, n)) = r
<1>. DEFINE d == DigitsOf(r, n)
            f == [k \in 0..n |-> r \div Ten(n - k)]
<1>1. d \in Seq(Nat) /\ Len(d) = n /\ \A i \in 1..n : d[i] = (r \div Ten(n - i)) % 10
  <2>1. d \in Seq(0..9) /\ Len(d) = n /\ \A i \in 1..n : d[i] = (r \div Ten(n - i)) % 10
    BY DigitsAre
  <2>. HIDE DEF d
  <2>. QED
    BY <2>1
<1>. HIDE DEF d
<1>2. \A k \in 0..n : Ten(n - k) \in Nat /\ Ten(n - k) > 0
  BY TenPositive
<1>3. \A k \in 0..n : r \div Ten(n - k) \in Nat
  BY <1>2, Divides
<1>4. f[0] = 0
  <2>1. f[0] = r \div Ten(n)
    OBVIOUS
  <2>2. Ten(n) \in Nat /\ Ten(n) > 0 /\ r = 0 * Ten(n) + r
    BY TenPositive
  <2>. QED
    BY <2>1, <2>2, QuotientIs
<1>5. f[n] = r
  <2>1. f[n] = r \div Ten(0)
    OBVIOUS
  <2>2. Ten(0) = 1
    BY TenZero
  <2>. QED
    BY <2>1, <2>2
<1>6. ASSUME NEW k \in 1..n
      PROVE  f[k] = 10 * f[k - 1] + d[k]
  <2>1. k - 1 \in 0..n /\ k \in 0..n /\ n - k \in Nat /\ (n - k) + 1 = n - (k - 1)
    OBVIOUS
  <2>2. Ten(n - (k - 1)) = 10 * Ten(n - k)
    BY <2>1, TenStep
  <2>3. r \div Ten(n - k) = 10 * (r \div (10 * Ten(n - k))) + ((r \div Ten(n - k)) % 10)
    BY <1>2, <2>1, DividesAgain
  <2>4. f[k] = r \div Ten(n - k) /\ f[k - 1] = r \div Ten(n - (k - 1))
    BY <2>1
  <2>. HIDE DEF f
  <2>. QED
    BY <1>1, <2>2, <2>3, <2>4
<1>7. f \in [0..Len(d) -> Nat]
  BY <1>1, <1>3
<1>. HIDE DEF f
<1>8. Values(f, d)
  BY <1>1, <1>4, <1>6, <1>7 DEF Values
<1>9. Number(d) = f[Len(d)]
  BY <1>1, <1>8, NumberIs
<1>. QED
  BY <1>1, <1>5, <1>9 DEF d

-----------------------------------------------------------------------------
(* Zeros at the end.                                                       *)

LEMMA LastIs ==
    ASSUME NEW n \in Nat, NEW S \in SUBSET (1..n), S # {}
    PROVE  LastOf(S) \in S /\ \A j \in S : j <= LastOf(S)
<1>. DEFINE T == {n - i : i \in S}
<1>1. T \in SUBSET Nat /\ T # {}
  <2>1. \A i \in 1..n : n - i \in Nat
    OBVIOUS
  <2>2. PICK i \in S : TRUE
    OBVIOUS
  <2>3. n - i \in T
    BY <2>2
  <2>4. \A j \in S : j \in 1..n
    OBVIOUS
  <2>. QED
    BY <2>1, <2>3, <2>4
<1>2. PICK x \in T : \A y \in T : x <= y
  <2>. HIDE DEF T
  <2>. QED
    BY <1>1, LeastExists
<1>3. PICK i \in S : x = n - i
  BY <1>2
<1>4. \A j \in S : j <= i
  <2>1. \A j \in S : n - i <= n - j
    BY <1>2, <1>3
  <2>2. S \subseteq Int /\ n \in Int
    OBVIOUS
  <2>. QED
    BY <2>1, <2>2
<1>. QED
  BY <1>4 DEF LastOf

LEMMA FirstIs ==
    ASSUME NEW S \in SUBSET Nat, S # {}
    PROVE  FirstOf(S) \in S /\ \A j \in S : FirstOf(S) <= j
  BY LeastExists DEF FirstOf

\* What Trimmed leaves, and what it drops.
Trims(t, x) ==
    /\ t \in Seq(0..9) /\ Len(t) <= Len(x)
    /\ \A i \in 1..Len(t) : t[i] = x[i]
    /\ \A i \in 1..Len(x) : i > Len(t) => x[i] = 0

\* Trimming takes zeros only, and all of them.
LEMMA TrimmedTrims ==
    ASSUME NEW x \in Seq(0..9)
    PROVE  /\ Trims(Trimmed(x), x)
           /\ Trimmed(x) = <<>> <=> Blank(x)
           /\ Significant(x) = {} <=> Blank(x)
<1>1. Len(x) \in Nat /\ DOMAIN x = 1..Len(x) /\ \A i \in 1..Len(x) : x[i] \in 0..9
  OBVIOUS
<1>2. Significant(x) \in SUBSET (1..Len(x)) /\ \A i \in 1..Len(x) : i \in Significant(x) <=> x[i] # 0
  BY <1>1 DEF Significant
<1>3. Significant(x) = {} <=> Blank(x)
  BY <1>2 DEF Blank
<1>4. CASE Significant(x) = {}
  <2>1. Trimmed(x) = <<>>
    BY <1>4 DEF Trimmed
  <2>. QED
    BY <1>1, <1>2, <1>3, <1>4, <2>1 DEF Trims
<1>5. CASE Significant(x) # {}
  <2>. DEFINE k == LastOf(Significant(x))
  <2>1. k \in Significant(x) /\ \A j \in Significant(x) : j <= k
    BY <1>1, <1>2, <1>5, LastIs
  <2>2. Trimmed(x) = SubSeq(x, 1, k)
    BY <1>5 DEF Trimmed
  <2>. HIDE DEF k
  <2>3. k \in 1..Len(x)
    BY <1>2, <2>1
  <2>. DEFINE t == SubSeq(x, 1, k)
  <2>4. t \in Seq(0..9) /\ Len(t) = k /\ \A i \in 1..k : t[i] = x[i]
    BY <1>1, <2>3
  <2>5. \A i \in 1..Len(x) : i > k => x[i] = 0
    <3>1. \A i \in 1..Len(x) : i > k => i \notin Significant(x)
      BY <2>1, <2>3
    <3>. QED
      BY <1>2, <3>1
  <2>. HIDE DEF t
  <2>6. Trims(t, x)
    BY <1>1, <2>3, <2>4, <2>5 DEF Trims
  <2>7. t # <<>>
    BY <2>3, <2>4
  <2>. QED
    BY <1>3, <1>5, <2>2, <2>6, <2>7 DEF t
<1>. QED
  BY <1>3, <1>4, <1>5

\* Zeros in their place are what was dropped.
LEMMA PadsBack ==
    ASSUME NEW x \in Seq(0..9), NEW t, Trims(t, x), NEW n \in Nat, Len(x) <= n
    PROVE  t \o Zeros(n - Len(t)) = x \o Zeros(n - Len(x))
<1>1. t \in Seq(0..9) /\ Len(t) \in Nat /\ Len(x) \in Nat /\ Len(t) <= Len(x)
  BY DEF Trims
<1>. DEFINE z == Zeros(n - Len(t))
            y == Zeros(n - Len(x))
<1>2. z \in Seq(0..9) /\ Len(z) = n - Len(t) /\ \A i \in 1..(n - Len(t)) : z[i] = 0
  <2>1. n - Len(t) \in Nat
    BY <1>1
  <2>. QED
    BY <2>1, ZerosAre DEF Zeros
<1>3. y \in Seq(0..9) /\ Len(y) = n - Len(x) /\ \A i \in 1..(n - Len(x)) : y[i] = 0
  <2>1. n - Len(x) \in Nat
    BY <1>1
  <2>. QED
    BY <2>1, ZerosAre DEF Zeros
<1>. HIDE DEF z, y
<1>4. t \o z \in Seq(0..9) /\ x \o y \in Seq(0..9) /\ Len(t \o z) = n /\ Len(x \o y) = n
  BY <1>1, <1>2, <1>3
<1>5. ASSUME NEW i \in 1..n
      PROVE  (t \o z)[i] = (x \o y)[i]
  <2>1. CASE i <= Len(t)
    BY <1>1, <1>2, <1>3, <2>1 DEF Trims
  <2>2. CASE i > Len(t) /\ i <= Len(x)
    <3>1. (t \o z)[i] = z[i - Len(t)] /\ i - Len(t) \in 1..(n - Len(t)) /\ (x \o y)[i] = x[i]
      BY <1>1, <1>2, <1>3, <2>2
    <3>. QED
      BY <1>2, <2>2, <3>1 DEF Trims
  <2>3. CASE i > Len(x)
    <3>1. (t \o z)[i] = z[i - Len(t)] /\ i - Len(t) \in 1..(n - Len(t))
      BY <1>1, <1>2, <2>3
    <3>2. (x \o y)[i] = y[i - Len(x)] /\ i - Len(x) \in 1..(n - Len(x))
      BY <1>1, <1>3, <2>3
    <3>. QED
      BY <1>2, <1>3, <3>1, <3>2
  <2>4. i <= Len(t) \/ (i > Len(t) /\ i <= Len(x)) \/ i > Len(x)
    BY <1>1
  <2>. QED
    BY <2>1, <2>2, <2>3, <2>4
<1>6. t \o z = x \o y
  <2>. DEFINE p == t \o z
              q == x \o y
  <2>1. p \in Seq(0..9) /\ q \in Seq(0..9) /\ Len(p) = n /\ Len(q) = n /\ \A i \in 1..n : p[i] = q[i]
    BY <1>4, <1>5
  <2>. HIDE DEF p, q
  <2>2. p = q
    BY <2>1, SameSequence
  <2>. QED
    BY <2>2 DEF p, q
<1>. QED
  BY <1>6, Zenon DEF z, y

-----------------------------------------------------------------------------
(* Amounts.                                                                *)

Places == Seq(0..9)
Texts == [whole : Nat, frac : Places]

\* The whole, and the fraction shifted to its places.
LEMMA ScaledIs ==
    ASSUME NEW a \in Texts, NEW n \in Nat, Len(a.frac) <= n
    PROVE  /\ Scaled(a, n) = a.whole * Ten(n) + Number(a.frac \o Zeros(n - Len(a.frac)))
           /\ Scaled(a, n) \in Nat
<1>. DEFINE w == a.whole
            f == a.frac
            k == n - Len(f)
            z == Zeros(k)
            d == f \o z
            one == <<w>>
<1>1. w \in Nat /\ f \in Seq(0..9) /\ k \in Nat /\ Len(f) = n - k
  BY DEF Texts, Places
<1>2. Scaled(a, n) = Number((one \o f) \o z)
  BY Zenon DEF Scaled
<1>. HIDE DEF w, f, k
<1>0. f \in Seq(Nat)
  BY <1>1
<1>9. z \in Seq(Nat) /\ Len(z) = k
  BY <1>1, ZerosAre DEF Zeros
<1>. HIDE DEF z
<1>3. d \in Seq(Nat) /\ Len(d) = n
  BY <1>0, <1>1, <1>9
<1>4. one \in Seq(Nat)
  BY <1>1
<1>5. Number(one) = w
  <2>1. one = Append(<<>>, w) /\ <<>> \in Seq(Nat)
    OBVIOUS
  <2>2. Number(Append(<<>>, w)) = 10 * Number(<<>>) + w
    BY <1>1, <2>1, NumberAppend
  <2>. HIDE DEF one
  <2>. QED
    BY <1>1, <2>1, <2>2, NumberEmpty
<1>. HIDE DEF one
<1>6. (one \o f) \o z = one \o d
  <2>1. one \in Seq(Nat) /\ f \in Seq(Nat) /\ z \in Seq(Nat)
    BY <1>0, <1>4, <1>9
  <2>2. (one \o f) \o z = one \o (f \o z)
    BY <2>1, JoinThree
  <2>. QED
    BY <2>2, Zenon
<1>. HIDE DEF d
<1>7. Number(one \o d) = Number(one) * Ten(Len(d)) + Number(d)
  BY <1>3, <1>4, NumberJoin
<1>8. Number(d) \in Nat /\ w * Ten(n) \in Nat
  <2>1. Ten(n) \in Nat /\ Number(d) \in Nat
    BY <1>3, NumberNatural, TenPositive
  <2>. QED
    BY <1>1, <2>1
<1>10. Scaled(a, n) = w * Ten(n) + Number(d) /\ Scaled(a, n) \in Nat
  BY <1>2, <1>3, <1>5, <1>6, <1>7, <1>8
<1>. QED
  BY <1>10 DEF w, d, z, f, k

\* What a row says is what the chain asks.
LEMMA UnitsBack ==
    ASSUME Decimals \in Nat, NEW u \in Nat
    PROVE  LET a == FromBaseUnits(u) IN
           /\ a \in Texts /\ Len(a.frac) <= Decimals
           /\ Scaled(a, Decimals) = u
<1>. DEFINE a == FromBaseUnits(u)
            d == DigitsOf(u % Unit, Decimals)
<1>1. Unit \in Nat /\ Unit > 0 /\ Unit = Ten(Decimals)
  BY TenPositive DEF Unit
<1>2. u \div Unit \in Nat /\ u % Unit \in Nat /\ u % Unit < Unit /\ u = (u \div Unit) * Unit + (u % Unit)
  BY <1>1, Divides
<1>3. d \in Seq(0..9) /\ Len(d) = Decimals /\ Number(d) = u % Unit
  BY <1>1, <1>2, DigitsAre, DigitsRead
<1>4. a.whole = u \div Unit /\ a.frac = Trimmed(d)
  BY DEF FromBaseUnits
<1>5. a = [whole |-> u \div Unit, frac |-> Trimmed(d)]
  BY DEF FromBaseUnits
<1>. HIDE DEF d, a
<1>6. Trims(Trimmed(d), d)
  BY <1>3, TrimmedTrims
<1>7. a \in Texts /\ Len(a.frac) <= Decimals
  BY <1>2, <1>3, <1>4, <1>5, <1>6 DEF Trims, Texts, Places
<1>8. a.frac \o Zeros(Decimals - Len(a.frac)) = d \o Zeros(Decimals - Len(d))
  <2>. DEFINE t == Trimmed(d)
  <2>. HIDE DEF t
  <2>1. t \o Zeros(Decimals - Len(t)) = d \o Zeros(Decimals - Len(d))
    <3>1. Trims(t, d)
      BY <1>6, Zenon DEF t
    <3>2. d \in Seq(0..9) /\ Decimals \in Nat /\ Len(d) <= Decimals
      BY <1>3
    <3>. QED
      BY <3>1, <3>2, PadsBack
  <2>2. a.frac = t
    BY <1>4 DEF t
  <2>. QED
    BY <2>1, <2>2, Zenon
<1>9. d \o Zeros(Decimals - Len(d)) = d
  <2>1. Decimals - Len(d) = 0
    BY <1>3
  <2>2. Zeros(0) = <<>>
    BY DEF Zeros
  <2>. QED
    BY <1>3, <2>1, <2>2
<1>10. Scaled(a, Decimals) = a.whole * Ten(Decimals) + Number(d)
  BY <1>7, <1>8, <1>9, ScaledIs
<1>11. Scaled(a, Decimals) = u
  BY <1>1, <1>2, <1>3, <1>4, <1>10
<1>. QED
  BY <1>7, <1>11 DEF a

\* A fraction, cut in two.
LEMMA Splits ==
    ASSUME NEW f \in Places, NEW c \in 0..Len(f)
    PROVE  LET head == SubSeq(f, 1, c)
               tail == SubSeq(f, c + 1, Len(f))
           IN  /\ head \in Seq(0..9) /\ Len(head) = c /\ \A i \in 1..c : head[i] = f[i]
               /\ tail \in Seq(0..9) /\ Len(tail) = Len(f) - c
               /\ \A i \in 1..(Len(f) - c) : tail[i] = f[c + i]
               /\ f = head \o tail
<1>. DEFINE head == SubSeq(f, 1, c)
            tail == SubSeq(f, c + 1, Len(f))
<1>1. f \in Seq(0..9) /\ Len(f) \in Nat /\ c \in Nat /\ c <= Len(f)
  BY DEF Places
<1>2. head \in Seq(0..9) /\ Len(head) = c /\ \A i \in 1..c : head[i] = f[i]
  BY <1>1
<1>3. tail \in Seq(0..9) /\ Len(tail) = Len(f) - c /\ \A i \in 1..(Len(f) - c) : tail[i] = f[c + i]
  BY <1>1
<1>. HIDE DEF head, tail
<1>4. f = head \o tail
  <2>. DEFINE g == head \o tail
  <2>1. g \in Seq(0..9) /\ Len(g) = Len(f)
    <3>1. g \in Seq(0..9) /\ Len(g) = Len(head) + Len(tail)
      BY <1>2, <1>3, JoinIs
    <3>. HIDE DEF g
    <3>. QED
      BY <1>1, <1>2, <1>3, <3>1
  <2>2. ASSUME NEW i \in 1..Len(f)
        PROVE  g[i] = f[i]
    <3>1. CASE i <= c
      BY <1>1, <1>2, <1>3, <3>1
    <3>2. CASE i > c
      <4>1. i - c \in 1..(Len(f) - c) /\ c + (i - c) = i
        BY <1>1, <3>2
      <4>2. g[i] = tail[i - c]
        BY <1>1, <1>2, <1>3, <3>2
      <4>. QED
        BY <1>3, <4>1, <4>2
    <3>3. i <= c \/ i > c
      BY <1>1
    <3>. QED
      BY <3>1, <3>2, <3>3
  <2>. HIDE DEF g
  <2>3. g = f
    BY <1>1, <2>1, <2>2, SameSequence
  <2>. QED
    BY <2>3 DEF g
<1>. QED
  BY <1>2, <1>3, <1>4 DEF head, tail

LEMMA Padding ==
    ASSUME NEW n \in Nat
    PROVE  Zeros(n) \in Seq(0..9) /\ Zeros(n) \in Seq(Nat) /\ Len(Zeros(n)) = n /\ Blank(Zeros(n))
<1>1. Zeros(n) \in Seq(0..9) /\ Zeros(n) \in Seq(Nat) /\ Len(Zeros(n)) = n
  BY ZerosAre DEF Zeros
<1>2. \A i \in 1..n : Zeros(n)[i] = 0
  BY DEF Zeros
<1>. QED
  BY <1>1, <1>2 DEF Blank

\* A fraction cut after some of its digits.
LEMMA CutShort ==
    ASSUME NEW a \in Texts, NEW n \in Nat, Len(a.frac) <= n, NEW c \in 0..Len(a.frac),
           NEW b \in Texts, b.whole = a.whole, b.frac = SubSeq(a.frac, 1, c)
    PROVE  /\ Scaled(a, n) \in Nat /\ Scaled(b, n) \in Nat
           /\ Scaled(b, n) <= Scaled(a, n) /\ Scaled(a, n) - Scaled(b, n) < Ten(n - c)
           /\ (\E i \in 1..c : a.frac[i] # 0) => Scaled(b, n) > 0
           /\ (\A i \in 1..Len(a.frac) : i > c => a.frac[i] = 0) => Scaled(b, n) = Scaled(a, n)
<1>. DEFINE f == a.frac
            head == SubSeq(f, 1, c)
            tail == SubSeq(f, c + 1, Len(f))
            z == Zeros(n - Len(f))
            y == Zeros(n - c)
            rest == tail \o z
<1>1. f \in Places /\ Len(f) \in Nat /\ Len(f) <= n /\ c \in 0..Len(f) /\ n - Len(f) \in Nat /\ n - c \in Nat
  BY DEF Texts, Places
<1>2. Scaled(a, n) = a.whole * Ten(n) + Number(f \o z) /\ Scaled(a, n) \in Nat
  BY ScaledIs
<1>3. Len(b.frac) = c
  BY <1>1, Splits
<1>4. Scaled(b, n) = a.whole * Ten(n) + Number(head \o y) /\ Scaled(b, n) \in Nat
  <2>1. Len(b.frac) <= n
    BY <1>1, <1>3
  <2>2. /\ Scaled(b, n) = b.whole * Ten(n) + Number(b.frac \o Zeros(n - Len(b.frac)))
        /\ Scaled(b, n) \in Nat
    BY <2>1, ScaledIs
  <2>3. b.frac = head /\ Zeros(n - Len(b.frac)) = y
    BY <1>3
  <2>. HIDE DEF head, y
  <2>. QED
    BY <2>2, <2>3
<1>. HIDE DEF f
<1>5. /\ head \in Seq(0..9) /\ Len(head) = c /\ \A i \in 1..c : head[i] = f[i]
      /\ tail \in Seq(0..9) /\ Len(tail) = Len(f) - c
      /\ \A i \in 1..(Len(f) - c) : tail[i] = f[c + i]
      /\ f = head \o tail
  BY <1>1, Splits
<1>6. z \in Seq(0..9) /\ Len(z) = n - Len(f) /\ Blank(z) /\ y \in Seq(0..9) /\ Len(y) = n - c /\ Blank(y)
  BY <1>1, Padding
<1>. HIDE DEF head, tail, z, y
<1>7. head \in Seq(Nat) /\ tail \in Seq(Nat) /\ z \in Seq(Nat) /\ y \in Seq(Nat)
  BY <1>5, <1>6, DigitsNatural
<1>8. rest \in Seq(0..9) /\ rest \in Seq(Nat) /\ Len(rest) = n - c
  <2>1. rest \in Seq(0..9) /\ Len(rest) = Len(tail) + Len(z)
    BY <1>5, <1>6, JoinIs
  <2>. HIDE DEF rest
  <2>2. rest \in Seq(Nat)
    BY <2>1, DigitsNatural
  <2>3. (Len(f) - c) + (n - Len(f)) = n - c
    BY <1>1
  <2>. QED
    BY <1>5, <1>6, <2>1, <2>2, <2>3
<1>9. f \o z = head \o rest
  BY <1>5, <1>7, JoinThree
<1>. HIDE DEF rest
<1>10. Number(f \o z) = Number(head) * Ten(n - c) + Number(rest)
  BY <1>7, <1>8, <1>9, NumberJoin
<1>11. Number(head \o y) = Number(head) * Ten(n - c) + Number(y)
  BY <1>6, <1>7, NumberJoin
<1>12. Number(y) = 0
  BY <1>6, NumberBelow
<1>13. Number(rest) \in Nat /\ Number(rest) < Ten(n - c)
  BY <1>8, NumberBelow
<1>14. Ten(n) \in Nat /\ Ten(n - c) \in Nat /\ Ten(n - c) > 0 /\ Number(head) \in Nat /\ a.whole \in Nat
  <2>1. n \in Int /\ n - c \in Int
    BY <1>1
  <2>2. Number(head) \in Nat
    BY <1>7, NumberNatural
  <2>3. a.whole \in Nat
    BY DEF Texts
  <2>. QED
    BY <2>1, <2>2, <2>3, TenPositive
<1>. DEFINE w == a.whole * Ten(n)
            h == Number(head) * Ten(n - c)
<1>15. w \in Nat /\ h \in Nat
  BY <1>14
<1>16. Scaled(a, n) = w + (h + Number(rest)) /\ Scaled(b, n) = w + h
  <2>1. Scaled(b, n) = w + (h + 0)
    BY <1>4, <1>11, <1>12
  <2>2. Scaled(a, n) = w + (h + Number(rest))
    BY <1>2, <1>10
  <2>. HIDE DEF w, h
  <2>. QED
    BY <1>15, <2>1, <2>2
<1>17. (\E i \in 1..c : f[i] # 0) => h > 0
  <2>1. SUFFICES ASSUME NEW i \in 1..c, f[i] # 0
                 PROVE  h > 0
    OBVIOUS
  <2>2. ~Blank(head)
    BY <1>5, <2>1 DEF Blank
  <2>3. Number(head) > 0
    BY <1>5, <1>14, <2>2, NumberBelow
  <2>. QED
    BY <1>14, <2>3
<1>18. (\A i \in 1..Len(f) : i > c => f[i] = 0) => Number(rest) = 0
  <2>1. SUFFICES ASSUME \A i \in 1..Len(f) : i > c => f[i] = 0
                 PROVE  Number(rest) = 0
    OBVIOUS
  <2>2. \A i \in 1..Len(tail) : tail[i] = 0
    BY <1>1, <1>5, <2>1
  <2>3. Blank(rest)
    BY <1>1, <1>5, <1>6, <2>2 DEF Blank, rest
  <2>. QED
    BY <1>8, <2>3, NumberBelow
<1>. HIDE DEF w, h
<1>19. /\ Scaled(b, n) <= Scaled(a, n) /\ Scaled(a, n) - Scaled(b, n) < Ten(n - c)
       /\ h > 0 => Scaled(b, n) > 0
       /\ Number(rest) = 0 => Scaled(b, n) = Scaled(a, n)
  BY <1>13, <1>14, <1>15, <1>16
<1>. QED
  BY <1>2, <1>4, <1>17, <1>18, <1>19 DEF f

\* Zeros dropped at its end do not change an amount.
LEMMA TrimmedSame ==
    ASSUME NEW a \in Texts, NEW n \in Nat, NEW b \in Texts, b.whole = a.whole, b.frac = Trimmed(a.frac),
           Len(a.frac) <= n
    PROVE  Scaled(b, n) = Scaled(a, n) /\ Len(b.frac) <= Len(a.frac)
<1>1. a.frac \in Seq(0..9) /\ Len(a.frac) \in Nat
  BY DEF Texts, Places
<1>2. Trims(b.frac, a.frac)
  BY <1>1, TrimmedTrims
<1>3. Len(b.frac) <= Len(a.frac) /\ Len(b.frac) \in Nat
  BY <1>2 DEF Trims
<1>4. b.frac \o Zeros(n - Len(b.frac)) = a.frac \o Zeros(n - Len(a.frac))
  <2>. DEFINE t == b.frac
              x == a.frac
  <2>1. Trims(t, x) /\ x \in Seq(0..9) /\ Len(x) <= n
    BY <1>1, <1>2
  <2>. HIDE DEF t, x
  <2>2. t \o Zeros(n - Len(t)) = x \o Zeros(n - Len(x))
    BY <2>1, PadsBack
  <2>. QED
    BY <2>2 DEF t, x
<1>5. Scaled(a, n) = a.whole * Ten(n) + Number(a.frac \o Zeros(n - Len(a.frac)))
  BY ScaledIs
<1>6. Scaled(b, n) = b.whole * Ten(n) + Number(b.frac \o Zeros(n - Len(b.frac)))
  <2>1. Len(b.frac) <= n
    BY <1>1, <1>3
  <2>. QED
    BY <2>1, ScaledIs
<1>. QED
  BY <1>3, <1>4, <1>5, <1>6

LEMMA NothingScaled == ASSUME Decimals \in Nat PROVE Scaled(Zero, Decimals) = 0
<1>. DEFINE n == Decimals
            z == Zeros(n)
<1>1. Zero \in Texts /\ Zero.whole = 0 /\ Zero.frac = <<>> /\ Len(Zero.frac) = 0
  BY DEF Zero, Texts, Places
<1>2. Scaled(Zero, n) = Zero.whole * Ten(n) + Number(Zero.frac \o Zeros(n - Len(Zero.frac)))
  <2>1. n \in Nat /\ Len(Zero.frac) <= n
    BY <1>1
  <2>. HIDE DEF n
  <2>. QED
    BY <1>1, <2>1, ScaledIs
<1>3. Number(<<>> \o z) = 0
  <2>1. z \in Seq(0..9) /\ Blank(z)
    BY Padding
  <2>. HIDE DEF z
  <2>2. <<>> \o z = z
    BY <2>1
  <2>. QED
    BY <2>1, <2>2, NumberBelow
<1>4. Ten(n) \in Nat
  BY TenPositive
<1>5. n - Len(Zero.frac) = n
  BY <1>1
<1>. QED
  BY <1>1, <1>2, <1>3, <1>4, <1>5

LEMMA SameText ==
    ASSUME NEW n, NEW a, NEW b, a.whole = b.whole, a.frac = b.frac
    PROVE  Scaled(a, n) = Scaled(b, n)
  BY Zenon DEF Scaled

\* What is on the page is never above the price, never nothing, and short of it by
\* less than one of its last digit.
LEMMA FormatKeeps ==
    ASSUME Decimals \in Nat, Kept \in Nat, NEW a \in Texts, Len(a.frac) <= Decimals,
           Scaled(a, Decimals) > 0,
           NEW shown, shown.whole = a.whole, shown.frac = Shortened(a.frac)
    PROVE  LET s == Scaled(shown, Decimals)
               last == IF Len(shown.frac) < Kept THEN Kept ELSE Len(shown.frac)
           IN  0 < s /\ s <= Scaled(a, Decimals) /\ Scaled(a, Decimals) - s < Ten(Decimals - last)
<1>. DEFINE f == a.frac
            c == IF Len(f) < Kept THEN Len(f) ELSE Kept
            x == SubSeq(f, 1, c)
            cut == Trimmed(x)
            v == Scaled(a, Decimals)
            k == FirstOf(Significant(f))
<1>1. f \in Places /\ f \in Seq(0..9) /\ Len(f) \in Nat /\ Len(f) <= Decimals /\ a.whole \in Nat
  BY DEF Texts, Places
<1>2. shown.frac = IF cut = <<>> /\ Significant(f) # {} THEN SubSeq(f, 1, k) ELSE cut
  BY Zenon DEF Shortened
<1>. HIDE DEF f, v
<1>3. c \in 0..Len(f) /\ c <= Kept /\ (c = Kept \/ c = Len(f))
  BY <1>1
<1>. HIDE DEF c
<1>4. x \in Seq(0..9) /\ Len(x) = c /\ \A i \in 1..c : x[i] = f[i]
  BY <1>1, <1>3, Splits
<1>. HIDE DEF x
<1>5. Trims(cut, x) /\ (cut = <<>> <=> Blank(x)) /\ (Significant(f) = {} <=> Blank(f))
  BY <1>1, <1>4, TrimmedTrims
<1>6. cut \in Seq(0..9) /\ Len(cut) \in Nat /\ Len(cut) <= c
  BY <1>4, <1>5 DEF Trims
<1>. DEFINE b == [whole |-> a.whole, frac |-> x]
            e == [whole |-> a.whole, frac |-> cut]
<1>. HIDE DEF cut
<1>7. b \in Texts /\ b.whole = a.whole /\ b.frac = x
  BY <1>1, <1>4 DEF Texts, Places
<1>8. e \in Texts /\ e.whole = a.whole /\ e.frac = cut
  BY <1>1, <1>6 DEF Texts, Places
<1>. HIDE DEF b, e
<1>9. /\ v \in Nat /\ Scaled(b, Decimals) \in Nat
      /\ Scaled(b, Decimals) <= v /\ v - Scaled(b, Decimals) < Ten(Decimals - c)
      /\ (\E i \in 1..c : f[i] # 0) => Scaled(b, Decimals) > 0
      /\ (\A i \in 1..Len(f) : i > c => f[i] = 0) => Scaled(b, Decimals) = v
  BY <1>3, <1>7, CutShort DEF f, v, x
<1>10. Scaled(e, Decimals) = Scaled(b, Decimals)
  <2>1. Len(b.frac) <= Decimals
    BY <1>1, <1>3, <1>4, <1>7
  <2>. QED
    BY <1>7, <1>8, <2>1, TrimmedSame DEF cut
<1>11. v > 0
  BY DEF v
<1>12. Ten(Decimals - Kept) \in Nat /\ Ten(Decimals - Kept) > 0
  <2>1. Decimals - Kept \in Int
    OBVIOUS
  <2>. QED
    BY <2>1, TenPositive
<1>13. CASE ~(cut = <<>> /\ Significant(f) # {})
  <2>1. shown.frac = cut /\ Scaled(shown, Decimals) = Scaled(e, Decimals)
    <3>1. shown.frac = cut
      BY <1>2, <1>13, Zenon
    <3>. QED
      BY <1>8, <3>1, SameText
  <2>2. (IF Len(shown.frac) < Kept THEN Kept ELSE Len(shown.frac)) = Kept
    BY <1>1, <1>3, <1>6, <1>8, <2>1
  <2>3. v - Scaled(b, Decimals) < Ten(Decimals - Kept)
    <3>1. CASE c = Kept
      BY <1>9, <3>1
    <3>2. CASE c = Len(f)
      <4>1. \A i \in 1..Len(f) : ~(i > c)
        BY <1>1, <3>2
      <4>2. Scaled(b, Decimals) = v
        BY <1>9, <4>1
      <4>. QED
        BY <1>9, <1>12, <4>2
    <3>. QED
      BY <1>3, <3>1, <3>2
  <2>4. Scaled(b, Decimals) > 0
    <3>1. CASE cut # <<>>
      <4>1. \E i \in 1..c : f[i] # 0
        BY <1>4, <1>5, <3>1 DEF Blank
      <4>. QED
        BY <1>9, <4>1
    <3>2. CASE Significant(f) = {}
      <4>1. \A i \in 1..Len(f) : f[i] = 0
        BY <1>5, <3>2 DEF Blank
      <4>2. Scaled(b, Decimals) = v
        BY <1>9, <4>1
      <4>. QED
        BY <1>11, <4>2
    <3>. QED
      BY <1>13, <3>1, <3>2
  <2>. QED
    BY <1>9, <1>10, <2>1, <2>2, <2>3, <2>4 DEF v
<1>14. CASE cut = <<>> /\ Significant(f) # {}
  <2>1. k \in Significant(f)
    <3>1. Significant(f) \in SUBSET Nat
      BY <1>1 DEF Significant
    <3>. QED
      BY <1>14, <3>1, FirstIs
  <2>2. k \in 1..Len(f) /\ f[k] # 0
    BY <1>1, <2>1 DEF Significant
  <2>. HIDE DEF k
  <2>3. ~(k <= c)
    <3>1. \A i \in 1..c : f[i] = 0
      BY <1>4, <1>5, <1>14 DEF Blank
    <3>. QED
      BY <2>2, <3>1
  <2>4. Kept <= k
    BY <1>1, <1>3, <2>2, <2>3
  <2>. DEFINE y == SubSeq(f, 1, k)
              g == [whole |-> a.whole, frac |-> y]
  <2>5. y \in Seq(0..9) /\ Len(y) = k
    BY <1>1, <2>2, Splits
  <2>6. g \in Texts /\ g.whole = a.whole /\ g.frac = y
    BY <1>1, <2>5 DEF Texts, Places
  <2>7. shown.frac = y /\ Scaled(shown, Decimals) = Scaled(g, Decimals)
    <3>1. shown.frac = y
      BY <1>2, <1>14, Zenon DEF k
    <3>. QED
      BY <2>6, <3>1, SameText
  <2>. HIDE DEF g
  <2>8. /\ Scaled(g, Decimals) \in Nat
        /\ Scaled(g, Decimals) <= v /\ v - Scaled(g, Decimals) < Ten(Decimals - k)
        /\ (\E i \in 1..k : f[i] # 0) => Scaled(g, Decimals) > 0
    <3>1. k \in 0..Len(f)
      BY <2>2
    <3>. QED
      BY <2>6, <3>1, CutShort DEF f, v
  <2>9. \E i \in 1..k : f[i] # 0
    BY <2>2
  <2>10. (IF Len(shown.frac) < Kept THEN Kept ELSE Len(shown.frac)) = k
    BY <2>2, <2>4, <2>5, <2>6, <2>7
  <2>. QED
    BY <2>7, <2>8, <2>9, <2>10 DEF v
<1>. QED
  BY <1>13, <1>14

\* A price with a digit before the exponents begin is written without one.
LEMMA WrittenPlainly ==
    ASSUME Decimals \in Nat, Exponential \in Nat \ {0}, NEW a \in Texts, Len(a.frac) <= Decimals,
           Scaled(a, Decimals) >= Ten(Decimals - Exponential + 1)
    PROVE  DecimalText(a) = [whole |-> a.whole, frac |-> a.frac, exp |-> 0]
<1>. DEFINE f == a.frac
            first == FirstOf(Significant(f))
            c == IF Len(f) < Exponential - 1 THEN Len(f) ELSE Exponential - 1
            x == SubSeq(f, 1, c)
            b == [whole |-> a.whole, frac |-> x]
            v == Scaled(a, Decimals)
<1>1. f \in Places /\ f \in Seq(0..9) /\ Len(f) \in Nat /\ Len(f) <= Decimals /\ a.whole \in Nat
  BY DEF Texts, Places
<1>2. SUFFICES ASSUME a.whole = 0, Significant(f) # {}, first >= Exponential
               PROVE  FALSE
  BY Zenon DEF DecimalText
<1>3. first \in Significant(f) /\ \A j \in Significant(f) : first <= j
  <2>1. Significant(f) \in SUBSET Nat
    BY <1>1 DEF Significant
  <2>. HIDE DEF f
  <2>. QED
    BY <1>2, <2>1, FirstIs
<1>. HIDE DEF first
<1>4. first \in 1..Len(f) /\ \A j \in 1..Len(f) : f[j] # 0 => first <= j
  BY <1>1, <1>3 DEF Significant
<1>. HIDE DEF f
<1>5. c = Exponential - 1 /\ c \in 0..Len(f) /\ \A j \in 1..c : f[j] = 0
  <2>1. ~(Len(f) < Exponential - 1)
    BY <1>1, <1>2, <1>4
  <2>2. c = Exponential - 1
    BY <2>1
  <2>. HIDE DEF c
  <2>3. c \in 0..Len(f)
    BY <1>1, <2>1, <2>2
  <2>4. ASSUME NEW j \in 1..c, f[j] # 0
        PROVE  FALSE
    <3>1. j \in 1..Len(f) /\ ~(first <= j)
      BY <1>1, <1>2, <1>4, <2>2, <2>3
    <3>. QED
      BY <1>4, <2>4, <3>1
  <2>. QED
    BY <2>2, <2>3, <2>4
<1>. HIDE DEF c
<1>6. x \in Seq(0..9) /\ Len(x) = c /\ \A j \in 1..c : x[j] = f[j]
  BY <1>1, <1>5, Splits
<1>. HIDE DEF x
<1>7. b \in Texts /\ b.whole = a.whole /\ b.frac = x
  BY <1>1, <1>6 DEF Texts, Places
<1>. HIDE DEF b
<1>8. Scaled(b, Decimals) = 0
  <2>. DEFINE e == Zero
  <2>1. Trimmed(x) = <<>>
    <3>1. Significant(x) = {}
      BY <1>5, <1>6 DEF Significant
    <3>. QED
      BY <3>1 DEF Trimmed
  <2>2. e \in Texts /\ e.whole = b.whole /\ e.frac = Trimmed(b.frac)
    BY <1>2, <1>7, <2>1 DEF Zero, Texts, Places
  <2>3. Len(b.frac) <= Decimals
    BY <1>1, <1>5, <1>6, <1>7
  <2>4. Scaled(e, Decimals) = Scaled(b, Decimals)
    <3>. HIDE DEF e
    <3>. QED
      BY <1>7, <2>2, <2>3, TrimmedSame
  <2>5. Scaled(e, Decimals) = 0
    BY NothingScaled
  <2>. QED
    BY <2>4, <2>5
<1>9. v \in Nat /\ v - Scaled(b, Decimals) < Ten(Decimals - c)
  BY <1>5, <1>7, <1>1, CutShort DEF f, x
<1>10. v >= Ten(Decimals - Exponential + 1) /\ Decimals - c = Decimals - Exponential + 1
  BY <1>5
<1>11. Ten(Decimals - c) \in Nat
  BY <1>1, <1>5, TenPositive
<1>. HIDE DEF v
<1>. QED
  BY <1>8, <1>9, <1>10, <1>11

\* And of such a price the page cuts nothing but digits.
LEMMA FormatIs ==
    ASSUME Kept \in Nat, NEW a \in Texts, NEW d,
           d = [whole |-> a.whole, frac |-> a.frac, exp |-> 0]
    PROVE  FormatPrice(d).whole = a.whole /\ FormatPrice(d).frac = Shortened(a.frac)
<1>1. d.whole = a.whole /\ d.frac = a.frac /\ d.exp = 0
  OBVIOUS
<1>2. a.frac \in Seq(0..9)
  BY DEF Texts, Places
<1>3. a.frac \o Exponent(d.exp) = a.frac
  BY <1>1, <1>2 DEF Exponent
<1>4. CASE a.frac = <<>>
  <2>1. FormatPrice(d) = d
    BY <1>1, <1>4 DEF FormatPrice
  <2>2. Shortened(<<>>) = <<>>
    <3>1. Significant(<<>>) = {} /\ SubSeq(<<>>, 1, 0) = <<>> /\ Len(<<>>) = 0
      BY DEF Significant
    <3>2. Trimmed(<<>>) = <<>>
      BY <3>1 DEF Trimmed
    <3>3. (IF Len(<<>>) < Kept THEN Len(<<>>) ELSE Kept) = 0
      BY <3>1
    <3>. QED
      BY <3>1, <3>2, <3>3 DEF Shortened
  <2>. QED
    BY <1>1, <1>4, <2>1, <2>2
<1>5. CASE a.frac # <<>>
  <2>. DEFINE cut == Shortened(a.frac)
  <2>1. FormatPrice(d) = [whole |-> a.whole, frac |-> cut, exp |-> 0]
    BY <1>1, <1>3, <1>5 DEF FormatPrice
  <2>. HIDE DEF cut
  <2>2. FormatPrice(d).whole = a.whole /\ FormatPrice(d).frac = cut
    BY <2>1
  <2>. QED
    BY <2>2 DEF cut
<1>. QED
  BY <1>4, <1>5

-----------------------------------------------------------------------------
(* What is typed finer than a unit is rounded to the nearest.              *)

\* Rounding by the first digit left out is to the nearest.
LEMMA NearestUnit ==
    ASSUME NEW t \in Nat, NEW d \in 0..9, NEW e \in Nat, e < t, NEW m \in Nat, m = 10 * t,
           NEW bit \in {0, 1}, bit = 1 <=> d >= 5
    PROVE  2 * (bit * m - (d * t + e)) <= m /\ -(2 * (bit * m - (d * t + e))) <= m
<1>1. d \in {0, 1, 2, 3, 4, 5, 6, 7, 8, 9}
  OBVIOUS
<1>. QED
  BY <1>1

\* parseUnits, of what is finer than a unit.
LEMMA RoundedRight ==
    ASSUME Decimals \in Nat, NEW a \in Texts, TooFine(a)
    PROVE  LET fine == Len(a.frac)
               unit == Ten(fine - Decimals)
               off == 2 * (ParseUnits(a) * unit - Scaled(a, fine))
           IN  ParseUnits(a) \in Nat /\ off <= unit /\ -off <= unit
<1>. DEFINE f == a.frac
            n == Decimals
            fine == Len(f)
            one == <<a.whole>>
            head == SubSeq(f, 1, n)
            tail == SubSeq(f, n + 1, fine)
            p == one \o head
            bit == IF f[n + 1] >= 5 THEN 1 ELSE 0
            d == f[n + 1]
            m == Ten(fine - n)
            t == Ten((fine - n) - 1)
<1>1. f \in Places /\ f \in Seq(0..9) /\ fine \in Nat /\ n \in Nat /\ n < fine /\ a.whole \in Nat /\ n \in 0..fine
  BY DEF Texts, Places, TooFine
<1>2. ParseUnits(a) = Number(p) + bit
  BY Zenon DEF ParseUnits
<1>3. Scaled(a, fine) = Number((one \o f) \o Zeros(0))
  <2>1. fine - Len(a.frac) = 0
    BY <1>1
  <2>. QED
    BY <2>1 DEF Scaled
<1>. HIDE DEF f
<1>4. /\ head \in Seq(0..9) /\ tail \in Seq(0..9) /\ Len(tail) = fine - n /\ f = head \o tail
      /\ \A i \in 1..(fine - n) : tail[i] = f[n + i]
  BY <1>1, Splits
<1>. HIDE DEF head, tail
<1>5. one \in Seq(Nat) /\ head \in Seq(Nat) /\ tail \in Seq(Nat)
  BY <1>1, <1>4, DigitsNatural
<1>. HIDE DEF one
<1>6. p \in Seq(Nat)
  BY <1>5
<1>7. (one \o f) \o Zeros(0) = p \o tail
  <2>1. Zeros(0) = <<>>
    BY DEF Zeros
  <2>2. one \o f = p \o tail
    BY <1>4, <1>5, JoinThree
  <2>3. p \o tail \in Seq(Nat)
    BY <1>5, <1>6
  <2>. DEFINE q == p \o tail
  <2>. HIDE DEF q
  <2>4. q \o <<>> = q
    BY <2>3, JoinNothing DEF q
  <2>. QED
    BY <2>1, <2>2, <2>4 DEF q
<1>. HIDE DEF p
<1>8. Scaled(a, fine) = Number(p) * m + Number(tail)
  BY <1>3, <1>4, <1>5, <1>6, <1>7, NumberJoin
<1>9. d \in 0..9 /\ bit \in {0, 1} /\ (bit = 1 <=> d >= 5)
  BY <1>1
<1>10. PICK e \in Nat : Number(tail) = d * t + e /\ e < t
  <2>. DEFINE r == SubSeq(tail, 1 + 1, Len(tail))
              l == SubSeq(tail, 1, 1)
  <2>1. tail \in Places /\ 1 \in 0..Len(tail) /\ 1 \in 1..(fine - n)
    BY <1>1, <1>4 DEF Places
  <2>2. /\ l \in Seq(0..9) /\ Len(l) = 1 /\ l[1] = tail[1]
        /\ r \in Seq(0..9) /\ Len(r) = Len(tail) - 1 /\ tail = l \o r
    <3>1. 1 \in 1..1 /\ Len(tail) \in Nat
      BY <2>1 DEF Places
    <3>. QED
      BY <2>1, <3>1, Splits
  <2>3. tail[1] = d
    BY <1>4, <2>1
  <2>. HIDE DEF l, r
  <2>4. l \in Seq(Nat) /\ r \in Seq(Nat)
    BY <2>2, DigitsNatural
  <2>5. Number(tail) = Number(l) * Ten(Len(r)) + Number(r)
    BY <2>2, <2>4, NumberJoin
  <2>6. Number(l) = d
    <3>1. l = Append(<<>>, d)
      BY <1>9, <2>2, <2>3
    <3>2. <<>> \in Seq(Nat) /\ d \in Nat
      BY <1>9
    <3>3. Number(Append(<<>>, d)) = 10 * Number(<<>>) + d
      BY <3>2, NumberAppend
    <3>. HIDE DEF d
    <3>. QED
      BY <3>1, <3>2, <3>3, NumberEmpty
  <2>7. Number(r) \in Nat /\ Number(r) < Ten(Len(r))
    BY <2>2, NumberBelow
  <2>8. Ten(Len(r)) = t
    BY <1>4, <2>2
  <2>. QED
    BY <2>5, <2>6, <2>7, <2>8
<1>11. m = 10 * t /\ t \in Nat /\ m \in Nat
  <2>1. (fine - n) - 1 \in Nat /\ ((fine - n) - 1) + 1 = fine - n
    BY <1>1
  <2>2. Ten(((fine - n) - 1) + 1) = 10 * t /\ t \in Nat
    BY <2>1, TenStep
  <2>. QED
    BY <2>1, <2>2
<1>12. Number(p) \in Nat
  BY <1>6, NumberNatural
<1>. HIDE DEF m, t, d, bit
<1>13. 2 * (bit * m - (d * t + e)) <= m /\ -(2 * (bit * m - (d * t + e))) <= m
  BY <1>9, <1>10, <1>11, NearestUnit
<1>14. (Number(p) + bit) * m - (Number(p) * m + (d * t + e)) = bit * m - (d * t + e)
  BY <1>9, <1>11, <1>12
<1>15. ParseUnits(a) \in Nat
  BY <1>2, <1>9, <1>12
<1>16. ParseUnits(a) * m - Scaled(a, fine) = bit * m - (d * t + e)
  BY <1>2, <1>8, <1>10, <1>14
<1>. QED
  BY <1>13, <1>15, <1>16 DEF f, m

-----------------------------------------------------------------------------
(* Prices, from the text to the row.                                       *)

\* What a listing asks is what was typed for it.
Quoted(where, text, units) ==
    /\ text \in Texts /\ units \in Nat \ {0}
    /\ IF TooFine(text) THEN where = "ETHEREUM" /\ units = ParseUnits(text) ELSE units = ParseDecimal(text)

Operations == {"buy", "cancel", "list", "burn"}

QuotedBy(where, x) ==
    /\ x.text \in Texts /\ (x.step # "none" => x.op \in Operations)
    /\ x.op = "list" /\ x.step \in {"approve", "sign"} => Quoted(where, x.text, x.units)

Lists(where, L, i) == i \in DOMAIN L /\ L[i].op = "list" /\ Quoted(where, L[i].text, L[i].units)

\* A listing of the row shows what a transaction asked.
Priced(where, L, l) ==
    /\ DOMAIN l = {"seller", "lot", "price", "active"}
    /\ Lists(where, L, l.lot)
    /\ l.price = FromBaseUnits(L[l.lot].units)

IsShelf(s) == s \in Seq({s[i] : i \in DOMAIN s})

PriceInv ==
    /\ net \in {"SOLANA", "ETHEREUM"}
    /\ \A p \in People : QuotedBy(net, page[p])
    /\ \A i \in DOMAIN ledger : ledger[i].op \in Operations /\ (ledger[i].op = "list" => Lists(net, ledger, i))
    /\ token.ask # 0 => Lists(net, ledger, token.ask)
    /\ IsShelf(row.shelf) /\ \A i \in DOMAIN row.shelf : Priced(net, ledger, row.shelf[i])

LEMMA Counted ==
    ASSUME NEW s, NEW n \in Nat, s = [i \in 1..n |-> s[i]]
    PROVE  IsShelf(s)
<1>. DEFINE R == {s[i] : i \in DOMAIN s}
<1>1. \A i \in 1..n : s[i] \in R
  OBVIOUS
<1>. HIDE DEF R
<1>2. s \in Seq(R)
  BY <1>1
<1>. QED
  BY <1>2 DEF R, IsShelf

LEMMA Counts ==
    ASSUME NEW s, IsShelf(s)
    PROVE  Len(s) \in Nat /\ DOMAIN s = 1..Len(s) /\ s = [i \in 1..Len(s) |-> s[i]]
<1>. DEFINE R == {s[i] : i \in DOMAIN s}
<1>1. s \in Seq(R)
  BY DEF IsShelf
<1>. HIDE DEF R
<1>. QED
  BY <1>1

LEMMA PriceInitSound == ASSUME DetailInit, DetailAssumption PROVE PriceInv
<1>1. Zero \in Texts
  BY DEF Zero, Texts, Places
<1>2. IsShelf(<<>>)
  BY DEF IsShelf
<1>3. \A p \in People : page[p].text = Zero /\ page[p].step = "none"
  BY DEF DetailInit, Quiet
<1>. QED
  BY <1>1, <1>2, <1>3 DEF DetailInit, PriceInv, QuotedBy

\* What PriceInv says of the next state, said of its variables one by one.
LEMMA PriceFollows ==
    ASSUME net \in {"SOLANA", "ETHEREUM"}, net' = net,
           \A q \in People : QuotedBy(net, page'[q]),
           \A i \in DOMAIN ledger' : ledger'[i].op \in Operations /\ (ledger'[i].op = "list" => Lists(net, ledger', i)),
           token'.ask # 0 => Lists(net, ledger', token'.ask),
           IsShelf(row'.shelf), \A i \in DOMAIN row'.shelf : Priced(net, ledger', row'.shelf[i])
    PROVE  PriceInv'
<1>1. (\A q \in People : QuotedBy(net, page[q]))'
  BY DEF QuotedBy, Quoted
<1>2. (\A i \in DOMAIN ledger : ledger[i].op \in Operations /\ (ledger[i].op = "list" => Lists(net, ledger, i)))'
  BY DEF Lists, Quoted
<1>3. (token.ask # 0 => Lists(net, ledger, token.ask))'
  BY DEF Lists, Quoted
<1>4. (IsShelf(row.shelf))'
  BY DEF IsShelf
<1>5. (\A i \in DOMAIN row.shelf : Priced(net, ledger, row.shelf[i]))'
  BY DEF Priced, Lists, Quoted
<1>. QED
  BY <1>1, <1>2, <1>3, <1>4, <1>5 DEF PriceInv

\* The page of one person changes, and nothing else.
LEMMA PageQuoted ==
    ASSUME DetailInv, PriceInv, NEW p \in People, NEW x, QuotedBy(net, x),
           page' = [page EXCEPT ![p] = x], UNCHANGED <<net, token, row, ledger>>
    PROVE  PriceInv'
<1>1. \A q \in People : QuotedBy(net, page'[q])
  BY DEF DetailInv, PriceInv
<1>2. net' = net /\ token' = token /\ row' = row /\ ledger' = ledger
  OBVIOUS
<1>3. /\ net \in {"SOLANA", "ETHEREUM"}
      /\ token'.ask # 0 => Lists(net, ledger', token'.ask)
      /\ \A i \in DOMAIN ledger' : ledger'[i].op \in Operations /\ (ledger'[i].op = "list" => Lists(net, ledger', i))
      /\ IsShelf(row'.shelf) /\ \A i \in DOMAIN row'.shelf : Priced(net, ledger', row'.shelf[i])
  BY <1>2 DEF PriceInv
<1>. QED
  BY <1>1, <1>2, <1>3, PriceFollows

LEMMA TypedPrices == ASSUME DetailAssumption, NEW a \in Typed \cup {Zero} PROVE a \in Texts
<1>1. Zero \in Texts
  BY DEF Zero, Texts, Places
<1>2. Typed \subseteq Texts
  BY Zenon DEF DetailAssumption, Texts, Places
<1>. QED
  BY <1>1, <1>2

LEMMA FetchQuoted == ASSUME DetailInv, PriceInv, NEW p \in People, Fetch(p) PROVE PriceInv'
<1>. DEFINE v == GetNft
            x == [page[p] EXCEPT !.view = v]
<1>1. IsPage(page[p]) /\ QuotedBy(net, page[p])
  BY DEF DetailInv, PriceInv, PageSound
<1>2. x = [page[p] EXCEPT !.view = v] /\ page' = [page EXCEPT ![p] = x] /\ UNCHANGED <<net, token, row, ledger>>
  BY DEF Fetch
<1>. HIDE DEF v, x
<1>3. QuotedBy(net, x)
  BY <1>1, <1>2 DEF QuotedBy, IsPage
<1>. QED
  BY <1>2, <1>3, PageQuoted

LEMMA StepsQuoted ==
    ASSUME DetailInv, PriceInv, NEW p \in People, NEW step, Steps(p, step), UNCHANGED <<net, token, row, ledger>>,
           page[p].step # "none", step \in {"approve", "sign"} => page[p].step \in {"approve", "sign"}
    PROVE  PriceInv'
<1>. DEFINE x == [page[p] EXCEPT !.step = step]
<1>1. IsPage(page[p]) /\ QuotedBy(net, page[p])
  BY DEF DetailInv, PriceInv, PageSound
<1>2. x = [page[p] EXCEPT !.step = step] /\ page' = [page EXCEPT ![p] = x]
  BY DEF Steps
<1>. HIDE DEF x
<1>3. QuotedBy(net, x)
  BY <1>1, <1>2 DEF QuotedBy, IsPage
<1>. QED
  BY <1>2, <1>3, PageQuoted

LEMMA FailsQuoted == ASSUME DetailInv, PriceInv, DetailAssumption, NEW p \in People, Fails(p) PROVE PriceInv'
<1>. DEFINE x == [Quiet EXCEPT !.op = page[p].op, !.tx = page[p].tx, !.says = "error", !.view = page[p].view]
<1>1. page' = [page EXCEPT ![p] = x] /\ UNCHANGED <<net, token, row, ledger>>
  BY DEF Fails, Says
<1>2. QuotedBy(net, x)
  <2>1. x.text = Zero /\ x.step = "none"
    BY DEF Quiet
  <2>. QED
    BY <2>1, TypedPrices DEF QuotedBy
<1>. HIDE DEF x
<1>. QED
  BY <1>1, <1>2, PageQuoted

LEMMA PressesQuoted ==
    ASSUME DetailInv, PriceInv, DetailAssumption, NEW p \in People, NEW op \in Operations, Presses(p, op)
    PROVE  PriceInv'
<1>1. PICK a \in (IF op = "list" THEN Typed ELSE {Zero}) : Begin(p, op, a)
  BY DEF Presses
<1>. DEFINE from == IF Offer(p) THEN Last(page[p].view.shelf).seller ELSE Nobody
            x == [page[p] EXCEPT !.step = "prepare", !.op = op, !.text = a, !.says = "nothing", !.tx = 0, !.from = from]
<1>2. IsPage(page[p]) /\ a \in Texts
  BY <1>1, TypedPrices DEF DetailInv, PageSound
<1>3. page' = [page EXCEPT ![p] = x] /\ UNCHANGED <<net, token, row, ledger>>
  <2>. HIDE DEF from
  <2>1. page' = [page EXCEPT ![p] = x]
    BY <1>1 DEF Begin, from
  <2>. QED
    BY <2>1 DEF Presses, OnPage
<1>4. QuotedBy(net, x)
  <2>. HIDE DEF from
  <2>. QED
    BY <1>2 DEF QuotedBy, IsPage
<1>. HIDE DEF x
<1>. QED
  BY <1>3, <1>4, PageQuoted

LEMMA PrepareQuoted ==
    ASSUME DetailInv, PriceInv, DetailAssumption, NEW p \in People, PrepareSolana(p) \/ PrepareEvm(p)
    PROVE  PriceInv'
<1>. DEFINE text == page[p].text
<1>1. IsPage(page[p]) /\ text \in Texts /\ page[p].op \in Operations /\ UNCHANGED <<net, token, row, ledger>>
  BY DEF DetailInv, PageSound, PriceInv, QuotedBy, PrepareSolana, PrepareEvm, OnPage
<1>2. Decimals \in Nat
  BY DEF DetailAssumption
<1>3. CASE PrepareSolana(p)
  <2>. DEFINE units == ParseDecimal(text)
              x == [page[p] EXCEPT !.step = "sign", !.units = units]
  <2>1. page' = [page EXCEPT ![p] = x] /\ (page[p].op = "list" => ~TooFine(text) /\ units # 0)
    BY <1>3 DEF PrepareSolana, Buildable
  <2>2. ~TooFine(text) => units \in Nat
    <3>1. ~TooFine(text) => Len(text.frac) <= Decimals
      BY <1>1, <1>2 DEF TooFine, Texts, Places
    <3>. QED
      BY <1>1, <1>2, <3>1, ScaledIs DEF ParseDecimal
  <2>3. page[p].op = "list" => Quoted(net, text, units)
    BY <1>1, <2>1, <2>2 DEF Quoted
  <2>. HIDE DEF units
  <2>4. x.text = text /\ x.op = page[p].op /\ x.units = units
    BY <1>1 DEF IsPage
  <2>. HIDE DEF x, text
  <2>5. QuotedBy(net, x)
    BY <1>1, <2>3, <2>4 DEF QuotedBy
  <2>. QED
    BY <1>1, <2>1, <2>5, PageQuoted
<1>4. CASE PrepareEvm(p) /\ page[p].op = "list"
  <2>. DEFINE units == ParseUnits(text)
              step == IF p \in trusted THEN "sign" ELSE "approve"
              x == [page[p] EXCEPT !.step = step, !.units = units]
  <2>1. page' = [page EXCEPT ![p] = x] /\ units # 0 /\ net = "ETHEREUM"
    BY <1>4 DEF PrepareEvm
  <2>2. units \in Nat /\ (~TooFine(text) => units = ParseDecimal(text))
    <3>1. CASE TooFine(text)
      BY <1>1, <1>2, <3>1, RoundedRight
    <3>2. CASE ~TooFine(text)
      <4>1. Len(text.frac) <= Decimals
        BY <1>1, <1>2, <3>2 DEF TooFine, Texts, Places
      <4>. QED
        BY <1>1, <1>2, <3>2, <4>1, ScaledIs DEF ParseDecimal, ParseUnits
    <3>. QED
      BY <3>1, <3>2
  <2>3. Quoted(net, text, units)
    BY <1>1, <2>1, <2>2 DEF Quoted
  <2>. HIDE DEF units, step
  <2>4. x.text = text /\ x.op = page[p].op /\ x.units = units
    BY <1>1 DEF IsPage
  <2>. HIDE DEF x, text
  <2>5. QuotedBy(net, x)
    BY <1>1, <2>3, <2>4 DEF QuotedBy
  <2>. QED
    BY <1>1, <2>1, <2>5, PageQuoted
<1>5. CASE PrepareEvm(p) /\ page[p].op # "list"
  <2>. DEFINE units == Price
              x == [page[p] EXCEPT !.step = "sign", !.units = units, !.from = token.ask]
  <2>1. page' = [page EXCEPT ![p] = x]
    BY <1>5 DEF PrepareEvm
  <2>. HIDE DEF units
  <2>2. x.text = text /\ x.op = page[p].op
    BY <1>1 DEF IsPage
  <2>. HIDE DEF x, text
  <2>3. QuotedBy(net, x)
    BY <1>1, <1>5, <2>2 DEF QuotedBy
  <2>. QED
    BY <1>1, <2>1, <2>3, PageQuoted
<1>. QED
  BY <1>3, <1>4, <1>5

LEMMA SignsQuoted == ASSUME DetailInv, PriceInv, DetailAssumption, NEW p \in People, Signs(p) PROVE PriceInv'
<1>. DEFINE t == [by |-> p, op |-> page[p].op, text |-> page[p].text,
                  units |-> page[p].units, from |-> page[p].from, fate |-> "sent"]
            x == [Quiet EXCEPT !.step = "confirm", !.op = page[p].op, !.tx = Len(ledger) + 1, !.view = page[p].view]
            R == {ledger[i] : i \in DOMAIN ledger}
<1>1. ledger' = Append(ledger, t) /\ page' = [page EXCEPT ![p] = x] /\ UNCHANGED <<net, token, row>>
  BY DEF Signs
<1>2. t.op \in Operations /\ (t.op = "list" => Quoted(net, t.text, t.units)) /\ page[p].op \in Operations
  BY DEF Signs, PriceInv, QuotedBy
<1>3. QuotedBy(net, x)
  <2>1. x.text = Zero /\ x.step = "confirm" /\ x.op = page[p].op
    BY DEF Quiet
  <2>. QED
    BY <1>2, <2>1, TypedPrices DEF QuotedBy
<1>. HIDE DEF t, x
<1>4. /\ DOMAIN ledger = 1..Len(ledger) /\ DOMAIN ledger' = 1..(Len(ledger) + 1) /\ Len(ledger) \in Nat
      /\ \A i \in DOMAIN ledger' : ledger'[i] = IF i = Len(ledger) + 1 THEN t ELSE ledger[i]
  <2>1. ledger \in Seq(R)
    BY DEF DetailInv, LedgerSound
  <2>2. ledger \in Seq(R \cup {t})
    BY <2>1
  <2>. HIDE DEF R
  <2>. QED
    BY <1>1, <2>2
<1>5. \A i : Lists(net, ledger, i) => Lists(net, ledger', i) /\ ledger'[i] = ledger[i]
  BY <1>4 DEF Lists
<1>6. \A i \in DOMAIN ledger' : ledger'[i].op \in Operations /\ (ledger'[i].op = "list" => Lists(net, ledger', i))
  BY <1>2, <1>4, <1>5 DEF Lists, PriceInv
<1>7. \A q \in People : QuotedBy(net, page'[q])
  BY <1>1, <1>3 DEF DetailInv, PriceInv
<1>8. \A l : Priced(net, ledger, l) => Priced(net, ledger', l)
  BY <1>5 DEF Priced
<1>9. /\ net' = net /\ net \in {"SOLANA", "ETHEREUM"}
      /\ token.ask # 0 => Lists(net, ledger', token.ask)
      /\ IsShelf(row.shelf) /\ \A i \in DOMAIN row.shelf : Priced(net, ledger', row.shelf[i])
  BY <1>1, <1>5, <1>8 DEF PriceInv
<1>. QED
  BY <1>1, <1>6, <1>7, <1>9, PriceFollows

LEMMA LandsQuoted == ASSUME DetailInv, PriceInv, NEW i \in DOMAIN ledger, Lands(i) PROVE PriceInv'
<1>1. /\ UNCHANGED <<net, row, page>>
      /\ \E fate \in {"landed", "failed"} : ledger' = [ledger EXCEPT ![i].fate = fate]
      /\ token' = token \/ token' = Effect(i)
  BY DEF Lands
<1>2. PICK fate \in {"landed", "failed"} : ledger' = [ledger EXCEPT ![i].fate = fate]
  BY <1>1
<1>. DEFINE t == [ledger[i] EXCEPT !.fate = fate]
<1>3. IsTransaction(ledger[i])
  BY DEF DetailInv, LedgerSound
<1>4. t.op = ledger[i].op /\ t.text = ledger[i].text /\ t.units = ledger[i].units
  BY <1>3 DEF IsTransaction
<1>5. ledger' = [ledger EXCEPT ![i] = t]
  BY <1>2
<1>. HIDE DEF t
<1>6. DOMAIN ledger' = DOMAIN ledger /\ \A j \in DOMAIN ledger : ledger'[j] = IF j = i THEN t ELSE ledger[j]
  BY <1>5
<1>7. \A j : Lists(net, ledger, j) => Lists(net, ledger', j) /\ ledger'[j].units = ledger[j].units
  BY <1>4, <1>6 DEF Lists
<1>8. \A l : Priced(net, ledger, l) => Priced(net, ledger', l)
  BY <1>7 DEF Priced
<1>9. \A j \in DOMAIN ledger' : ledger'[j].op \in Operations /\ (ledger'[j].op = "list" => Lists(net, ledger', j))
  BY <1>4, <1>6, <1>7 DEF PriceInv
<1>10. token'.ask # 0 => Lists(net, ledger', token'.ask)
  <2>1. Effect(i).ask # 0 => Effect(i).ask = i /\ ledger[i].op = "list"
    BY DEF Effect, PriceInv, Operations
  <2>. QED
    BY <1>1, <1>4, <1>6, <1>7, <1>9, <2>1 DEF PriceInv
<1>11. /\ net' = net /\ net \in {"SOLANA", "ETHEREUM"} /\ \A q \in People : QuotedBy(net, page'[q])
       /\ IsShelf(row.shelf) /\ \A j \in DOMAIN row.shelf : Priced(net, ledger', row.shelf[j])
  BY <1>1, <1>8 DEF PriceInv
<1>. QED
  BY <1>1, <1>9, <1>10, <1>11, PriceFollows

\* What a listing says of itself when it is written.
LEMMA OfferShows ==
    ASSUME PriceInv, NEW p \in People, Asked
    PROVE  Priced(net, ledger, Offered(p))
<1>. DEFINE price == FromBaseUnits(Price)
<1>1. Lists(net, ledger, token.ask) /\ price = FromBaseUnits(ledger[token.ask].units)
  BY DEF PriceInv, Asked, Price
<1>2. Offered(p) = [seller |-> p, lot |-> token.ask, price |-> price, active |-> TRUE]
  BY DEF Offered
<1>. HIDE DEF price
<1>. QED
  BY <1>1, <1>2 DEF Priced

\* The listings of a row, all of which show what was asked.
Honest(s) == IsShelf(s) /\ \A i \in DOMAIN s : Priced(net, ledger, s[i])

LEMMA ClosedHonest ==
    ASSUME Honest(row.shelf), NEW S
    PROVE  Honest(Closed(S))
<1>. DEFINE s == row.shelf
            c == Closed(S)
            n == Len(s)
<1>1. n \in Nat /\ DOMAIN s = 1..n
  BY Counts DEF Honest
<1>2. \A i \in 1..n : Priced(net, ledger, s[i])
  BY <1>1 DEF Honest
<1>3. c = [i \in 1..n |-> [s[i] EXCEPT !.active = @ /\ i \notin S]]
  BY <1>1 DEF Closed
<1>4. ASSUME NEW i \in 1..n
      PROVE  Priced(net, ledger, c[i])
  <2>. DEFINE live == s[i].active /\ i \notin S
              l == s[i]
              m == [l EXCEPT !.active = live]
  <2>1. c[i] = m
    BY <1>3
  <2>2. Priced(net, ledger, l)
    BY <1>2
  <2>. HIDE DEF live, l
  <2>3. DOMAIN m = DOMAIN l /\ m.lot = l.lot /\ m.price = l.price
    BY <2>2 DEF Priced
  <2>. HIDE DEF m
  <2>. QED
    BY <2>1, <2>2, <2>3 DEF Priced
<1>5. c = [i \in 1..n |-> c[i]] /\ DOMAIN c = 1..n
  BY <1>3
<1>. HIDE DEF c, n
<1>6. Honest(c)
  BY <1>1, <1>4, <1>5, Counted DEF Honest
<1>. QED
  BY <1>6 DEF c

LEMMA AppendHonest ==
    ASSUME NEW s, Honest(s), NEW l, Priced(net, ledger, l)
    PROVE  Honest(Append(s, l))
<1>. DEFINE n == Len(s)
            R == {s[i] : i \in DOMAIN s}
            c == Append(s, l)
<1>1. n \in Nat /\ DOMAIN s = 1..n
  BY Counts DEF Honest
<1>2. s \in Seq(R)
  BY DEF Honest, IsShelf
<1>3. s \in Seq(R \cup {l})
  BY <1>2
<1>. HIDE DEF R
<1>4. DOMAIN c = 1..(n + 1) /\ \A i \in 1..(n + 1) : c[i] = IF i = n + 1 THEN l ELSE s[i]
  BY <1>3
<1>7. c = [i \in 1..(n + 1) |-> c[i]]
  <2>1. c \in Seq(R \cup {l}) /\ Len(c) = n + 1
    BY <1>3
  <2>. HIDE DEF c
  <2>. QED
    BY <2>1
<1>5. \A i \in 1..(n + 1) : Priced(net, ledger, c[i])
  BY <1>1, <1>4 DEF Honest
<1>. HIDE DEF c, n
<1>6. n + 1 \in Nat
  BY <1>1 DEF n
<1>8. Honest(c)
  BY <1>4, <1>5, <1>6, <1>7, Counted DEF Honest
<1>. QED
  BY <1>8 DEF c

LEMMA PublishedHonest ==
    ASSUME PriceInv, NEW p \in People
    PROVE  Honest(Published(p).shelf)
<1>. DEFINE s == row.shelf
            n == Len(s)
            off == Offered(p)
            over == [i \in DOMAIN s |-> IF i \in LiveOf(p) THEN off ELSE s[i]]
<1>1. Honest(s)
  BY DEF PriceInv, Honest
<1>2. Honest(Closed(LiveOf(p)))
  BY <1>1, ClosedHonest
<1>3. ASSUME Asked
      PROVE  Honest(Append(s, off)) /\ Honest(over)
  <2>1. Priced(net, ledger, off)
    BY <1>3, OfferShows
  <2>2. n \in Nat /\ DOMAIN s = 1..n
    BY <1>1, Counts DEF Honest
  <2>. HIDE DEF off
  <2>3. \A i \in 1..n : Priced(net, ledger, over[i])
    BY <1>1, <2>1, <2>2 DEF Honest
  <2>4. over = [i \in 1..n |-> over[i]] /\ DOMAIN over = 1..n
    BY <2>2
  <2>. HIDE DEF over, n
  <2>5. Honest(over)
    BY <2>2, <2>3, <2>4, Counted DEF Honest
  <2>. QED
    BY <1>1, <2>1, <2>5, AppendHonest
<1>4. Published(p).shelf = IF ~(Asked /\ Seller = p) THEN Closed(LiveOf(p))
                           ELSE IF LiveOf(p) = {} THEN Append(s, off) ELSE over
  BY Zenon DEF Published
<1>. HIDE DEF s, off, over
<1>. QED
  BY <1>2, <1>3, <1>4

\* Whatever a row becomes, each listing still shows what a transaction asked.
LEMMA RecordingHonest ==
    ASSUME PriceInv, NEW p \in People, page[p].op \in Operations
    PROVE  Honest(Recording(p).shelf)
<1>1. Honest(row.shelf)
  BY DEF PriceInv, Honest
<1>2. Honest(<<>>)
  BY DEF Honest, IsShelf
<1>3. Honest(Settled(p).shelf)
  <2>1. Honest(Closed({LastOf(Live)}))
    BY <1>1, ClosedHonest
  <2>2. Settled(p).shelf = row.shelf \/ Settled(p).shelf = Closed({LastOf(Live)})
    BY Zenon DEF Settled
  <2>. QED
    BY <1>1, <2>1, <2>2
<1>4. Honest(Published(p).shelf)
  BY PublishedHonest
<1>5. \/ Recording(p) = row \/ Recording(p) = Published(p) \/ Recording(p) = Settled(p)
      \/ Recording(p) = [owner |-> Nobody, shelf |-> <<>>]
  BY DEF Recording, Operations
<1>6. [owner |-> Nobody, shelf |-> <<>>].shelf = <<>>
  OBVIOUS
<1>. QED
  BY <1>1, <1>2, <1>3, <1>4, <1>5, <1>6

LEMMA RecordsQuoted == ASSUME DetailInv, PriceInv, DetailAssumption, NEW p \in People, Records(p) PROVE PriceInv'
<1>1. PICK what : Says(p, what)
  BY DEF Records
<1>. DEFINE x == [Quiet EXCEPT !.op = page[p].op, !.tx = page[p].tx, !.says = what, !.view = page[p].view]
<1>2. page' = [page EXCEPT ![p] = x] /\ UNCHANGED <<net, token, ledger>> /\ row' \in {row, Recording(p)}
  BY <1>1 DEF Records, Says
<1>3. QuotedBy(net, x)
  <2>1. x.text = Zero /\ x.step = "none"
    BY DEF Quiet
  <2>. QED
    BY <2>1, TypedPrices DEF QuotedBy
<1>. HIDE DEF x
<1>4. Honest(row'.shelf)
  <2>1. page[p].op \in Operations
    BY DEF PriceInv, QuotedBy, Records
  <2>2. Honest(row.shelf)
    BY DEF PriceInv, Honest
  <2>. QED
    BY <1>2, <2>1, <2>2, RecordingHonest
<1>5. \A q \in People : QuotedBy(net, page'[q])
  BY <1>2, <1>3 DEF DetailInv, PriceInv
<1>6. /\ net' = net /\ net \in {"SOLANA", "ETHEREUM"}
      /\ \A i \in DOMAIN ledger : ledger[i].op \in Operations /\ (ledger[i].op = "list" => Lists(net, ledger, i))
      /\ token.ask # 0 => Lists(net, ledger, token.ask)
      /\ IsShelf(row'.shelf) /\ \A i \in DOMAIN row'.shelf : Priced(net, ledger, row'.shelf[i])
  BY <1>2, <1>4 DEF PriceInv, Honest
<1>. QED
  BY <1>2, <1>5, <1>6, PriceFollows

\* Each step leaves what was quoted where it stands.
LEMMA PriceStepKeeps == ASSUME DetailInv, PriceInv, DetailAssumption, [DetailNext]_detailVars PROVE PriceInv'
<1>1. ASSUME NEW p \in People, ApprovalMined(p) \/ Confirms(p) \/ Verifies(p)
      PROVE  PriceInv'
  <2>1. PICK step : Steps(p, step) /\ (step \in {"approve", "sign"} => page[p].step \in {"approve", "sign"})
    BY <1>1 DEF ApprovalMined, Confirms, Verifies
  <2>2. page[p].step # "none" /\ UNCHANGED <<net, token, row, ledger>>
    BY <1>1 DEF ApprovalMined, Confirms, Verifies, OnPage
  <2>. QED
    BY <2>1, <2>2, StepsQuoted
<1>2. ASSUME NEW p \in People, Fetch(p) \/ PrepareSolana(p) \/ PrepareEvm(p) \/ Signs(p) \/ Fails(p) \/ Records(p)
      PROVE  PriceInv'
  BY <1>2, FetchQuoted, PrepareQuoted, SignsQuoted, FailsQuoted, RecordsQuoted
<1>3. ASSUME NEW p \in People, NEW op \in Operations, Presses(p, op)
      PROVE  PriceInv'
  BY <1>3, PressesQuoted
<1>4. ASSUME NEW i \in DOMAIN ledger, Lands(i)
      PROVE  PriceInv'
  BY <1>4, LandsQuoted
<1>5. CASE UNCHANGED detailVars
  BY <1>5 DEF detailVars, PriceInv, QuotedBy, Lists, Priced, IsShelf, Quoted
<1>. QED
  BY <1>1, <1>2, <1>3, <1>4, <1>5 DEF DetailNext, Operations

\* What is quoted, written and shown is one price.
LEMMA PricesAsked == ASSUME PriceInv, DetailAssumption PROVE PriceSurvives
<1>1. Decimals \in Nat /\ Kept \in Nat /\ Exponential \in Nat \ {0}
  BY DEF DetailAssumption
<1>2. SUFFICES ASSUME NEW i \in DOMAIN row.shelf
               PROVE  LET l == row.shelf[i]
                          t == ledger[l.lot]
                          v == Scaled(l.price, Decimals)
                          fine == Len(t.text.frac)
                          off == 2 * (v * Ten(fine - Decimals) - Scaled(t.text, fine))
                          shown == FormatPrice(DecimalText(l.price))
                          s == Scaled(shown, Decimals)
                          last == IF Len(shown.frac) < Kept THEN Kept ELSE Len(shown.frac)
                      IN  /\ v = t.units
                          /\ IF TooFine(t.text)
                             THEN net = "ETHEREUM" /\ off <= Ten(fine - Decimals) /\ -off <= Ten(fine - Decimals)
                             ELSE v = Scaled(t.text, Decimals)
                          /\ v >= Ten(Decimals - Exponential + 1) =>
                                0 < s /\ s <= v /\ v - s < Ten(Decimals - last)
  BY Zenon DEF PriceSurvives
<1>. DEFINE l == row.shelf[i]
            t == ledger[l.lot]
            u == t.units
            price == FromBaseUnits(u)
            text == t.text
<1>3. Priced(net, ledger, l)
  BY DEF PriceInv
<1>. HIDE DEF l
<1>4. Quoted(net, text, u) /\ l.price = price
  BY <1>3 DEF Priced, Lists
<1>. HIDE DEF t, u, text
<1>5. u \in Nat /\ u > 0 /\ text \in Texts
  BY <1>4 DEF Quoted
<1>6. price \in Texts /\ Len(price.frac) <= Decimals /\ Scaled(price, Decimals) = u
  BY <1>1, <1>5, UnitsBack
<1>. HIDE DEF price
<1>. DEFINE v == Scaled(l.price, Decimals)
            fine == Len(text.frac)
            off == 2 * (v * Ten(fine - Decimals) - Scaled(text, fine))
            shown == FormatPrice(DecimalText(l.price))
            s == Scaled(shown, Decimals)
            last == IF Len(shown.frac) < Kept THEN Kept ELSE Len(shown.frac)
<1>7. v = u
  BY <1>4, <1>6
<1>8. v >= Ten(Decimals - Exponential + 1) => 0 < s /\ s <= v /\ v - s < Ten(Decimals - last)
  <2>1. SUFFICES ASSUME v >= Ten(Decimals - Exponential + 1)
                 PROVE  0 < s /\ s <= v /\ v - s < Ten(Decimals - last)
    OBVIOUS
  <2>2. Scaled(price, Decimals) >= Ten(Decimals - Exponential + 1)
    BY <1>4, <2>1
  <2>3. DecimalText(price) = [whole |-> price.whole, frac |-> price.frac, exp |-> 0]
    BY <1>1, <1>6, <2>2, WrittenPlainly
  <2>4. FormatPrice(DecimalText(price)).whole = price.whole
        /\ FormatPrice(DecimalText(price)).frac = Shortened(price.frac)
    BY <1>1, <1>6, <2>3, FormatIs
  <2>. QED
    BY <1>1, <1>4, <1>5, <1>6, <1>7, <2>4, FormatKeeps
<1>. DEFINE kept == IF TooFine(text)
                    THEN net = "ETHEREUM" /\ off <= Ten(fine - Decimals) /\ -off <= Ten(fine - Decimals)
                    ELSE v = Scaled(text, Decimals)
            drawn == v >= Ten(Decimals - Exponential + 1) =>
                        0 < s /\ s <= v /\ v - s < Ten(Decimals - last)
            result == v = u /\ kept /\ drawn
<1>9. kept
  <2>1. CASE TooFine(text)
    <3>1. u = ParseUnits(text) /\ net = "ETHEREUM"
      BY <1>4, <2>1 DEF Quoted
    <3>2. off <= Ten(fine - Decimals) /\ -off <= Ten(fine - Decimals)
      BY <1>1, <1>5, <1>7, <2>1, <3>1, RoundedRight
    <3>. HIDE DEF off, fine
    <3>. QED
      BY <2>1, <3>1, <3>2
  <2>2. CASE ~TooFine(text)
    BY <1>4, <1>7, <2>2 DEF Quoted, ParseDecimal
  <2>. HIDE DEF kept
  <2>. QED
    BY <2>1, <2>2
<1>10. result
  <2>. HIDE DEF kept, v, s, last
  <2>1. drawn
    BY <1>8
  <2>. HIDE DEF drawn
  <2>. QED
    BY <1>7, <1>9, <2>1
<1>. HIDE DEF result
<1>. QED
  BY Zenon, <1>10 DEF result, kept, drawn, s, shown, last, off, fine, v, text, u, t, l

-----------------------------------------------------------------------------
(* Both pages.                                                             *)

PagesInv == CreateInv /\ DetailInv /\ PriceInv

LEMMA PagesInvHolds == PagesSpec => []PagesInv
<1>1. PagesInit => PagesInv
  BY DetailAssumption, CreateInitSound, DetailInitSound, PriceInitSound DEF PagesInit, PagesInv
<1>2. PagesInv /\ [PagesNext]_pageVars => PagesInv'
  <2>1. SUFFICES ASSUME PagesInv, [PagesNext]_pageVars
                 PROVE  PagesInv'
    OBVIOUS
  <2>2. [CreateNext]_createVars /\ [DetailNext]_detailVars
    <3>1. CASE UNCHANGED pageVars
      BY <3>1 DEF pageVars
    <3>2. CASE PagesNext
      BY <3>2 DEF PagesNext
    <3>. QED
      BY <2>1, <3>1, <3>2
  <2>. QED
    BY <2>1, <2>2, CreateAssumption, DetailAssumption, CreateStepKeeps, DetailStepKeeps, PriceStepKeeps DEF PagesInv
<1>. QED
  BY <1>1, <1>2, PTL DEF PagesSpec

\* Nobody is charged twice for one NFT: once a card has been charged the page
\* shows that payment and no button (CreatePage.tsx and its CheckoutForm).
THEOREM ChargedOnce == PagesSpec => []PaysOnce
<1>1. PagesInv => PaysOnce
  BY CreateAssumption, OnePayment DEF PagesInv
<1>. QED
  BY <1>1, PagesInvHolds, PTL

\* An NFT said to be minted exists, and a purchase, a listing, a cancellation
\* or a burn is announced only when this person's own transaction did just that
\* (CreatePage.tsx, NftDetailPage.tsx).
THEOREM PagesTellTruth == PagesSpec => []SaysWhatHappened
<1>1. CreateInv => MintedIsReal
  BY DEF CreateInv, Real, MintedIsReal
<1>2. DetailInv => DoneIsDone
  BY DEF DetailInv, PageSound, Own, DoneIsDone
<1>3. PagesInv => SaysWhatHappened
  BY <1>1, <1>2 DEF PagesInv, SaysWhatHappened
<1>. QED
  BY <1>3, PagesInvHolds, PTL

\* A listing asks on chain, in its row and on the page what was typed for it:
\* to the unit in a row, on Base to the nearest one, and on the page, unless the
\* price is small enough to be written with an exponent, never more, never zero and
\* short of it by less than one of the last digit kept (parseDecimal and
\* fromBaseUnits in chains.ts, serialize in nfts.ts, formatPrice in chain-ui.ts).
THEOREM PricesSurvive == PagesSpec => []PriceSurvives
<1>1. PagesInv => PriceSurvives
  BY DetailAssumption, PricesAsked DEF PagesInv
<1>. QED
  BY <1>1, PagesInvHolds, PTL
=============================================================================

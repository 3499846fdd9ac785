------------------------------ MODULE DetailPage ------------------------------
(***************************************************************************)
(* The page of one NFT, open in several browsers: buy, list, cancel, burn. *)
(*                                                                         *)
(* A press has the worker or the chain asked, the wallet sign, the chain   *)
(* decide and the marketplace record it; any of these may fail, and what   *)
(* each browser draws is the row as it last fetched it.  The worker's      *)
(* handlers are one step each here: Storefront and EvmCatalogue interleave *)
(* their statements.                                                       *)
(*                                                                         *)
(* A price goes from the text somebody types to base units, to the chain,  *)
(* back to a decimal in a row, to the text the worker answers with and to  *)
(* what the page makes of that.                                            *)
(***************************************************************************)
EXTENDS Integers, SequencesExt

CONSTANTS
    People,
    Nobody,
    Escrow,       \* the program, which holds what is on sale on Solana
    Decimals,     \* digits of a base unit
    Kept,         \* fraction digits formatPrice keeps
    Exponential,  \* a decimal whose first digit is this far behind the point, or
                  \* further, is written with an exponent: 7, decimal.js has it
    Typed,        \* amounts typed: [whole, frac]
    MaxSigned     \* bound: transactions signed

ASSUME DetailAssumption ==
    /\ Nobody \notin People /\ Escrow \notin People \cup {Nobody}
    /\ Decimals \in Nat \ {0} /\ Kept \in Nat /\ Exponential \in Nat \ {0}
    /\ Typed \subseteq [whole : Nat, frac : Seq(0..9)]
    /\ MaxSigned \in Nat

VARIABLES
    net,          \* the chain of the asset
    direct,       \* features.directCrypto
    token,        \* on chain: [holder, ask], ask the listing's transaction or 0
    trusted,      \* people who approved the market
    row,          \* the row: [owner, shelf], its listings oldest first
    page,         \* person -> its page
    ledger        \* transactions signed

detailVars == <<net, direct, token, trusted, row, page, ledger>>

Zero == [whole |-> 0, frac |-> <<>>]
Quiet == [step |-> "none", op |-> "none", text |-> Zero, units |-> 0, from |-> Nobody,
          says |-> "nothing", tx |-> 0, view |-> Nobody]
Minter == CHOOSE p \in People : TRUE

DetailInit ==
    /\ net \in {"SOLANA", "ETHEREUM"}
    /\ direct \in BOOLEAN
    /\ row = [owner |-> Minter, shelf |-> <<>>]
    /\ token = [holder |-> Minter, ask |-> 0]
    /\ page = [p \in People |-> [Quiet EXCEPT !.view = row]]
    /\ trusted = {}
    /\ ledger = <<>>

-----------------------------------------------------------------------------
(* Prices                                                                  *)

Number(digits) ==
    LET value[n \in 0..Len(digits)] == IF n = 0 THEN 0 ELSE 10 * value[n - 1] + digits[n]
    IN  value[Len(digits)]
Zeros(n) == [i \in 1..n |-> 0]
Ten(n) == Number(<<1>> \o Zeros(n))
Unit == Ten(Decimals)
Significant(digits) == {i \in DOMAIN digits : digits[i] # 0}
LastOf(S) == CHOOSE i \in S : \A j \in S : j <= i
FirstOf(S) == CHOOSE i \in S : \A j \in S : i <= j

\* Without its trailing zeros.
Trimmed(digits) ==
    IF Significant(digits) = {} THEN <<>>
    ELSE SubSeq(digits, 1, LastOf(Significant(digits)))

\* Exactly, or not at all.
TooFine(a) == Len(a.frac) > Decimals
Scaled(a, places) == Number(<<a.whole>> \o a.frac \o Zeros(places - Len(a.frac)))

ParseDecimal(a) == Scaled(a, Decimals)

\* viem's parseUnits rounds at the last digit instead.
ParseUnits(a) ==
    IF TooFine(a)
    THEN Number(<<a.whole>> \o SubSeq(a.frac, 1, Decimals)) + (IF a.frac[Decimals + 1] >= 5 THEN 1 ELSE 0)
    ELSE ParseDecimal(a)

DigitsOf(n, places) ==
    [i \in 1..places |-> (n \div Ten(places - i)) % 10]

\* Mutated: the fraction is not padded to its places.
Unpadded(v) ==
    LET rest == v % Unit
        places == CHOOSE k \in 1..Decimals : rest < Ten(k) /\ \A j \in 1..k - 1 : rest >= Ten(j)
    IN  [whole |-> v \div Unit, frac |-> Trimmed(DigitsOf(rest, places))]

FromBaseUnits(v) == [whole |-> v \div Unit, frac |-> Trimmed(DigitsOf(v % Unit, Decimals))]

\* Decimal.toString, in the worker's answer: 0.00000012 is written 1.2e-7.
DecimalText(a) ==
    LET first == FirstOf(Significant(a.frac)) IN
    IF a.whole = 0 /\ Significant(a.frac) # {} /\ first >= Exponential
    THEN [whole |-> a.frac[first], frac |-> SubSeq(a.frac, first + 1, Len(a.frac)), exp |-> first]
    ELSE [whole |-> a.whole, frac |-> a.frac, exp |-> 0]

\* The characters of an exponent, where 10 is the e and 11 the minus.
Exponent(n) ==
    IF n = 0 THEN <<>> ELSE <<10, 11>> \o (IF n < 10 THEN <<n>> ELSE <<n \div 10, n % 10>>)

\* Cut, never rounded; but what is not zero never reads as zero.
Shortened(fraction) ==
    LET cut == Trimmed(SubSeq(fraction, 1, IF Len(fraction) < Kept THEN Len(fraction) ELSE Kept))
    IN  IF cut = <<>> /\ Significant(fraction) # {}
        THEN SubSeq(fraction, 1, FirstOf(Significant(fraction)))
        ELSE cut

\* Of what follows the point, an exponent included; without one nothing is cut.
FormatPrice(t) ==
    IF t.frac = <<>> THEN t
    ELSE [whole |-> t.whole, frac |-> Shortened(t.frac \o Exponent(t.exp)), exp |-> 0]

-----------------------------------------------------------------------------
(* What is drawn, and pressed                                              *)

Live == {i \in DOMAIN row.shelf : row.shelf[i].active}
LiveOf(p) == {i \in Live : row.shelf[i].seller = p}

Working(p) == page[p].step # "none"
Owns(p) == page[p].view.owner = p
Offer(p) == page[p].view.shelf # <<>>
Paused == net = "SOLANA" /\ ~direct
Exists(p) == page[p].view.owner # Nobody

Drawn(p) ==
    {op \in {"buy", "cancel", "list", "burn"} :
       /\ Exists(p)
       /\ CASE op = "buy" -> Offer(p) /\ ~Owns(p) /\ ~Paused
            [] op = "cancel" -> Offer(p) /\ Owns(p) /\ net = "SOLANA" /\ direct
            [] op = "list" -> ~Offer(p) /\ Owns(p) /\ ~Paused
            [] op = "burn" -> ~Offer(p) /\ Owns(p) /\ net = "SOLANA"}

\* The row, and as its listing the newest it has, whatever has become of it.
GetNft == [row EXCEPT !.shelf = IF @ = <<>> THEN <<>>
                                ELSE <<[Last(@) EXCEPT !.price = DecimalText(@)]>>]

Fetch(p) ==
    /\ page' = [page EXCEPT ![p].view = GetNft]
    /\ UNCHANGED <<net, direct, token, trusted, row, ledger>>

Steps(p, step) == page' = [page EXCEPT ![p].step = step]
Says(p, what) == page' = [page EXCEPT ![p] = [Quiet EXCEPT !.op = page[p].op, !.tx = page[p].tx,
                                                          !.says = what, !.view = page[p].view]]
OnPage == UNCHANGED <<net, direct, token, trusted, row, ledger>>

Begin(p, op, a) ==
    page' = [page EXCEPT ![p].step = "prepare", ![p].op = op, ![p].text = a, ![p].says = "nothing", ![p].tx = 0,
                         ![p].from = IF Offer(p) THEN Last(page[p].view.shelf).seller ELSE Nobody]

\* A burn takes two clicks.
Presses(p, op) ==
    /\ ~Working(p)
    /\ op \in Drawn(p)
    /\ \E a \in (IF op = "list" THEN Typed ELSE {Zero}) : Begin(p, op, a)
    /\ OnPage

\* Refused by the worker, the wallet, the chain or the network, in any order.
\* What is said is an error, whatever becomes of a transaction already sent.
Fails(p) ==
    /\ \/ page[p].step \in {"prepare", "approve", "sign", "confirm", "verify"}
       \/ page[p].step = "record" /\ page[p].op = "burn"
    /\ Says(p, "error")
    /\ trusted' \in {trusted, IF page[p].step = "approve" THEN trusted \cup {p} ELSE trusted}
    /\ UNCHANGED <<net, direct, token, row, ledger>>

-----------------------------------------------------------------------------
(* Preparing: the worker builds Solana's transactions, the browser reads   *)
(* the chain for the market's.                                             *)

Asked == token.ask # 0
Seller == ledger[token.ask].by
Price == ledger[token.ask].units

\* The text reaches the worker as it was typed; a finer one is refused.
Buildable(p) ==
    CASE page[p].op = "list" -> ~TooFine(page[p].text) /\ ParseDecimal(page[p].text) # 0 /\ ~(Asked /\ Seller = p)
      [] page[p].op = "burn" -> row.owner = p /\ Live = {}
      [] OTHER -> TRUE

PrepareSolana(p) ==
    /\ net = "SOLANA" /\ page[p].step = "prepare"
    /\ Buildable(p)
    /\ page' = [page EXCEPT ![p].step = "sign", ![p].units = ParseDecimal(page[p].text)]
    /\ OnPage

PrepareEvm(p) ==
    /\ net = "ETHEREUM" /\ page[p].step = "prepare"
    /\ IF page[p].op = "list"
       THEN /\ ParseUnits(page[p].text) # 0
            /\ page' = [page EXCEPT ![p].step = IF p \in trusted THEN "sign" ELSE "approve",
                                    ![p].units = ParseUnits(page[p].text)]
       ELSE /\ Asked
            /\ page' = [page EXCEPT ![p].step = "sign", ![p].units = Price, ![p].from = token.ask]
    /\ OnPage

\* The wait is for the receipt, whichever status it has.
ApprovalMined(p) ==
    /\ page[p].step = "approve"
    /\ trusted' \in {trusted, trusted \cup {p}}
    /\ Steps(p, "sign")
    /\ UNCHANGED <<net, direct, token, row, ledger>>

Signs(p) ==
    /\ page[p].step = "sign"
    /\ Len(ledger) < MaxSigned
    /\ ledger' = Append(ledger, [by |-> p, op |-> page[p].op, text |-> page[p].text,
                                 units |-> page[p].units, from |-> page[p].from, fate |-> "sent"])
    /\ page' = [page EXCEPT ![p] = [Quiet EXCEPT !.step = "confirm", !.op = page[p].op,
                                                 !.tx = Len(ledger) + 1, !.view = page[p].view]]
    /\ UNCHANGED <<net, direct, token, trusted, row>>

-----------------------------------------------------------------------------
(* The chains                                                              *)

\* The program sells at what its escrow asks; the market at the price sent.
Executable(t) ==
    CASE t.op = "list" -> token.holder = t.by /\ (net = "ETHEREUM" => t.by \in trusted /\ ~Asked)
      [] t.op = "buy" -> /\ Asked /\ t.by # Seller
                         /\ IF net = "SOLANA" THEN t.from = Seller ELSE t.from = token.ask /\ t.units = Price
      [] t.op = "cancel" -> Asked /\ Seller = t.by
      [] t.op = "burn" -> token.holder = t.by

Effect(i) ==
    CASE ledger[i].op = "list" -> [holder |-> IF net = "SOLANA" THEN Escrow ELSE token.holder, ask |-> i]
      [] ledger[i].op \in {"buy", "cancel"} -> [holder |-> ledger[i].by, ask |-> 0]
      [] ledger[i].op = "burn" -> [holder |-> Nobody, ask |-> 0]

Lands(i) ==
    /\ ledger[i].fate = "sent"
    /\ \/ Executable(ledger[i]) /\ token' = Effect(i) /\ ledger' = [ledger EXCEPT ![i].fate = "landed"]
       \/ UNCHANGED token /\ ledger' = [ledger EXCEPT ![i].fate = "failed"]
    /\ UNCHANGED <<net, direct, trusted, row, page>>

\* Mutated: a transaction the node accepted is taken for one that succeeded.
Accepted(t) == TRUE

Succeeded(t) == t.fate = "landed"

\* confirmTransaction, or the receipt.
Confirms(p) ==
    /\ page[p].step = "confirm"
    /\ Succeeded(ledger[page[p].tx])
    /\ Steps(p, IF page[p].op = "buy" /\ net = "SOLANA" THEN "verify" ELSE "record")
    /\ OnPage

\* Asked of the worker once more, before a purchase is settled.
Verifies(p) ==
    /\ page[p].step = "verify"
    /\ Succeeded(ledger[page[p].tx])
    /\ Steps(p, "record")
    /\ OnPage

-----------------------------------------------------------------------------
(* Recording                                                               *)

Offered(p) == [seller |-> p, lot |-> token.ask, price |-> FromBaseUnits(Price), active |-> TRUE]

Closed(S) == [i \in DOMAIN row.shelf |-> [row.shelf[i] EXCEPT !.active = @ /\ i \notin S]]

\* syncListing, and indexEvmListing while the listing stands.
Published(p) ==
    [owner |-> IF net = "SOLANA" THEN p ELSE row.owner,
     shelf |-> IF ~(Asked /\ Seller = p) THEN Closed(LiveOf(p))
               ELSE IF LiveOf(p) = {} THEN Append(row.shelf, Offered(p))
               ELSE [i \in DOMAIN row.shelf |-> IF i \in LiveOf(p) THEN Offered(p) ELSE row.shelf[i]]]

\* settle: the newest ACTIVE listing is the one sold, whoever's it is.
Settled(p) ==
    IF row.owner = p THEN row
    ELSE [owner |-> p, shelf |-> IF Live = {} THEN row.shelf ELSE Closed({LastOf(Live)})]

\* The listing a transaction made, while it stands.
ListingStands(i) == token.ask = i

Recordable(p) ==
    CASE page[p].op = "list" -> net = "SOLANA" \/ ListingStands(page[p].tx)
      [] page[p].op = "cancel" -> TRUE
      [] page[p].op = "buy" -> token.holder = p
      [] page[p].op = "burn" -> token.holder = Nobody

Recording(p) ==
    CASE row.owner = Nobody -> row
      [] page[p].op \in {"list", "cancel"} -> Published(p)
      [] page[p].op = "buy" -> Settled(p)
      [] page[p].op = "burn" -> [owner |-> Nobody, shelf |-> <<>>]

\* The call is answered, or is lost on the way there or back; a cancel says the
\* same whichever it was, and a lost burn is an error (Fails).
Records(p) ==
    /\ page[p].step = "record"
    /\ \/ Recordable(p) /\ row' = Recording(p) /\ Says(p, "done")
       \/ Recordable(p) /\ row' = Recording(p) /\ Says(p, IF page[p].op = "burn" THEN "error" ELSE "behind")
       \/ page[p].op # "burn" /\ Says(p, "behind") /\ UNCHANGED row
    /\ UNCHANGED <<net, direct, token, trusted, ledger>>

DetailNext ==
    \/ \E p \in People :
          \/ Fetch(p) \/ Fails(p) \/ PrepareSolana(p) \/ PrepareEvm(p) \/ ApprovalMined(p)
          \/ Signs(p) \/ Confirms(p) \/ Verifies(p) \/ Records(p)
          \/ \E op \in {"buy", "cancel", "list", "burn"} : Presses(p, op)
    \/ \E i \in DOMAIN ledger : Lands(i)

-----------------------------------------------------------------------------
(* Properties                                                              *)

\* A purchase, a listing, a cancellation or a burn is announced only when this
\* person's own transaction did just that on chain, whatever was lost or late
\* and whoever else was faster.
DoneIsDone ==
    \A p \in People :
       page[p].says \in {"done", "behind"} =>
          LET t == ledger[page[p].tx]
          IN  t.by = p /\ t.op = page[p].op /\ t.fate = "landed"

\* A price survives the way to the chain and back: the row asks what was typed,
\* to the unit (on Base what is finer is rounded to the nearest), and the chain asks
\* that too.  The text on the page is never above it, never zero, and short of it by
\* less than one of the last digit kept, unless the price is so small that the
\* worker writes it with an exponent: that the page may cut off.
PriceSurvives ==
    \A i \in DOMAIN row.shelf :
       LET l == row.shelf[i]
           t == ledger[l.lot]
           v == Scaled(l.price, Decimals)
           fine == Len(t.text.frac)
           off == 2 * (v * Ten(fine - Decimals) - Scaled(t.text, fine))
           shown == FormatPrice(DecimalText(l.price))
           s == Scaled(shown, Decimals)
           last == IF Len(shown.frac) < Kept THEN Kept ELSE Len(shown.frac)
       IN  /\ v = t.units
           /\ IF TooFine(t.text)
              THEN net = "ETHEREUM" /\ off <= Ten(fine - Decimals) /\ -off <= Ten(fine - Decimals)
              ELSE v = Scaled(t.text, Decimals)
           /\ v >= Ten(Decimals - Exponential + 1) =>
                 0 < s /\ s <= v /\ v - s < Ten(Decimals - last)
=============================================================================

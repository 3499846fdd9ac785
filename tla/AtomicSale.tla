------------------------------ MODULE AtomicSale ------------------------------
(***************************************************************************)
(* What a marketplace promises: an asset changes hands only because its    *)
(* holder gave it away, or in one step with its price, as the holder asked *)
(* for it.  Both markets of the repository, the Solana escrow program and  *)
(* the EVM contract, are shown to implement it.                            *)
(***************************************************************************)
EXTENDS Integers

CONSTANTS
    Holders,     \* who may hold assets and money
    Assets,
    Prices,      \* a set of natural numbers
    NoOne,       \* holds what has been destroyed; an ask for nobody in particular
    House,       \* the market's own account, where its fees wait
    FeeCap,      \* the most the market may keep, in 1/10,000 of the price
    Custodial    \* TRUE when the market holds what is on offer

VARIABLES title,   \* asset -> its holder
          money,   \* holder or House -> balance
          asks     \* the asks that stand

saleVars == <<title, money, asks>>

Asks == [seller : Holders, asset : Assets, price : Prices, for : Holders \cup {NoOne}]

Init ==
    /\ title \in [Assets -> Holders]
    /\ money \in [Holders \cup {House} -> Int]
    /\ asks = {}

Ask(x) ==
    /\ title[x.asset] = x.seller
    /\ UNCHANGED <<title, money>>
    /\ asks' = asks \cup {x}

Withdraw(x) ==
    /\ x \in asks
    /\ UNCHANGED <<title, money>>
    /\ asks' = asks \ {x}

\* Only the price of an ask changes.
Reprice(x, p) ==
    /\ x \in asks
    /\ UNCHANGED <<title, money>>
    /\ asks' = (asks \ {x}) \cup {[x EXCEPT !.price = p]}

Sell(x, b, fee) ==
    /\ x \in asks
    /\ title[x.asset] = x.seller
    /\ x.for \in {NoOne, b}
    /\ fee * 10000 <= x.price * FeeCap
    /\ title' = [title EXCEPT ![x.asset] = b]
    /\ money' = [[[money EXCEPT ![b] = @ - x.price] EXCEPT ![x.seller] = @ + (x.price - fee)]
                    EXCEPT ![House] = @ + fee]
    /\ asks' = asks \ {x}

\* Given to another holder, or destroyed.
Give(a, to) ==
    /\ Custodial => \A x \in asks : x.asset # a
    /\ title' = [title EXCEPT ![a] = to]
    /\ UNCHANGED <<money, asks>>

\* The house pays out what it has kept.
Collect(to) ==
    /\ money' = [[money EXCEPT ![House] = 0] EXCEPT ![to] = @ + money[House]]
    /\ UNCHANGED <<title, asks>>

Next ==
    \/ \E x \in Asks : Ask(x)
    \/ \E x \in asks : Withdraw(x)
    \/ \E x \in asks, p \in Prices : Reprice(x, p)
    \/ \E x \in asks, b \in Holders : \E fee \in 0..x.price : Sell(x, b, fee)
    \/ \E a \in Assets, to \in Holders \cup {NoOne} : Give(a, to)
    \/ \E to \in Holders : Collect(to)

Spec == Init /\ [][Next]_saleVars
=============================================================================

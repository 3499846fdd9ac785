----------------------------- MODULE EscrowProofs -----------------------------
(***************************************************************************)
(* Proofs about the escrow program, for any wallets, assets and prices.    *)
(*                                                                         *)
(* The inductive invariant is the type invariant, with the price of every  *)
(* open account one that was asked (Priced), and Custody.  Custody is what *)
(* makes a given asset one that nobody has on offer.                       *)
(***************************************************************************)
EXTENDS EscrowProgram, TLAPS

\* An account that exists carries a price its seller chose.
Priced ==
    \A a \in Assets, s \in Wallets :
        escrow[a][s].status # "none" => escrow[a][s].price \in Prices

EscrowInv == ProgramTypeOK /\ Priced /\ Custody

THEOREM InitSound == ASSUME EscrowAssumption, Init PROVE EscrowInv
<1> USE DEF Init, NoEscrow, Wallet
<1>1. ProgramTypeOK
  BY DEF EscrowAssumption, ProgramTypeOK, Accounts, Statuses
<1>2. Priced /\ Custody
  BY DEF Priced, Custody
<1>. QED
  BY <1>1, <1>2 DEF EscrowInv

(* One account is written, and one owner field at most.                    *)

LEMMA WriteAccount ==
    ASSUME ProgramTypeOK, NEW a \in Assets, NEW s \in Wallets, NEW account \in Accounts,
           SetEscrow(a, s, account)
    PROVE  /\ escrow' \in [Assets -> [Wallets -> Accounts]]
           /\ escrow'[a][s] = account
           /\ \A b \in Assets, t \in Wallets :
                 <<b, t>> # <<a, s>> => escrow'[b][t] = escrow[b][t]
  BY DEF ProgramTypeOK, SetEscrow

LEMMA WriteOwner ==
    ASSUME ProgramTypeOK, NEW a \in Assets, NEW from, NEW to \in [of : Wallets \cup {NoOne}, escrowed : BOOLEAN],
           Moves(a, from, to)
    PROVE  /\ owner' \in [Assets -> [of : Wallets \cup {NoOne}, escrowed : BOOLEAN]]
           /\ owner[a] = from
           /\ owner'[a] = to
           /\ \A b \in Assets : b # a => owner'[b] = owner[b]
  BY DEF ProgramTypeOK, Moves

LEMMA Owners ==
    ASSUME NEW w \in Wallets
    PROVE  /\ Wallet(w) \in [of : Wallets \cup {NoOne}, escrowed : BOOLEAN]
           /\ Pda(w) \in [of : Wallets \cup {NoOne}, escrowed : BOOLEAN]
           /\ Burned \in [of : Wallets \cup {NoOne}, escrowed : BOOLEAN]
           /\ Wallet(w).of = w /\ Pda(w).of = w /\ Burned.of = NoOne
           /\ \A v \in Wallets : /\ Wallet(v) # Pda(w)
                                 /\ Burned # Pda(w)
                                 /\ Pda(v) = Pda(w) => v = w
  BY DEF Wallet, Pda, Burned

-----------------------------------------------------------------------------
(* One lemma for each instruction.                                         *)

LEMMA CreateSound ==
    ASSUME EscrowInv, NEW a \in Assets, NEW s \in Wallets, NEW p \in Prices,
           NEW b \in Wallets \cup {NoOne}, CreateEscrow(a, s, p, b)
    PROVE  EscrowInv'
<1> DEFINE account == [status |-> "Pending", price |-> p, buyer |-> b]
<1>1. account \in Accounts
  BY DEF Accounts, Statuses
<1>2. SetEscrow(a, s, account) /\ UNCHANGED <<owner, lamports>> /\ ProgramTypeOK /\ Priced /\ Custody
  BY DEF CreateEscrow, EscrowInv
<1>3. /\ escrow' \in [Assets -> [Wallets -> Accounts]]
      /\ escrow'[a][s] = account
      /\ \A c \in Assets, t \in Wallets : <<c, t>> # <<a, s>> => escrow'[c][t] = escrow[c][t]
  <2> HIDE DEF account
  <2>. QED
    BY <1>1, <1>2, WriteAccount
<1>4. account.status = "Pending" /\ account.price \in Prices
  OBVIOUS
<1> HIDE DEF account
<1>5. ProgramTypeOK' /\ Priced'
  BY <1>2, <1>3, <1>4 DEF ProgramTypeOK, Priced
<1>6. Custody'
  BY <1>2, <1>3, <1>4 DEF Custody
<1>. QED
  BY <1>5, <1>6 DEF EscrowInv

LEMMA DepositSound ==
    ASSUME EscrowInv, NEW a \in Assets, NEW s \in Wallets, DepositAsset(a, s)
    PROVE  EscrowInv'
<1> DEFINE account == [escrow[a][s] EXCEPT !.status = "Deposited"]
<1>1. ProgramTypeOK /\ Priced /\ Custody
  BY DEF EscrowInv
<1>2. escrow[a][s] \in Accounts /\ escrow[a][s].status = "Pending"
  BY <1>1 DEF ProgramTypeOK, DepositAsset
<1>3. account \in Accounts /\ account.status = "Deposited" /\ account.price = escrow[a][s].price
  BY <1>2 DEF Accounts, Statuses
<1>4. SetEscrow(a, s, account) /\ Moves(a, Wallet(s), Pda(s)) /\ UNCHANGED lamports
  BY DEF DepositAsset
<1> HIDE DEF account
<1>5. /\ escrow' \in [Assets -> [Wallets -> Accounts]]
      /\ escrow'[a][s] = account
      /\ \A c \in Assets, t \in Wallets : <<c, t>> # <<a, s>> => escrow'[c][t] = escrow[c][t]
  BY <1>1, <1>3, <1>4, WriteAccount
<1>6. /\ owner' \in [Assets -> [of : Wallets \cup {NoOne}, escrowed : BOOLEAN]]
      /\ owner[a] = Wallet(s)
      /\ owner'[a] = Pda(s)
      /\ \A c \in Assets : c # a => owner'[c] = owner[c]
  BY <1>1, <1>4, Owners, WriteOwner
<1>7. ProgramTypeOK' /\ Priced'
  <2>1. ProgramTypeOK'
    BY <1>1, <1>4, <1>5, <1>6 DEF ProgramTypeOK
  <2>2. Priced'
    BY <1>1, <1>2, <1>3, <1>5 DEF Priced
  <2>. QED
    BY <2>1, <2>2
<1>8. Custody'
  <2> SUFFICES ASSUME NEW c \in Assets, NEW t \in Wallets, escrow'[c][t].status = "Deposited"
               PROVE  owner'[c] = Pda(t)
    BY DEF Custody
  <2>1. CASE <<c, t>> = <<a, s>>
    BY <2>1, <1>6
  <2>2. CASE <<c, t>> # <<a, s>>
    <3>1. owner[c] = Pda(t)
      BY <2>2, <1>1, <1>5 DEF Custody
    <3>2. c # a
      BY <3>1, <1>6, Owners
    <3>. QED
      BY <3>1, <3>2, <1>6
  <2>. QED
    BY <2>1, <2>2
<1>. QED
  BY <1>7, <1>8 DEF EscrowInv

\* What is at one escrow's address is in no other account's custody, so an
\* account that gives the asset up may do with it as it likes.
LEMMA ReleaseSound ==
    ASSUME EscrowInv, NEW a \in Assets, NEW s \in Wallets, NEW w \in Wallets,
           NEW account \in Accounts, account.price = escrow[a][s].price,
           escrow[a][s].status = "Deposited", account.status # "Deposited",
           SetEscrow(a, s, account), Moves(a, Pda(s), Wallet(w)),
           lamports' \in [Wallets -> Nat]
    PROVE  EscrowInv'
<1>1. ProgramTypeOK /\ Priced /\ Custody
  BY DEF EscrowInv
<1>2. /\ escrow' \in [Assets -> [Wallets -> Accounts]]
      /\ escrow'[a][s] = account
      /\ \A c \in Assets, t \in Wallets : <<c, t>> # <<a, s>> => escrow'[c][t] = escrow[c][t]
  BY <1>1, WriteAccount
<1>3. /\ owner' \in [Assets -> [of : Wallets \cup {NoOne}, escrowed : BOOLEAN]]
      /\ owner[a] = Pda(s)
      /\ \A c \in Assets : c # a => owner'[c] = owner[c]
  BY <1>1, Owners, WriteOwner
<1>4. ProgramTypeOK' /\ Priced'
  <2>1. ProgramTypeOK'
    BY <1>2, <1>3 DEF ProgramTypeOK
  <2>2. Priced'
    BY <1>1, <1>2 DEF Priced
  <2>. QED
    BY <2>1, <2>2
<1>5. Custody'
  <2> SUFFICES ASSUME NEW c \in Assets, NEW t \in Wallets, escrow'[c][t].status = "Deposited"
               PROVE  owner'[c] = Pda(t)
    BY DEF Custody
  <2>1. <<c, t>> # <<a, s>>
    BY <1>2
  <2>2. owner[c] = Pda(t)
    BY <2>1, <1>1, <1>2 DEF Custody
  <2>3. c # a
    BY <2>1, <2>2, <1>3, Owners
  <2>. QED
    BY <2>2, <2>3, <1>3
<1>. QED
  BY <1>4, <1>5 DEF EscrowInv

LEMMA CancelSound ==
    ASSUME EscrowInv, NEW a \in Assets, NEW s \in Wallets, CancelEscrow(a, s)
    PROVE  EscrowInv'
<1> DEFINE account == Cancelled(escrow[a][s])
<1>1. escrow[a][s] \in Accounts /\ escrow[a][s].status = "Deposited" /\ lamports \in [Wallets -> Nat]
  BY DEF CancelEscrow, EscrowInv, ProgramTypeOK
<1>2. account \in Accounts /\ account.status = "Cancelled" /\ account.price = escrow[a][s].price
  BY <1>1 DEF Accounts, Statuses, Cancelled
<1>3. SetEscrow(a, s, account) /\ Moves(a, Pda(s), Wallet(s)) /\ lamports' = lamports
  BY DEF CancelEscrow
<1> HIDE DEF account
<1>. QED
  BY <1>1, <1>2, <1>3, ReleaseSound

LEMMA BuySound ==
    ASSUME EscrowAssumption, EscrowInv, NEW a \in Assets, NEW s \in Wallets, NEW b \in Wallets,
           BuyAsset(a, s, b)
    PROVE  EscrowInv'
<1> DEFINE account == [escrow[a][s] EXCEPT !.status = "Completed", !.buyer = b]
<1>1. escrow[a][s] \in Accounts /\ escrow[a][s].status = "Deposited" /\ lamports \in [Wallets -> Nat]
  BY DEF BuyAsset, EscrowInv, ProgramTypeOK
<1>2. account \in Accounts /\ account.status = "Completed" /\ account.price = escrow[a][s].price
  BY <1>1 DEF Accounts, Statuses
<1>3. escrow[a][s].price \in Nat /\ lamports[b] >= escrow[a][s].price
  BY <1>1 DEF BuyAsset, CanPay, EscrowInv, Priced, EscrowAssumption
<1>4. lamports' \in [Wallets -> Nat]
  <2> DEFINE price == escrow[a][s].price
             paid == [lamports EXCEPT ![b] = @ - price]
  <2>1. lamports[b] - price \in Nat
    BY <1>1, <1>3
  <2>2. paid \in [Wallets -> Nat]
    BY <1>1, <2>1
  <2>3. paid[s] + price \in Nat
    BY <2>2, <1>3
  <2>4. lamports' = [paid EXCEPT ![s] = @ + price]
    BY DEF BuyAsset
  <2> HIDE DEF paid
  <2>. QED
    BY <2>2, <2>3, <2>4
<1>5. SetEscrow(a, s, account) /\ Moves(a, Pda(s), Wallet(b))
  BY DEF BuyAsset
<1> HIDE DEF account
<1>. QED
  BY <1>1, <1>2, <1>4, <1>5, ReleaseSound

LEMMA CloseSound ==
    ASSUME EscrowInv, NEW a \in Assets, NEW s \in Wallets, CloseEscrow(a, s)
    PROVE  EscrowInv'
<1>1. ProgramTypeOK /\ Priced /\ Custody
  BY DEF EscrowInv
<1>2. NoEscrow \in Accounts /\ NoEscrow.status = "none"
  BY DEF NoEscrow, Accounts, Statuses
<1>3. SetEscrow(a, s, NoEscrow) /\ UNCHANGED <<owner, lamports>>
  BY DEF CloseEscrow
<1>4. /\ escrow' \in [Assets -> [Wallets -> Accounts]]
      /\ escrow'[a][s] = NoEscrow
      /\ \A c \in Assets, t \in Wallets : <<c, t>> # <<a, s>> => escrow'[c][t] = escrow[c][t]
  BY <1>1, <1>2, <1>3, WriteAccount
<1>5. ProgramTypeOK'
  BY <1>1, <1>3, <1>4 DEF ProgramTypeOK
<1>6. Priced'
  BY <1>1, <1>2, <1>4 DEF Priced
<1>7. Custody'
  BY <1>1, <1>2, <1>3, <1>4 DEF Custody
<1>. QED
  BY <1>5, <1>6, <1>7 DEF EscrowInv

\* Without the program an asset only leaves a wallet, which no account holds it for.
LEMMA OutsideSound ==
    ASSUME EscrowInv, NEW a \in Assets, NEW w \in Wallets,
           NEW to \in [of : Wallets \cup {NoOne}, escrowed : BOOLEAN],
           Moves(a, Wallet(w), to), UNCHANGED <<escrow, lamports>>
    PROVE  EscrowInv'
<1>1. ProgramTypeOK /\ Priced /\ Custody
  BY DEF EscrowInv
<1>2. /\ owner' \in [Assets -> [of : Wallets \cup {NoOne}, escrowed : BOOLEAN]]
      /\ owner[a] = Wallet(w)
      /\ \A c \in Assets : c # a => owner'[c] = owner[c]
  BY <1>1, WriteOwner
<1>3. \A c \in Assets, t \in Wallets : escrow[c][t].status = "Deposited" => c # a
  BY <1>1, <1>2, Owners DEF Custody
<1>4. ProgramTypeOK'
  BY <1>1, <1>2 DEF ProgramTypeOK
<1>5. Priced'
  BY <1>1 DEF Priced
<1>6. Custody'
  BY <1>1, <1>2, <1>3 DEF Custody
<1>. QED
  BY <1>4, <1>5, <1>6 DEF EscrowInv

THEOREM StepSound ==
    ASSUME EscrowAssumption, EscrowInv, [ProgramNext]_escrowVars
    PROVE  EscrowInv'
<1>1. CASE UNCHANGED escrowVars
  BY <1>1 DEF escrowVars, EscrowInv, ProgramTypeOK, Priced, Custody
<1>2. ASSUME NEW a \in Assets, NEW s \in Wallets, NEW w \in Wallets,
             SellerActs(a, s) \/ BuyAsset(a, s, w)
                \/ TransferAsset(a, s, Wallet(w)) \/ TransferAsset(a, s, Pda(w))
      PROVE  EscrowInv'
  <2>1. CASE \E p \in Prices, b \in Wallets \cup {NoOne} : CreateEscrow(a, s, p, b)
    BY <2>1, CreateSound
  <2>2. CASE DepositAsset(a, s)
    BY <2>2, DepositSound
  <2>3. CASE CancelEscrow(a, s)
    BY <2>3, CancelSound
  <2>4. CASE CloseEscrow(a, s)
    BY <2>4, CloseSound
  <2>5. CASE BuyAsset(a, s, w)
    BY <2>5, BuySound
  <2>6. CASE BurnAsset(a, s)
    BY <2>6, Owners, OutsideSound DEF BurnAsset
  <2>7. CASE TransferAsset(a, s, Wallet(w)) \/ TransferAsset(a, s, Pda(w))
    BY <2>7, Owners, OutsideSound DEF TransferAsset
  <2>. QED
    BY <1>2, <2>1, <2>2, <2>3, <2>4, <2>5, <2>6, <2>7 DEF SellerActs
<1>. QED
  BY <1>1, <1>2 DEF ProgramNext

\* create_escrow, deposit_asset, buy_asset, cancel_escrow, close_escrow and what
\* wallets do by themselves keep every account well formed and no balance
\* negative.
THEOREM EscrowTypeCorrect == ASSUME EscrowAssumption PROVE ProgramSpec => []ProgramTypeOK
<1>1. Init => EscrowInv
  BY InitSound
<1>2. EscrowInv /\ [ProgramNext]_escrowVars => EscrowInv'
  BY StepSound
<1>3. EscrowInv => ProgramTypeOK
  BY DEF EscrowInv
<1>. QED
  BY <1>1, <1>2, <1>3, PTL DEF ProgramSpec

\* What an escrow account calls Deposited is at its address (buy_asset and
\* cancel_escrow can always move it).
THEOREM KeepsCustody == ASSUME EscrowAssumption PROVE ProgramSpec => []Custody
<1>1. Init => EscrowInv
  BY InitSound
<1>2. EscrowInv /\ [ProgramNext]_escrowVars => EscrowInv'
  BY StepSound
<1>3. EscrowInv => Custody
  BY DEF EscrowInv
<1>. QED
  BY <1>1, <1>2, <1>3, PTL DEF ProgramSpec

LEMMA StepStrandsNothing ==
    ASSUME EscrowInv, [ProgramNext]_escrowVars, NEW a \in Assets, NEW s \in Wallets,
           escrow[a][s].status = "Deposited"
    PROVE  escrow'[a][s].status = "Deposited" \/ owner'[a] # Pda(s)
<1>1. /\ ProgramTypeOK /\ NoEscrow \in Accounts
      /\ \A c \in Assets, t \in Wallets : escrow[c][t] \in Accounts
  BY DEF EscrowInv, ProgramTypeOK, NoEscrow, Accounts, Statuses
\* Writing another account leaves this one alone.
<1>2. ASSUME NEW c \in Assets, NEW t \in Wallets, NEW account \in Accounts,
             SetEscrow(c, t, account), escrow[c][t].status # "Deposited"
      PROVE  escrow'[a][s].status = "Deposited"
  BY <1>1, <1>2, WriteAccount
\* An asset is released from the account that held it to a wallet.
<1>3. ASSUME NEW c \in Assets, NEW t \in Wallets, NEW w \in Wallets, NEW account \in Accounts,
             SetEscrow(c, t, account), Moves(c, Pda(t), Wallet(w))
      PROVE  escrow'[a][s].status = "Deposited" \/ owner'[a] # Pda(s)
  <2>1. CASE <<c, t>> = <<a, s>>
    BY <2>1, <1>1, <1>3, Owners, WriteOwner
  <2>2. CASE <<c, t>> # <<a, s>>
    BY <2>2, <1>1, <1>3, WriteAccount
  <2>. QED
    BY <2>1, <2>2
<1>4. CASE escrow' = escrow
  BY <1>4
<1>5. ASSUME NEW c \in Assets, NEW t \in Wallets, NEW p \in Prices, NEW b \in Wallets \cup {NoOne},
             CreateEscrow(c, t, p, b)
      PROVE  escrow'[a][s].status = "Deposited"
  <2>1. [status |-> "Pending", price |-> p, buyer |-> b] \in Accounts
    BY DEF Accounts, Statuses
  <2>. QED
    BY <2>1, <1>2, <1>5 DEF CreateEscrow, Vacant
<1>6. ASSUME NEW c \in Assets, NEW t \in Wallets, DepositAsset(c, t)
      PROVE  escrow'[a][s].status = "Deposited"
  <2>1. [escrow[c][t] EXCEPT !.status = "Deposited"] \in Accounts
    BY <1>1 DEF Accounts, Statuses
  <2>. QED
    BY <2>1, <1>2, <1>6 DEF DepositAsset
<1>7. ASSUME NEW c \in Assets, NEW t \in Wallets, CancelEscrow(c, t)
      PROVE  escrow'[a][s].status = "Deposited" \/ owner'[a] # Pda(s)
  <2>1. Cancelled(escrow[c][t]) \in Accounts
    BY <1>1 DEF Accounts, Statuses, Cancelled
  <2>. QED
    BY <2>1, <1>3, <1>7 DEF CancelEscrow
<1>8. ASSUME NEW c \in Assets, NEW t \in Wallets, NEW b \in Wallets, BuyAsset(c, t, b)
      PROVE  escrow'[a][s].status = "Deposited" \/ owner'[a] # Pda(s)
  <2>1. [escrow[c][t] EXCEPT !.status = "Completed", !.buyer = b] \in Accounts
    BY <1>1 DEF Accounts, Statuses
  <2>. QED
    BY <2>1, <1>3, <1>8 DEF BuyAsset
<1>9. ASSUME NEW c \in Assets, NEW t \in Wallets, CloseEscrow(c, t)
      PROVE  escrow'[a][s].status = "Deposited"
  <2>1. escrow[c][t].status # "Deposited"
    BY <1>9 DEF CloseEscrow, Closable
  <2>. QED
    BY <2>1, <1>1, <1>2, <1>9 DEF CloseEscrow
<1>. QED
  BY <1>4, <1>5, <1>6, <1>7, <1>8, <1>9
     DEF ProgramNext, SellerActs, BurnAsset, TransferAsset, escrowVars

\* close_escrow, create_escrow and cancel_escrow leave no asset at an address
\* whose account no longer says Deposited.
THEOREM StrandsNothing == ASSUME EscrowAssumption PROVE ProgramSpec => NeverStranded
<1>1. Init => EscrowInv
  BY InitSound
<1>2. EscrowInv /\ [ProgramNext]_escrowVars => EscrowInv'
  BY StepSound
<1>3. EscrowInv /\ [ProgramNext]_escrowVars =>
        [\A a \in Assets, s \in Wallets :
          escrow[a][s].status = "Deposited"
             => escrow'[a][s].status = "Deposited" \/ owner'[a] # Pda(s)]_escrowVars
  BY StepStrandsNothing
<1>. QED
  BY <1>1, <1>2, <1>3, PTL DEF ProgramSpec, NeverStranded

-----------------------------------------------------------------------------
(* The escrow program implements the abstract market.                      *)

LEMMA OfferFact ==
    ASSUME NEW x \in Terms, x \in Offers
    PROVE  escrow[x.asset][x.seller] = OnSale(x)
  BY DEF Offers

\* The one account written decides the one ask that appears or goes.
LEMMA OffersAfter ==
    ASSUME EscrowInv, NEW a \in Assets, NEW s \in Wallets, NEW account \in Accounts,
           SetEscrow(a, s, account)
    PROVE  Offers' = {x \in Terms : IF x.asset = a /\ x.seller = s THEN account = OnSale(x)
                                                                   ELSE x \in Offers}
<1>1. ProgramTypeOK
  BY DEF EscrowInv
<1>2. /\ escrow'[a][s] = account
      /\ \A c \in Assets, t \in Wallets : <<c, t>> # <<a, s>> => escrow'[c][t] = escrow[c][t]
  BY <1>1, WriteAccount
<1>3. \A x \in Terms : x.asset \in Assets /\ x.seller \in Wallets
  BY DEF Terms
<1>4. \A x \in Terms : escrow'[x.asset][x.seller] = OnSale(x)
          <=> IF x.asset = a /\ x.seller = s THEN account = OnSale(x)
                                             ELSE escrow[x.asset][x.seller] = OnSale(x)
  BY <1>2, <1>3
<1>5. Offers' = {x \in Terms : escrow'[x.asset][x.seller] = OnSale(x)}
  BY DEF Offers, OnSale, Terms
<1>. QED
  BY <1>4, <1>5 DEF Offers

\* An account that is not Deposited before or after shows nothing.
LEMMA OffersSame ==
    ASSUME EscrowInv, NEW a \in Assets, NEW s \in Wallets, NEW account \in Accounts,
           SetEscrow(a, s, account),
           escrow[a][s].status # "Deposited", account.status # "Deposited"
    PROVE  Offers' = Offers
  BY OffersAfter DEF Offers, OnSale

\* The ask a Deposited account makes.
LEMMA OfferOf ==
    ASSUME EscrowInv, NEW a \in Assets, NEW s \in Wallets, NEW account \in Accounts,
           account.status = "Deposited", account.price \in Prices
    PROVE  LET x == [seller |-> s, asset |-> a, price |-> account.price, for |-> account.buyer]
           IN  /\ x \in Terms
               /\ OnSale(x) = account
               /\ \A y \in Terms : y.asset = a /\ y.seller = s /\ OnSale(y) = account => y = x
<1> DEFINE x == [seller |-> s, asset |-> a, price |-> account.price, for |-> account.buyer]
<1>1. x \in Terms
  BY DEF Terms, Accounts
<1>2. OnSale(x) = account
  BY DEF OnSale, Accounts
<1>3. \A y \in Terms : y.asset = a /\ y.seller = s /\ OnSale(y) = account => y = x
  BY DEF OnSale, Terms
<1>. QED
  BY <1>1, <1>2, <1>3

LEMMA CreateMaps ==
    ASSUME EscrowInv, NEW a \in Assets, NEW s \in Wallets, NEW p \in Prices,
           NEW b \in Wallets \cup {NoOne}, CreateEscrow(a, s, p, b)
    PROVE  UNCHANGED Sale!saleVars
<1> DEFINE account == [status |-> "Pending", price |-> p, buyer |-> b]
<1>1. account \in Accounts /\ account.status = "Pending"
  BY DEF Accounts, Statuses
<1>2. SetEscrow(a, s, account) /\ escrow[a][s].status = "none" /\ UNCHANGED <<owner, lamports>>
  BY DEF CreateEscrow, Vacant
<1>3. Offers' = Offers
  <2> HIDE DEF account
  <2>. QED
    BY <1>1, <1>2, OffersSame
<1>. QED
  BY <1>2, <1>3 DEF Sale!saleVars, Titles, Money

LEMMA CloseMaps ==
    ASSUME EscrowInv, NEW a \in Assets, NEW s \in Wallets, CloseEscrow(a, s)
    PROVE  UNCHANGED Sale!saleVars
<1>1. NoEscrow \in Accounts /\ NoEscrow.status = "none"
  BY DEF NoEscrow, Accounts, Statuses
<1>2. /\ SetEscrow(a, s, NoEscrow) /\ UNCHANGED <<owner, lamports>>
      /\ escrow[a][s].status # "Deposited"
  BY DEF CloseEscrow, Closable
<1>3. Offers' = Offers
  BY <1>1, <1>2, OffersSame
<1>. QED
  BY <1>2, <1>3 DEF Sale!saleVars, Titles, Money

LEMMA DepositMaps ==
    ASSUME EscrowInv, NEW a \in Assets, NEW s \in Wallets, DepositAsset(a, s)
    PROVE  \E x \in Sale!Asks : Sale!Ask(x)
<1> DEFINE account == [escrow[a][s] EXCEPT !.status = "Deposited"]
           x == [seller |-> s, asset |-> a, price |-> account.price, for |-> account.buyer]
<1>1. /\ escrow[a][s] \in Accounts /\ escrow[a][s].status = "Pending"
      /\ owner \in [Assets -> [of : Wallets \cup {NoOne}, escrowed : BOOLEAN]]
  BY DEF DepositAsset, EscrowInv, ProgramTypeOK
<1>2. account \in Accounts /\ account.status = "Deposited" /\ account.price \in Prices
  BY <1>1 DEF Accounts, Statuses, EscrowInv, Priced
<1>3. SetEscrow(a, s, account) /\ Moves(a, Wallet(s), Pda(s)) /\ UNCHANGED lamports
  BY DEF DepositAsset
<1> HIDE DEF account
<1>4. /\ x \in Terms /\ OnSale(x) = account
      /\ \A y \in Terms : y.asset = a /\ y.seller = s /\ OnSale(y) = account => y = x
  BY <1>2, OfferOf
<1>5. x.asset = a /\ x.seller = s
  OBVIOUS
<1> HIDE DEF x
<1>6. Offers' = Offers \cup {x}
  <2>1. Offers' = {y \in Terms : IF y.asset = a /\ y.seller = s THEN account = OnSale(y)
                                                                ELSE y \in Offers}
    BY <1>2, <1>3, OffersAfter
  <2>2. \A y \in Terms : y.asset = a /\ y.seller = s => y \notin Offers
    BY <1>1 DEF Offers, OnSale
  <2>3. Offers \subseteq Terms
    BY DEF Offers
  <2>. QED
    BY <2>1, <2>2, <2>3, <1>4, <1>5
<1>7. Titles' = Titles /\ Titles[a] = s
  <2>1. owner[a] = Wallet(s) /\ owner' = [owner EXCEPT ![a] = Pda(s)]
    BY <1>3 DEF Moves
  <2>. QED
    BY <2>1, <1>1, Owners DEF Titles
<1>8. Money' = Money
  BY <1>3 DEF Money
<1>. QED
  BY <1>4, <1>5, <1>6, <1>7, <1>8 DEF Sale!Asks, Sale!Ask, Terms

\* The account that is given up takes its ask with it.
LEMMA OfferGone ==
    ASSUME EscrowInv, NEW a \in Assets, NEW s \in Wallets, NEW account \in Accounts,
           escrow[a][s].status = "Deposited", account.status # "Deposited",
           SetEscrow(a, s, account)
    PROVE  LET x == [seller |-> s, asset |-> a, price |-> escrow[a][s].price, for |-> escrow[a][s].buyer]
           IN  /\ x \in Offers
               /\ Offers' = Offers \ {x}
<1> DEFINE x == [seller |-> s, asset |-> a, price |-> escrow[a][s].price, for |-> escrow[a][s].buyer]
<1>1. escrow[a][s] \in Accounts /\ escrow[a][s].price \in Prices
  BY DEF EscrowInv, ProgramTypeOK, Priced
<1>2. /\ x \in Terms /\ OnSale(x) = escrow[a][s]
      /\ \A y \in Terms : y.asset = a /\ y.seller = s /\ OnSale(y) = escrow[a][s] => y = x
  BY <1>1, OfferOf
<1>3. x.asset = a /\ x.seller = s
  OBVIOUS
<1> HIDE DEF x
<1>4. x \in Offers
  BY <1>2, <1>3 DEF Offers
<1>5. Offers' = {y \in Terms : IF y.asset = a /\ y.seller = s THEN account = OnSale(y)
                                                              ELSE y \in Offers}
  BY OffersAfter
<1>6. \A y \in Terms : OnSale(y) # account
  BY DEF OnSale
<1>7. \A y \in Offers : y \in Terms /\ (y.asset = a /\ y.seller = s => y = x)
  BY <1>2 DEF Offers
<1>8. Offers' = Offers \ {x}
  BY <1>3, <1>5, <1>6, <1>7
<1>. QED
  BY <1>4, <1>8 DEF x

LEMMA CancelMaps ==
    ASSUME EscrowInv, NEW a \in Assets, NEW s \in Wallets, CancelEscrow(a, s)
    PROVE  \E x \in Offers : Sale!Withdraw(x)
<1> DEFINE account == Cancelled(escrow[a][s])
           x == [seller |-> s, asset |-> a, price |-> escrow[a][s].price, for |-> escrow[a][s].buyer]
<1>1. /\ escrow[a][s] \in Accounts /\ escrow[a][s].status = "Deposited"
      /\ owner \in [Assets -> [of : Wallets \cup {NoOne}, escrowed : BOOLEAN]]
  BY DEF CancelEscrow, EscrowInv, ProgramTypeOK
<1>2. account \in Accounts /\ account.status = "Cancelled"
  BY <1>1 DEF Accounts, Statuses, Cancelled
<1>3. SetEscrow(a, s, account) /\ Moves(a, Pda(s), Wallet(s)) /\ UNCHANGED lamports
  BY DEF CancelEscrow
<1> HIDE DEF account
<1>4. x \in Offers /\ Offers' = Offers \ {x}
  BY <1>1, <1>2, <1>3, OfferGone
<1>5. Titles' = Titles
  <2>1. owner[a] = Pda(s) /\ owner' = [owner EXCEPT ![a] = Wallet(s)]
    BY <1>3 DEF Moves
  <2>. QED
    BY <2>1, <1>1, Owners DEF Titles
<1>6. Money' = Money
  BY <1>3 DEF Money
<1>. QED
  BY <1>4, <1>5, <1>6 DEF Sale!Withdraw

LEMMA BuyMaps ==
    ASSUME EscrowAssumption, EscrowInv, NEW a \in Assets, NEW s \in Wallets, NEW b \in Wallets,
           BuyAsset(a, s, b)
    PROVE  \E x \in Offers : \E fee \in 0..x.price : Sale!Sell(x, b, fee)
<1> DEFINE account == [escrow[a][s] EXCEPT !.status = "Completed", !.buyer = b]
           price == escrow[a][s].price
           x == [seller |-> s, asset |-> a, price |-> escrow[a][s].price, for |-> escrow[a][s].buyer]
<1>1. /\ escrow[a][s] \in Accounts /\ escrow[a][s].status = "Deposited"
      /\ owner \in [Assets -> [of : Wallets \cup {NoOne}, escrowed : BOOLEAN]]
      /\ lamports \in [Wallets -> Nat]
  BY DEF BuyAsset, EscrowInv, ProgramTypeOK
<1>2. account \in Accounts /\ account.status = "Completed"
  BY <1>1 DEF Accounts, Statuses
<1>3. /\ SetEscrow(a, s, account) /\ Moves(a, Pda(s), Wallet(b))
      /\ escrow[a][s].buyer \in {NoOne, b}
      /\ lamports' = [[lamports EXCEPT ![b] = @ - price] EXCEPT ![s] = @ + price]
  BY DEF BuyAsset, MayBuy
<1>4. price \in Nat
  BY <1>1 DEF EscrowInv, Priced, EscrowAssumption
<1> HIDE DEF account
<1>5. x \in Offers /\ Offers' = Offers \ {x}
  BY <1>1, <1>2, <1>3, OfferGone
<1>6. Titles' = [Titles EXCEPT ![a] = b] /\ Titles[a] = s
  <2>1. owner[a] = Pda(s) /\ owner' = [owner EXCEPT ![a] = Wallet(b)]
    BY <1>3 DEF Moves
  <2>. QED
    BY <2>1, <1>1, Owners DEF Titles
<1>7. Money' = [[[Money EXCEPT ![b] = @ - price] EXCEPT ![s] = @ + (price - 0)] EXCEPT ![House] = @ + 0]
  <2> HIDE DEF price
  <2>1. b # House /\ s # House
    BY DEF EscrowAssumption
  <2>2. Money' = [w \in Wallets \cup {House} |-> IF w = House THEN 0 ELSE lamports'[w]]
    BY DEF Money
  <2> DEFINE paid == [Money EXCEPT ![b] = @ - price]
             got == [paid EXCEPT ![s] = @ + (price - 0)]
             kept == [got EXCEPT ![House] = @ + 0]
  <2>3. /\ Money \in [Wallets \cup {House} -> Int]
        /\ Money[House] = 0
        /\ \A w \in Wallets : w # House /\ Money[w] = lamports[w]
    BY <1>1 DEF Money, EscrowAssumption
  <2>4. /\ paid \in [Wallets \cup {House} -> Int]
        /\ paid[House] = 0
        /\ \A w \in Wallets : paid[w] = IF w = b THEN lamports[w] - price ELSE lamports[w]
    BY <2>1, <2>3, <1>4
  <2>5. \A w \in Wallets : [lamports EXCEPT ![b] = @ - price][w]
                             = IF w = b THEN lamports[w] - price ELSE lamports[w]
    BY <1>1
  <2> HIDE DEF paid
  <2>6. /\ got \in [Wallets \cup {House} -> Int]
        /\ got[House] = 0
        /\ \A w \in Wallets : got[w] = IF w = s THEN paid[w] + price ELSE paid[w]
    BY <2>1, <2>4, <1>4
  <2>7. \A w \in Wallets : lamports'[w] = IF w = s THEN paid[w] + price ELSE paid[w]
    BY <2>4, <2>5, <1>1, <1>3
  <2> HIDE DEF got
  <2>8. /\ kept \in [Wallets \cup {House} -> Int]
        /\ \A w \in Wallets \cup {House} : kept[w] = IF w = House THEN 0 ELSE lamports'[w]
    BY <2>3, <2>6, <2>7
  <2>9. kept = [[[Money EXCEPT ![b] = @ - price] EXCEPT ![s] = @ + (price - 0)] EXCEPT ![House] = @ + 0]
    BY DEF got, paid
  <2> HIDE DEF kept
  <2>. QED
    BY <2>2, <2>8, <2>9
<1>8. 0 \in 0..x.price /\ 0 * 10000 <= x.price * 0
  BY <1>4
<1>9. x.asset = a /\ x.seller = s /\ x.price = price /\ x.for = escrow[a][s].buyer
  OBVIOUS
<1> HIDE DEF x, price
<1>10. Sale!Sell(x, b, 0)
  BY <1>3, <1>5, <1>6, <1>7, <1>8, <1>9 DEF Sale!Sell
<1>. QED
  BY <1>5, <1>8, <1>10

LEMMA GiveMaps ==
    ASSUME EscrowAssumption, EscrowInv, NEW a \in Assets, NEW w \in Wallets,
           NEW to \in [of : Wallets \cup {NoOne}, escrowed : BOOLEAN],
           Moves(a, Wallet(w), to), UNCHANGED <<escrow, lamports>>
    PROVE  Sale!Give(a, to.of) /\ to.of \in Wallets \cup {NoOne}
<1>1. \A x \in Offers : x.asset # a
  <2> SUFFICES ASSUME NEW x \in Offers, x.asset = a
               PROVE  FALSE
    OBVIOUS
  <2>1. x \in Terms /\ escrow[x.asset][x.seller] = OnSale(x)
    BY DEF Offers
  <2>2. x.seller \in Wallets /\ escrow[a][x.seller].status = "Deposited"
    BY <2>1 DEF Terms, OnSale
  <2>3. owner[a] = Pda(x.seller)
    BY <2>2 DEF EscrowInv, Custody
  <2>4. owner[a] = Wallet(w)
    BY DEF Moves
  <2>. QED
    BY <2>2, <2>3, <2>4, Owners
<1>2. owner \in [Assets -> [of : Wallets \cup {NoOne}, escrowed : BOOLEAN]]
  BY DEF EscrowInv, ProgramTypeOK
<1>3. Titles' = [Titles EXCEPT ![a] = to.of]
  BY <1>2 DEF Titles, Moves
<1>4. Offers' = Offers /\ Money' = Money
  BY DEF Offers, OnSale, Terms, Money
<1>5. to.of \in Wallets \cup {NoOne}
  OBVIOUS
<1>. QED
  BY <1>1, <1>3, <1>4, <1>5 DEF Sale!Give

LEMMA InitMaps == ASSUME EscrowAssumption, Init PROVE Sale!Init
<1>1. Titles \in [Assets -> Wallets]
  BY DEF Init, Titles, Wallet
<1>2. Money \in [Wallets \cup {House} -> Int]
  BY DEF Init, Money, EscrowAssumption
<1>3. Offers = {}
  BY DEF Init, Offers, OnSale, NoEscrow, Terms
<1>. QED
  BY <1>1, <1>2, <1>3 DEF Sale!Init

LEMMA StepMaps ==
    ASSUME EscrowAssumption, EscrowInv, [ProgramNext]_escrowVars
    PROVE  [Sale!Next]_Sale!saleVars
<1>1. CASE UNCHANGED escrowVars
  BY <1>1 DEF escrowVars, Sale!saleVars, Titles, Money, Offers, OnSale, Terms
<1>2. ASSUME NEW a \in Assets, NEW s \in Wallets, NEW w \in Wallets,
             SellerActs(a, s) \/ BuyAsset(a, s, w)
                \/ TransferAsset(a, s, Wallet(w)) \/ TransferAsset(a, s, Pda(w))
      PROVE  [Sale!Next]_Sale!saleVars
  <2>1. CASE \E p \in Prices, b \in Wallets \cup {NoOne} : CreateEscrow(a, s, p, b)
    BY <2>1, CreateMaps
  <2>2. CASE DepositAsset(a, s)
    BY <2>2, DepositMaps DEF Sale!Next
  <2>3. CASE CancelEscrow(a, s)
    BY <2>3, CancelMaps DEF Sale!Next
  <2>4. CASE CloseEscrow(a, s)
    BY <2>4, CloseMaps
  <2>5. CASE BuyAsset(a, s, w)
    BY <2>5, BuyMaps DEF Sale!Next
  <2>6. CASE BurnAsset(a, s)
    <3>1. Sale!Give(a, Burned.of) /\ Burned.of \in Wallets \cup {NoOne}
      BY <2>6, Owners, GiveMaps DEF BurnAsset
    <3>. QED
      BY <3>1 DEF Sale!Next
  <2>7. CASE TransferAsset(a, s, Wallet(w))
    <3>1. Sale!Give(a, Wallet(w).of) /\ Wallet(w).of \in Wallets \cup {NoOne}
      BY <2>7, Owners, GiveMaps DEF TransferAsset
    <3>. QED
      BY <3>1 DEF Sale!Next
  <2>8. CASE TransferAsset(a, s, Pda(w))
    <3>1. Sale!Give(a, Pda(w).of) /\ Pda(w).of \in Wallets \cup {NoOne}
      BY <2>8, Owners, GiveMaps DEF TransferAsset
    <3>. QED
      BY <3>1 DEF Sale!Next
  <2>. QED
    BY <1>2, <2>1, <2>2, <2>3, <2>4, <2>5, <2>6, <2>7, <2>8 DEF SellerActs
<1>. QED
  BY <1>1, <1>2 DEF ProgramNext

\* buy_asset is the only way an asset on offer changes hands: in one step with
\* its price, to a buyer its seller allowed.
THEOREM ImplementsSale == ASSUME EscrowAssumption PROVE ProgramSpec => SellsAtomically
<1>1. Init => EscrowInv
  BY InitSound
<1>2. EscrowInv /\ [ProgramNext]_escrowVars => EscrowInv'
  BY StepSound
<1>3. Init => Sale!Init
  BY InitMaps
<1>4. EscrowInv /\ [ProgramNext]_escrowVars => [Sale!Next]_Sale!saleVars
  BY StepMaps
<1>. QED
  BY <1>1, <1>2, <1>3, <1>4, PTL DEF ProgramSpec, SellsAtomically, Sale!Spec
=============================================================================

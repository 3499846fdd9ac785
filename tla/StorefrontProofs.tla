-------------------------- MODULE StorefrontProofs --------------------------
(***************************************************************************)
(* Storefront keeps its properties for any number of assets, wallets,      *)
(* requests and rows.                                                      *)
(*                                                                         *)
(* Everything rests on WorkInv: what a handler has read stays good enough  *)
(* for its later statements, since rows never change their asset, are      *)
(* never re-opened, and a burned asset stays burned.  One lemma per        *)
(* statement shows that it leaves WorkInv in place for its own request,    *)
(* and OthersSound that it does so for every other.                        *)
(***************************************************************************)
EXTENDS Storefront, SequenceTheorems, WellFoundedInduction, TLAPS

-----------------------------------------------------------------------------
(* Rows.                                                                    *)

LEMMA ListingRow ==
  ASSUME ShopTypeOK
  PROVE  /\ DOMAIN listing = 1..Len(listing) /\ Len(listing) \in Nat
         /\ \A i \in DOMAIN listing : listing[i] \in ListingRows
  BY LenProperties, ElementOfSeq DEF ShopTypeOK

LEMMA PurchaseRow ==
  ASSUME ShopTypeOK
  PROVE  /\ DOMAIN purchase = 1..Len(purchase) /\ Len(purchase) \in Nat
         /\ \A i \in DOMAIN purchase : purchase[i] \in PurchaseRows
  BY LenProperties, ElementOfSeq DEF ShopTypeOK

LEMMA BoughtRow ==
  ASSUME ShopTypeOK
  PROVE  /\ DOMAIN bought = 1..Len(bought) /\ Len(bought) \in Nat
         /\ \A i \in DOMAIN bought : bought[i].asset \in Assets /\ bought[i].buyer \in Wallets
  <1>1. DOMAIN bought = 1..Len(bought) /\ Len(bought) \in Nat
    BY LenProperties DEF ShopTypeOK
  <1>2. \A i \in DOMAIN bought : bought[i] \in Purchases
    BY <1>1, ElementOfSeq DEF ShopTypeOK
  <1> QED BY <1>1, <1>2 DEF Purchases

\* A bounded set of row numbers has a greatest one: "newest" finds a row.
LEMMA NewestExists ==
  ASSUME NEW n \in Nat, NEW S \in SUBSET (1..n), S # {}
  PROVE  Max(S) \in S
  <1> DEFINE T == {k \in Nat : n - k \in S}
             R == {p \in Nat \X Nat : p[1] < p[2]}
  <1>1. T # {}
    <2>1. PICK y \in S : TRUE OBVIOUS
    <2>2. n - y \in Nat /\ n - (n - y) = y BY <2>1
    <2> QED BY <2>1, <2>2
  <1>2. IsWellFoundedOn(R, Nat) BY NatLessThanWellFounded DEF OpToRel
  <1>3. PICK k \in T : \A j \in T : ~(<<j, k>> \in R)
    <2> HIDE DEF R
    <2>1. T \in SUBSET Nat OBVIOUS
    <2> HIDE DEF T
    <2> QED BY <1>1, <1>2, <2>1, WFMin
  <1>4. \A j \in T : ~(j < k) BY <1>3
  <1>5. ASSUME NEW y \in S PROVE n - k >= y
    <2>1. n - y \in Nat /\ n - (n - y) = y OBVIOUS
    <2>2. n - y \in T BY <2>1
    <2> QED BY <1>4, <2>1, <2>2
  <1> QED BY <1>5 DEF Max

-----------------------------------------------------------------------------
(* What may happen to the listings.                                         *)

\* Rows are never removed from the table's history, never change hands to another
\* asset, and come back neither from a closed status nor from deletion.
ListingsGrow ==
    /\ DOMAIN listing \subseteq DOMAIN listing'
    /\ \A i \in DOMAIN listing :
          /\ listing'[i].asset = listing[i].asset
          /\ listing[i].status # "ACTIVE" => listing'[i].status # "ACTIVE"
          /\ listing[i].status = "deleted" => listing'[i].status = "deleted"

LEMMA ListingRewritten ==
  ASSUME ShopTypeOK, NEW i \in DOMAIN listing, NEW row \in ListingRows,
         row.asset = listing[i].asset,
         listing[i].status # "ACTIVE" => row.status # "ACTIVE",
         listing[i].status # "deleted",
         listing' = [listing EXCEPT ![i] = row]
  PROVE  listing' \in Seq(ListingRows) /\ DOMAIN listing' = DOMAIN listing /\ ListingsGrow
  <1>1. DOMAIN listing = 1..Len(listing) BY ListingRow
  <1>2. /\ listing' \in Seq(ListingRows) /\ Len(listing') = Len(listing)
        /\ \A j \in 1..Len(listing) : listing'[j] = IF j = i THEN row ELSE listing[j]
    BY <1>1, ExceptSeq DEF ShopTypeOK
  <1>3. DOMAIN listing' = 1..Len(listing') BY <1>2, LenProperties
  <1> QED BY <1>1, <1>2, <1>3 DEF ListingsGrow

\* The two statements that update a listing row by id.
LEMMA StatusSet ==
  ASSUME ShopTypeOK, NEW i \in DOMAIN listing, Exists(i), NEW s \in {"CANCELLED", "SOLD"},
         SetStatus(i, s)
  PROVE  listing' \in Seq(ListingRows) /\ DOMAIN listing' = DOMAIN listing /\ ListingsGrow
  <1> DEFINE row == [listing[i] EXCEPT !.status = s]
  <1>1. listing[i] \in ListingRows BY ListingRow
  <1>2. row \in ListingRows /\ row.asset = listing[i].asset /\ row.status = s
    BY <1>1 DEF ListingRows
  <1>3. listing' = [listing EXCEPT ![i] = row] BY DEF SetStatus
  <1> HIDE DEF row
  <1> QED BY <1>2, <1>3, ListingRewritten DEF Exists

LEMMA PriceSet ==
  ASSUME ShopTypeOK, NEW i \in DOMAIN listing, Exists(i), NEW p \in Nat,
         listing' = [listing EXCEPT ![i] = Repriced(@, p)]
  PROVE  listing' \in Seq(ListingRows) /\ DOMAIN listing' = DOMAIN listing /\ ListingsGrow
  <1> DEFINE row == Repriced(listing[i], p)
  <1>1. listing[i] \in ListingRows BY ListingRow
  <1>2. row \in ListingRows /\ row.asset = listing[i].asset /\ row.status = listing[i].status
    BY <1>1 DEF ListingRows, Repriced
  <1>3. listing' = [listing EXCEPT ![i] = row] OBVIOUS
  <1> HIDE DEF row
  <1> QED BY <1>2, <1>3, ListingRewritten DEF Exists

LEMMA ListingAdded ==
  ASSUME ShopTypeOK, NEW row \in ListingRows, listing' = Append(listing, row)
  PROVE  /\ listing' \in Seq(ListingRows) /\ ListingsGrow
         /\ \A i \in DOMAIN listing' : i \in DOMAIN listing \/ listing'[i] = row
         /\ \A i \in DOMAIN listing : listing'[i] = listing[i]
  <1>1. DOMAIN listing = 1..Len(listing) /\ Len(listing) \in Nat BY ListingRow
  <1>2. /\ listing' \in Seq(ListingRows) /\ Len(listing') = Len(listing) + 1
        /\ \A i \in 1..Len(listing) : listing'[i] = listing[i]
        /\ listing'[Len(listing) + 1] = row
    BY AppendProperties DEF ShopTypeOK
  <1>3. DOMAIN listing' = 1..Len(listing') BY <1>2, LenProperties
  <1> QED BY <1>1, <1>2, <1>3 DEF ListingsGrow

\* A burned asset's listings go together, and no other's.
LEMMA ListingsDeleted ==
  ASSUME ShopTypeOK, NEW a \in Assets,
         listing' = [i \in DOMAIN listing |->
            IF listing[i].asset = a THEN [listing[i] EXCEPT !.status = "deleted"] ELSE listing[i]]
  PROVE  /\ listing' \in Seq(ListingRows) /\ DOMAIN listing' = DOMAIN listing /\ ListingsGrow
         /\ \A i \in DOMAIN listing : listing[i].asset = a => listing'[i].status = "deleted"
  <1>1. /\ DOMAIN listing = 1..Len(listing) /\ Len(listing) \in Nat
        /\ \A i \in DOMAIN listing : listing[i] \in ListingRows
    BY ListingRow
  <1>2. \A i \in DOMAIN listing :
          /\ [listing[i] EXCEPT !.status = "deleted"] \in ListingRows
          /\ [listing[i] EXCEPT !.status = "deleted"].status = "deleted"
          /\ [listing[i] EXCEPT !.status = "deleted"].asset = listing[i].asset
    BY <1>1 DEF ListingRows
  <1>3. \A i \in DOMAIN listing :
          /\ listing'[i] \in ListingRows /\ listing'[i].asset = listing[i].asset
          /\ listing[i].asset = a => listing'[i].status = "deleted"
          /\ listing[i].asset # a => listing'[i] = listing[i]
    BY <1>2, <1>1
  <1>4. DOMAIN listing' = DOMAIN listing OBVIOUS
  <1>5. listing' \in [1..Len(listing) -> ListingRows] BY <1>1, <1>3
  <1>6. listing' \in Seq(ListingRows) BY <1>1, <1>5, SeqDef
  <1> QED BY <1>3, <1>4, <1>6 DEF ListingsGrow

-----------------------------------------------------------------------------
(* What a request keeps in memory.                                          *)

LEMMA IdleTyped == Idle \in Jobs /\ ~Idle.who.escrow /\ Idle.step = "idle"
  <1>1. (CHOOSE a \in Assets : TRUE) \in Assets BY ShopAssumption
  <1>2. NoRow \in Addresses /\ ~NoRow.escrow BY DEF NoRow, Wallet, Addresses
  <1>3. "idle" \in Steps BY DEF Steps
  <1> QED BY <1>1, <1>2, <1>3 DEF Idle, Jobs, None

LEMMA JobTyped ==
  ASSUME ShopTypeOK, NEW r \in Requests
  PROVE  /\ work[r] \in Jobs /\ work[r].step \in Steps /\ work[r].asset \in Assets
         /\ work[r].who \in Addresses /\ work[r].tx \in Nat /\ work[r].price \in Nat
         /\ work[r].row \in Nat
  <1>1. work[r] \in Jobs BY DEF ShopTypeOK
  <1> QED BY <1>1 DEF Jobs

\* The others are where they were, and this request's memory is typed.
Writes(r) ==
    /\ work' \in [Requests -> Jobs]
    /\ \A q \in Requests \ {r} : work'[q] = work[q]

LEMMA JobBegun ==
  ASSUME ShopTypeOK, NEW r \in Requests, NEW j \in Jobs, work' = [work EXCEPT ![r] = j]
  PROVE  Writes(r) /\ work'[r] = j
  BY DEF ShopTypeOK, Writes

LEMMA JobMoved ==
  ASSUME ShopTypeOK, NEW r \in Requests, NEW s \in Steps, Goes(r, s)
  PROVE  /\ Writes(r) /\ work'[r].step = s
         /\ work'[r].asset = work[r].asset /\ work'[r].who = work[r].who
         /\ work'[r].row = work[r].row /\ work'[r].tx = work[r].tx
  <1> DEFINE j == [work[r] EXCEPT !.step = s]
  <1>1. j \in Jobs /\ j.step = s /\ j.asset = work[r].asset /\ j.who = work[r].who
        /\ j.row = work[r].row /\ j.tx = work[r].tx
    BY JobTyped DEF Jobs
  <1>2. work' = [work EXCEPT ![r] = j] BY DEF Goes
  <1> HIDE DEF j
  <1> QED BY <1>1, <1>2, JobBegun

LEMMA JobMovedTo ==
  ASSUME ShopTypeOK, NEW r \in Requests, NEW s \in Steps, NEW n \in Nat,
         work' = [work EXCEPT ![r].step = s, ![r].row = n]
  PROVE  /\ Writes(r) /\ work'[r].step = s
         /\ work'[r].asset = work[r].asset /\ work'[r].who = work[r].who
         /\ work'[r].row = n /\ work'[r].tx = work[r].tx
  <1> DEFINE j == [work[r] EXCEPT !.step = s, !.row = n]
  <1>1. j \in Jobs BY JobTyped DEF Jobs
  <1>2. j.step = s /\ j.asset = work[r].asset /\ j.who = work[r].who /\ j.row = n
        /\ j.tx = work[r].tx
    BY JobTyped DEF Jobs
  <1>3. work' = [work EXCEPT ![r] = j] BY DEF ShopTypeOK
  <1> HIDE DEF j
  <1> QED BY <1>1, <1>2, <1>3, JobBegun

LEMMA JobEnded ==
  ASSUME ShopTypeOK, NEW r \in Requests, Ends(r)
  PROVE  Writes(r) /\ Sound(r)'
  <1>1. Writes(r) /\ work'[r] = Idle BY IdleTyped, JobBegun DEF Ends
  <1>2. /\ ~work'[r].who.escrow /\ work'[r].step = "idle" BY <1>1, IdleTyped
  <1> QED BY <1>1, <1>2 DEF Sound, Rowed

-----------------------------------------------------------------------------
(* The requests keep their types and what they rely on.                     *)

TypedWork == ShopTypeOK /\ WorkInv

\* What one request relies on is kept by every other.
LEMMA OthersSound ==
  ASSUME ShopTypeOK, WorkInv, ListingsGrow, DOMAIN purchase \subseteq DOMAIN purchase',
         purchase' \in Seq(PurchaseRows),
         \A a \in Assets : owner[a] = Burned => owner'[a] = Burned,
         NEW q \in Requests, work'[q] = work[q]
  PROVE  Sound(q)'
  <1>1. work[q].asset \in Assets BY JobTyped
  <1>2. Len(purchase) <= Len(purchase') /\ Len(purchase) \in Nat /\ Len(purchase') \in Nat
    <2>1. /\ DOMAIN purchase = 1..Len(purchase) /\ Len(purchase) \in Nat
          /\ DOMAIN purchase' = 1..Len(purchase') /\ Len(purchase') \in Nat
      BY LenProperties DEF ShopTypeOK
    <2>2. Len(purchase) = 0 \/ Len(purchase) \in DOMAIN purchase BY <2>1
    <2> QED BY <2>1, <2>2
  <1>3. Sound(q) BY DEF WorkInv
  <1>4. \A i \in DOMAIN listing : i \in DOMAIN listing' /\ listing'[i].asset = listing[i].asset
    BY DEF ListingsGrow
  <1>5. work'[q].step = "settle purchase" => work'[q].row \in 0..Len(purchase')
    <2>1. work[q].step = "settle purchase" => work[q].row \in 0..Len(purchase)
      BY <1>3 DEF Sound
    <2>2. \A k \in 0..Len(purchase) : k \in 0..Len(purchase') BY <1>2
    <2> QED BY <2>1, <2>2
  <1>6. work'[q].step \in {"burn record", "burn delete"} => owner'[work'[q].asset] = Burned
    BY <1>1, <1>3 DEF Sound
  <1>7. work'[q].step \in Rowed /\ work'[q].row # None =>
          work'[q].row \in DOMAIN listing' /\ listing'[work'[q].row].asset = work'[q].asset
    BY <1>3, <1>4 DEF Sound
  <1> QED BY <1>3, <1>5, <1>6, <1>7 DEF Sound

LEMMA WorkKept ==
  ASSUME ShopTypeOK, WorkInv, ListingsGrow, DOMAIN purchase \subseteq DOMAIN purchase',
         purchase' \in Seq(PurchaseRows),
         \A a \in Assets : owner[a] = Burned => owner'[a] = Burned,
         NEW r \in Requests, Writes(r), Sound(r)'
  PROVE  WorkInv'
  BY OthersSound DEF Writes, WorkInv

LEMMA ListingsSame == UNCHANGED listing => ListingsGrow
  BY DEF ListingsGrow

\* A request's step that writes only its own memory.
LEMMA WorkOnly ==
  ASSUME TypedWork, NEW r \in Requests, Writes(r), Sound(r)', UNCHANGED <<chainVars, rowVars>>
  PROVE  TypedWork'
  <1>1. UNCHANGED <<owner, listed, bought, nft, listing, sale, purchase, burnt>>
    BY DEF chainVars, rowVars
  <1>2. WorkInv' BY <1>1, WorkKept, ListingsSame DEF TypedWork, ShopTypeOK
  <1> QED BY <1>1, <1>2 DEF TypedWork, ShopTypeOK, Writes

LEMMA WalletAddress ==
  ASSUME NEW w \in Wallets
  PROVE  Wallet(w) \in Addresses /\ ~Wallet(w).escrow /\ Wallet(w) # NoRow
  BY ShopAssumption DEF Wallet, Addresses, NoRow

LEMMA SyncReadSound ==
  ASSUME TypedWork, NEW r \in Requests, NEW a \in Assets, NEW s \in Wallets, SyncRead(r, a, s)
  PROVE  TypedWork'
  <1> DEFINE j == [Idle EXCEPT !.step = "sync owner", !.asset = a, !.who = Wallet(s), !.price = Asks(a, s)]
  <1>1. Asks(a, s) \in Nat
    <2>1. owner[a].asks \in Prices \cup {None} BY DEF TypedWork, ShopTypeOK, Owners
    <2>2. None \in Nat /\ \A p \in Prices : p \in Nat BY ShopAssumption DEF None
    <2> QED BY <2>1, <2>2 DEF Asks
  <1>2. "sync owner" \in Steps BY DEF Steps
  <1>3. j \in Jobs /\ j.who = Wallet(s) /\ j.step = "sync owner" /\ j.row = None
    BY <1>1, <1>2, IdleTyped, WalletAddress DEF Jobs, Idle
  <1>4. work' = [work EXCEPT ![r] = j] BY DEF SyncRead, Begin
  <1> HIDE DEF j
  <1>5. Writes(r) /\ work'[r] = j BY <1>3, <1>4, JobBegun DEF TypedWork
  <1>6. Sound(r)' BY <1>3, <1>5, WalletAddress DEF Sound, Rowed
  <1> QED BY <1>5, <1>6, WorkOnly DEF SyncRead

LEMMA SyncOwnerSound ==
  ASSUME TypedWork, NEW r \in Requests, SyncOwner(r)
  PROVE  TypedWork'
  <1>0. ShopTypeOK /\ Sound(r) /\ work[r].asset \in Assets BY JobTyped DEF TypedWork, WorkInv
  <1>1. UNCHANGED <<owner, listed, bought, listing, sale, purchase, burnt>>
    BY DEF SyncOwner, chainVars
  <1>2. nft' \in [Assets -> Addresses]
    BY <1>0, JobTyped DEF SyncOwner, ShopTypeOK
  <1>3. Writes(r) /\ Sound(r)'
    <2>1. CASE Ends(r) BY <1>0, <2>1, JobEnded
    <2>2. CASE Goes(r, "sync find")
      <3>1. "sync find" \in Steps BY DEF Steps
      <3>2. /\ Writes(r) /\ work'[r].step = "sync find" /\ work'[r].who = work[r].who
            /\ work'[r].row = work[r].row
        BY <1>0, <2>2, <3>1, JobMoved
      <3> QED BY <1>0, <3>2 DEF SyncOwner, At, Sound, Rowed
    <2> QED BY <2>1, <2>2 DEF SyncOwner
  <1>4. WorkInv' BY <1>0, <1>1, <1>3, WorkKept, ListingsSame DEF TypedWork, ShopTypeOK
  <1> QED BY <1>0, <1>1, <1>2, <1>3, <1>4 DEF TypedWork, ShopTypeOK, Writes

LEMMA SyncFindSound ==
  ASSUME TypedWork, NEW r \in Requests, SyncFind(r)
  PROVE  TypedWork'
  <1>0. ShopTypeOK /\ Sound(r) BY DEF TypedWork, WorkInv
  <1>r. DOMAIN listing = 1..Len(listing) /\ Len(listing) \in Nat BY <1>0, ListingRow
  <1>s. At(r, "sync find") /\ UNCHANGED <<chainVars, rowVars>> BY DEF SyncFind
  <1>l. UNCHANGED listing BY <1>s DEF rowVars
  <1>w. "sync write" \in Steps BY DEF Steps
  <1>1. CASE Ends(r) BY <1>0, <1>1, <1>s, JobEnded, WorkOnly
  <1>2. CASE Goes(r, "sync write")
    <2>1. Writes(r) /\ work'[r].step = "sync write" /\ work'[r].who = work[r].who /\ work'[r].row = None
      BY <1>0, <1>2, <1>s, <1>w, JobMoved DEF At, Sound
    <2>2. Sound(r)' BY <1>0, <1>s, <2>1 DEF At, Sound, Rowed
    <2> QED BY <1>s, <2>1, <2>2, WorkOnly
  <1>3. ASSUME NEW i \in Active(work[r].asset),
               work' = [work EXCEPT ![r].step = "sync write", ![r].row = i]
        PROVE  TypedWork'
    <2>1. i \in DOMAIN listing /\ listing[i].asset = work[r].asset /\ i \in Nat
      BY <1>r DEF Active
    <2>2. /\ Writes(r) /\ work'[r].step = "sync write" /\ work'[r].who = work[r].who
          /\ work'[r].row = i /\ work'[r].asset = work[r].asset
      <3>1. ShopTypeOK /\ i \in Nat BY <1>0, <2>1
      <3>2. work' = [work EXCEPT ![r].step = "sync write", ![r].row = i] BY <1>3
      <3> QED BY <3>1, <3>2, <1>w, JobMovedTo
    <2>3. Sound(r)' BY <1>0, <1>s, <1>l, <2>1, <2>2 DEF At, Sound, Rowed
    <2> QED BY <1>s, <2>2, <2>3, WorkOnly
  <1> QED BY <1>1, <1>2, <1>3 DEF SyncFind

LEMMA SyncWriteListings ==
  ASSUME TypedWork, NEW r \in Requests, SyncWrite(r)
  PROVE  listing' \in Seq(ListingRows) /\ ListingsGrow
  <1>0. ShopTypeOK /\ Sound(r) /\ At(r, "sync write")
    BY DEF TypedWork, WorkInv, SyncWrite
  <1>j. /\ work[r].asset \in Assets /\ work[r].who \in Addresses
        /\ work[r].price \in Nat /\ work[r].row \in Nat
    BY <1>0, JobTyped
  <1>i. work[r].row # None => work[r].row \in DOMAIN listing
    BY <1>0 DEF At, Sound, Rowed
  <1>1. CASE UNCHANGED listing BY <1>0, <1>1, ListingsSame DEF ShopTypeOK
  <1>2. CASE work[r].row # None /\ Exists(work[r].row) /\ SetStatus(work[r].row, "CANCELLED")
    BY <1>0, <1>i, <1>2, StatusSet
  <1>3. CASE /\ work[r].row # None /\ Exists(work[r].row)
             /\ listing' = [listing EXCEPT ![work[r].row] = Repriced(@, work[r].price)]
    BY <1>0, <1>i, <1>j, <1>3, PriceSet
  <1>4. CASE listing' = Append(listing, [asset |-> work[r].asset, seller |-> work[r].who,
                                         price |-> work[r].price, status |-> "ACTIVE"])
    <2> DEFINE row == [asset |-> work[r].asset, seller |-> work[r].who,
                       price |-> work[r].price, status |-> "ACTIVE"]
    <2>1. row \in ListingRows BY <1>j DEF ListingRows
    <2>2. listing' = Append(listing, row) BY <1>4
    <2> HIDE DEF row
    <2> QED BY <1>0, <2>1, <2>2, ListingAdded
  <1> QED BY <1>1, <1>2, <1>3, <1>4 DEF SyncWrite

LEMMA SyncWriteSound ==
  ASSUME TypedWork, NEW r \in Requests, SyncWrite(r)
  PROVE  TypedWork'
  <1>0. ShopTypeOK BY DEF TypedWork
  <1>1. UNCHANGED <<owner, listed, bought, nft, sale, purchase, burnt>> /\ Ends(r)
    BY DEF SyncWrite, chainVars
  <1>2. listing' \in Seq(ListingRows) /\ ListingsGrow BY SyncWriteListings
  <1>3. Writes(r) /\ Sound(r)' BY <1>0, <1>1, JobEnded
  <1>4. WorkInv' BY <1>0, <1>1, <1>2, <1>3, WorkKept DEF TypedWork, ShopTypeOK
  <1> QED BY <1>0, <1>1, <1>2, <1>3, <1>4 DEF TypedWork, ShopTypeOK, Writes

LEMMA SettleReadSound ==
  ASSUME TypedWork, NEW r \in Requests, NEW h \in DOMAIN bought, SettleRead(r, h)
  PROVE  TypedWork'
  <1>0. ShopTypeOK BY DEF TypedWork
  <1>1. PICK x \in Addresses \ {NoRow} :
          /\ SettlesTo(h, x)
          /\ Begin(r, [Idle EXCEPT !.step = "settle find", !.asset = bought[h].asset, !.who = x, !.tx = h])
    BY DEF SettleRead
  <1> DEFINE j == [Idle EXCEPT !.step = "settle find", !.asset = bought[h].asset, !.who = x, !.tx = h]
  <1>2. bought[h].asset \in Assets /\ bought[h].buyer \in Wallets /\ h \in Nat
    BY <1>0, BoughtRow
  <1>3. ~x.escrow BY <1>1, <1>2, WalletAddress DEF SettlesTo
  <1>4. "settle find" \in Steps BY DEF Steps
  <1>5. j \in Jobs /\ j.who = x /\ j.step = "settle find"
    BY <1>2, <1>4, IdleTyped DEF Jobs
  <1>6. work' = [work EXCEPT ![r] = j] BY <1>1 DEF Begin
  <1> HIDE DEF j
  <1>7. Writes(r) /\ work'[r] = j BY <1>0, <1>5, <1>6, JobBegun
  <1>8. Sound(r)' BY <1>3, <1>5, <1>7 DEF Sound, Rowed
  <1> QED BY <1>7, <1>8, WorkOnly DEF SettleRead

\* The newest ACTIVE listing of the asset is one of the asset's rows.
LEMMA NewestActive ==
  ASSUME ShopTypeOK, NEW a \in Assets, Active(a) # {}
  PROVE  /\ Max(Active(a)) \in Active(a) /\ Max(Active(a)) \in DOMAIN listing
         /\ listing[Max(Active(a))].price \in Nat
  <1>1. /\ DOMAIN listing = 1..Len(listing) /\ Len(listing) \in Nat
        /\ \A i \in DOMAIN listing : listing[i] \in ListingRows
    BY ListingRow
  <1>2. Active(a) \in SUBSET (1..Len(listing)) BY <1>1 DEF Active
  <1>3. Max(Active(a)) \in Active(a) BY <1>1, <1>2, NewestExists
  <1>4. Max(Active(a)) \in DOMAIN listing /\ listing[Max(Active(a))].asset = a
    BY <1>3 DEF Active
  <1> QED BY <1>1, <1>3, <1>4 DEF ListingRows

LEMMA SettleFindSound ==
  ASSUME TypedWork, NEW r \in Requests, SettleFind(r)
  PROVE  TypedWork'
  <1>0. ShopTypeOK /\ Sound(r) /\ At(r, "settle find") BY DEF TypedWork, WorkInv, SettleFind
  <1>j. work[r].asset \in Assets BY <1>0, JobTyped
  <1>s. UNCHANGED <<chainVars, rowVars>> BY DEF SettleFind
  <1>l. UNCHANGED listing BY <1>s DEF rowVars
  <1>1. CASE Ends(r) BY <1>0, <1>1, <1>s, JobEnded, WorkOnly
  <1>2. CASE ~Ends(r)
    <2>1. PICK i \in {None} \cup Active(work[r].asset), p \in Nat :
             work' = [work EXCEPT ![r].step = "settle owner", ![r].row = i, ![r].price = p]
      <3>1. CASE Active(work[r].asset) = {}
        <4>1. None \in Nat BY DEF None
        <4>2. work' = [work EXCEPT ![r].step = "settle owner", ![r].row = None, ![r].price = None]
          BY <1>2, <3>1 DEF SettleFind
        <4> QED BY <4>1, <4>2
      <3>2. CASE Active(work[r].asset) # {}
        <4> DEFINE m == Max(Active(work[r].asset))
        <4>1. m \in Active(work[r].asset) /\ listing[m].price \in Nat /\ m \in DOMAIN listing
          BY <1>0, <1>j, <3>2, NewestActive
        <4>2. m # None
          <5>1. DOMAIN listing = 1..Len(listing) /\ Len(listing) \in Nat BY <1>0, ListingRow
          <5> QED BY <4>1, <5>1 DEF None
        <4>3. work' = [work EXCEPT ![r].step = "settle owner", ![r].row = m, ![r].price = listing[m].price]
          BY <1>2, <3>2, <4>2 DEF SettleFind
        <4> HIDE DEF m
        <4> QED BY <4>1, <4>3
      <3> QED BY <3>1, <3>2
    <2>2. i = None \/ (i \in DOMAIN listing /\ listing[i].asset = work[r].asset)
      BY DEF Active
    <2>3. i \in Nat
      <3>1. DOMAIN listing = 1..Len(listing) /\ Len(listing) \in Nat BY <1>0, ListingRow
      <3> QED BY <2>2, <3>1 DEF None
    <2>4. "settle owner" \in Steps BY DEF Steps
    <2> DEFINE j == [work[r] EXCEPT !.step = "settle owner", !.row = i, !.price = p]
    <2>5. work' = [work EXCEPT ![r] = j] BY <1>0, <2>1 DEF ShopTypeOK
    <2>3j. /\ j \in Jobs /\ j.step = "settle owner" /\ j.asset = work[r].asset
           /\ j.who = work[r].who /\ j.row = i
      BY <1>0, <2>3, <2>4, JobTyped DEF Jobs
    <2> HIDE DEF j
    <2>6. /\ Writes(r) /\ work'[r].step = "settle owner" /\ work'[r].who = work[r].who
          /\ work'[r].asset = work[r].asset /\ work'[r].row = i
      BY <1>0, <2>1, <2>3, <2>4, <2>5, <2>3j, JobBegun
    <2>7. Sound(r)' BY <1>0, <1>l, <2>2, <2>6 DEF At, Sound, Rowed
    <2> QED BY <1>s, <2>6, <2>7, WorkOnly
  <1> QED BY <1>1, <1>2

\* The purchases' table and the others stay; the rows a statement has written are typed.
LEMMA SettleRowsSound ==
  ASSUME TypedWork, NEW r \in Requests, Writes(r), Sound(r)', ListingsGrow,
         listing' \in Seq(ListingRows), nft' \in [Assets -> Addresses], sale' \subseteq SaleRows,
         UNCHANGED <<chainVars, purchase, burnt>>
  PROVE  TypedWork'
  <1>1. UNCHANGED <<owner, listed, bought, purchase, burnt>> BY DEF chainVars
  <1>2. WorkInv' BY <1>1, WorkKept DEF TypedWork, ShopTypeOK
  <1> QED BY <1>1, <1>2 DEF TypedWork, ShopTypeOK, Writes

LEMMA SettleOwnerSound ==
  ASSUME TypedWork, NEW r \in Requests, SettleOwner(r)
  PROVE  TypedWork'
  <1>0. ShopTypeOK /\ Sound(r) /\ At(r, "settle owner") /\ work[r].who \in Addresses
    BY JobTyped DEF TypedWork, WorkInv, SettleOwner
  <1>1. UNCHANGED <<chainVars, listing, sale, purchase, burnt>> BY DEF SettleOwner
  <1>2. nft' \in [Assets -> Addresses] BY <1>0 DEF SettleOwner, ShopTypeOK
  <1>3. Writes(r) /\ Sound(r)'
    <2>1. CASE Ends(r) BY <1>0, <2>1, JobEnded
    <2>2. CASE Goes(r, "settle sale") /\ work[r].row # None
      <3>1. "settle sale" \in Steps BY DEF Steps
      <3>2. /\ Writes(r) /\ work'[r].step = "settle sale" /\ work'[r].who = work[r].who
            /\ work'[r].row = work[r].row /\ work'[r].asset = work[r].asset
        BY <1>0, <2>2, <3>1, JobMoved
      <3> QED BY <1>0, <1>1, <2>2, <3>2 DEF At, Sound, Rowed
    <2> QED BY <2>1, <2>2 DEF SettleOwner
  <1> QED BY <1>0, <1>1, <1>2, <1>3, ListingsSame, SettleRowsSound DEF ShopTypeOK

LEMMA SettleSaleSound ==
  ASSUME TypedWork, NEW r \in Requests, SettleSale(r)
  PROVE  TypedWork'
  <1>0. ShopTypeOK /\ Sound(r) /\ At(r, "settle sale") BY DEF TypedWork, WorkInv, SettleSale
  <1>j. /\ work[r].asset \in Assets /\ work[r].who \in Addresses /\ work[r].tx \in Nat
        /\ work[r].price \in Nat /\ work[r].row \in Nat
    BY <1>0, JobTyped
  <1>1. UNCHANGED <<chainVars, nft, listing, purchase, burnt>> BY DEF SettleSale
  <1>2. work[r].row \in DOMAIN listing /\ work[r].row # None
    BY <1>0 DEF At, Sound, Rowed
  <1>3. listing[work[r].row].seller \in Addresses
    BY <1>0, <1>2, ListingRow DEF ListingRows
  <1>4. sale' \subseteq SaleRows
    <2> DEFINE x == [tx |-> work[r].tx, listing |-> work[r].row, asset |-> work[r].asset,
                     seller |-> listing[work[r].row].seller, buyer |-> work[r].who,
                     price |-> work[r].price]
    <2>1. x \in SaleRows BY <1>j, <1>3 DEF SaleRows
    <2>2. sale' = sale \/ sale' = sale \cup {x} BY DEF SettleSale
    <2> HIDE DEF x
    <2> QED BY <1>0, <2>1, <2>2 DEF ShopTypeOK
  <1>5. Writes(r) /\ Sound(r)'
    <2>1. CASE Ends(r) BY <1>0, <2>1, JobEnded
    <2>2. CASE Goes(r, "settle close")
      <3>1. "settle close" \in Steps BY DEF Steps
      <3>2. /\ Writes(r) /\ work'[r].step = "settle close" /\ work'[r].who = work[r].who
            /\ work'[r].row = work[r].row /\ work'[r].asset = work[r].asset
        BY <1>0, <2>2, <3>1, JobMoved
      <3> QED BY <1>0, <1>1, <1>2, <3>2 DEF At, Sound, Rowed
    <2> QED BY <2>1, <2>2 DEF SettleSale
  <1> QED BY <1>0, <1>1, <1>4, <1>5, ListingsSame, SettleRowsSound DEF ShopTypeOK

LEMMA SettleCloseListings ==
  ASSUME TypedWork, NEW r \in Requests, SettleClose(r)
  PROVE  listing' \in Seq(ListingRows) /\ ListingsGrow /\ DOMAIN listing' = DOMAIN listing
  <1>0. ShopTypeOK /\ Sound(r) /\ At(r, "settle close") BY DEF TypedWork, WorkInv, SettleClose
  <1>1. work[r].row \in DOMAIN listing BY <1>0 DEF At, Sound, Rowed
  <1>2. CASE Exists(work[r].row) /\ SetStatus(work[r].row, "SOLD")
    BY <1>0, <1>1, <1>2, StatusSet
  <1>3. CASE UNCHANGED listing BY <1>0, <1>3, ListingsSame DEF ShopTypeOK
  <1> QED BY <1>2, <1>3 DEF SettleClose

LEMMA SettleCloseSound ==
  ASSUME TypedWork, NEW r \in Requests, SettleClose(r)
  PROVE  TypedWork'
  <1>0. ShopTypeOK /\ Sound(r) BY DEF TypedWork, WorkInv
  <1>1. UNCHANGED <<chainVars, nft, sale, purchase, burnt>> BY DEF SettleClose
  <1>2. Writes(r) /\ Sound(r)'
    <2>1. CASE Ends(r) BY <1>0, <2>1, JobEnded
    <2>2. CASE Goes(r, "settle pending")
      <3>1. "settle pending" \in Steps BY DEF Steps
      <3>2. Writes(r) /\ work'[r].step = "settle pending" /\ work'[r].who = work[r].who
        BY <1>0, <2>2, <3>1, JobMoved
      <3> QED BY <1>0, <3>2 DEF Sound, Rowed
    <2> QED BY <2>1, <2>2 DEF SettleClose
  <1> QED BY <1>0, <1>1, <1>2, SettleCloseListings, SettleRowsSound DEF ShopTypeOK

LEMMA SettlePendingSound ==
  ASSUME TypedWork, NEW r \in Requests, SettlePending(r)
  PROVE  TypedWork'
  <1>0. ShopTypeOK /\ Sound(r) BY DEF TypedWork, WorkInv
  <1>p. DOMAIN purchase = 1..Len(purchase) /\ Len(purchase) \in Nat BY <1>0, PurchaseRow
  <1>s. UNCHANGED <<chainVars, rowVars>> BY DEF SettlePending
  <1>q. UNCHANGED purchase BY <1>s DEF rowVars
  <1> DEFINE open == {i \in DOMAIN purchase : purchase[i].buyer = work[r].who /\ purchase[i].tx = None}
             n == IF open = {} THEN None ELSE Max(open)
  <1>1. work' = [work EXCEPT ![r].step = "settle purchase", ![r].row = n] BY DEF SettlePending
  <1>2. open \in SUBSET (1..Len(purchase)) BY <1>p
  <1> HIDE DEF open
  <1>3. n \in 0..Len(purchase)
    <2>1. CASE open = {} BY <1>p, <2>1 DEF None
    <2>2. CASE open # {}
      <3>1. Max(open) \in open BY <1>p, <1>2, <2>2, NewestExists
      <3>2. \A k \in 1..Len(purchase) : k \in 0..Len(purchase) BY <1>p
      <3> QED BY <1>2, <2>2, <3>1, <3>2
    <2> QED BY <2>1, <2>2
  <1> HIDE DEF n
  <1>4. n \in Nat /\ "settle purchase" \in Steps BY <1>3, <1>p DEF Steps
  <1>5. /\ Writes(r) /\ work'[r].step = "settle purchase" /\ work'[r].who = work[r].who
        /\ work'[r].row = n
    BY <1>0, <1>1, <1>4, JobMovedTo
  <1>6. Sound(r)' BY <1>0, <1>3, <1>5, <1>q DEF Sound, Rowed
  <1> QED BY <1>5, <1>6, <1>s, WorkOnly

LEMMA PurchaseAdded ==
  ASSUME ShopTypeOK, NEW row \in PurchaseRows, purchase' = Append(purchase, row)
  PROVE  purchase' \in Seq(PurchaseRows) /\ DOMAIN purchase \subseteq DOMAIN purchase'
  <1>1. DOMAIN purchase = 1..Len(purchase) /\ Len(purchase) \in Nat BY PurchaseRow
  <1>2. purchase' \in Seq(PurchaseRows) /\ Len(purchase') = Len(purchase) + 1
    BY AppendProperties DEF ShopTypeOK
  <1>3. DOMAIN purchase' = 1..Len(purchase') BY <1>2, LenProperties
  <1> QED BY <1>1, <1>2, <1>3

\* A purchase found without a hash is given one; the rest of its row stays.
LEMMA PurchaseNamed ==
  ASSUME ShopTypeOK, NEW i \in DOMAIN purchase, NEW h \in Nat,
         purchase' = [purchase EXCEPT ![i].tx = h]
  PROVE  purchase' \in Seq(PurchaseRows) /\ DOMAIN purchase' = DOMAIN purchase
  <1> DEFINE row == [purchase[i] EXCEPT !.tx = h]
  <1>1. DOMAIN purchase = 1..Len(purchase) /\ purchase[i] \in PurchaseRows BY PurchaseRow
  <1>2. row \in PurchaseRows BY <1>1 DEF PurchaseRows
  <1>3. purchase' = [purchase EXCEPT ![i] = row] OBVIOUS
  <1> HIDE DEF row
  <1>4. purchase \in Seq(PurchaseRows) /\ i \in 1..Len(purchase) BY <1>1 DEF ShopTypeOK
  <1>5. [purchase EXCEPT ![i] = row] \in Seq(PurchaseRows) BY <1>2, <1>4, ExceptSeq
  <1>6. purchase' \in Seq(PurchaseRows) BY <1>3, <1>5
  <1>7. DOMAIN purchase' = DOMAIN purchase BY <1>3
  <1> QED BY <1>6, <1>7

LEMMA SettlePurchaseSound ==
  ASSUME TypedWork, NEW r \in Requests, SettlePurchase(r)
  PROVE  TypedWork'
  <1>0. ShopTypeOK /\ Sound(r) /\ At(r, "settle purchase")
    BY DEF TypedWork, WorkInv, SettlePurchase
  <1>j. work[r].who \in Addresses /\ work[r].tx \in Nat /\ work[r].row \in Nat
    BY <1>0, JobTyped
  <1>p. DOMAIN purchase = 1..Len(purchase) /\ Len(purchase) \in Nat BY <1>0, PurchaseRow
  <1>1. UNCHANGED <<owner, listed, bought, nft, listing, sale, burnt>> /\ Ends(r)
    BY DEF SettlePurchase, chainVars
  <1>2. purchase' \in Seq(PurchaseRows) /\ DOMAIN purchase \subseteq DOMAIN purchase'
    <2>1. CASE UNCHANGED purchase BY <1>0, <2>1 DEF ShopTypeOK
    <2>2. CASE /\ work[r].row # None
               /\ purchase' = [purchase EXCEPT ![work[r].row].tx = work[r].tx]
      <3>1. work[r].row \in DOMAIN purchase
        <4>1. work[r].row \in 0..Len(purchase) BY <1>0 DEF At, Sound
        <4> QED BY <4>1, <1>p, <1>j, <2>2 DEF None
      <3> QED BY <1>0, <1>j, <2>2, <3>1, PurchaseNamed
    <2>3. CASE purchase' = Append(purchase, [buyer |-> work[r].who, opened |-> FALSE, tx |-> work[r].tx])
      <3> DEFINE row == [buyer |-> work[r].who, opened |-> FALSE, tx |-> work[r].tx]
      <3>1. row \in PurchaseRows BY <1>j DEF PurchaseRows
      <3>2. purchase' = Append(purchase, row) BY <2>3
      <3> HIDE DEF row
      <3> QED BY <1>0, <3>1, <3>2, PurchaseAdded
    <2> QED BY <2>1, <2>2, <2>3 DEF SettlePurchase
  <1>3. Writes(r) /\ Sound(r)' BY <1>0, <1>1, JobEnded
  <1>4. WorkInv' BY <1>0, <1>1, <1>2, <1>3, ListingsSame, WorkKept DEF TypedWork
  <1> QED BY <1>0, <1>1, <1>2, <1>3, <1>4 DEF TypedWork, ShopTypeOK, Writes

LEMMA BurnReadSound ==
  ASSUME TypedWork, NEW r \in Requests, NEW a \in Assets, BurnRead(r, a)
  PROVE  TypedWork'
  <1>0. ShopTypeOK BY DEF TypedWork
  <1>s. UNCHANGED <<chainVars, rowVars>> BY DEF BurnRead
  <1>o. UNCHANGED owner BY <1>s DEF chainVars
  <1> DEFINE j == [Idle EXCEPT !.step = "burn record", !.asset = a]
  <1>1. "burn record" \in Steps BY DEF Steps
  <1>2. j \in Jobs /\ j.step = "burn record" /\ j.asset = a /\ ~j.who.escrow
    BY <1>1, IdleTyped DEF Jobs
  <1>3. work' = [work EXCEPT ![r] = j] BY DEF BurnRead, Begin
  <1> HIDE DEF j
  <1>4. Writes(r) /\ work'[r] = j BY <1>0, <1>2, <1>3, JobBegun
  <1>5. Sound(r)' BY <1>2, <1>4, <1>o DEF Sound, Rowed, BurnRead, Gone
  <1> QED BY <1>4, <1>5, <1>s, WorkOnly

LEMMA BurnRecordSound ==
  ASSUME TypedWork, NEW r \in Requests, BurnRecord(r)
  PROVE  TypedWork'
  <1>0. ShopTypeOK /\ Sound(r) /\ At(r, "burn record") /\ work[r].asset \in Assets
    BY JobTyped DEF TypedWork, WorkInv, BurnRecord
  <1>1. UNCHANGED <<owner, listed, bought, nft, listing, sale, purchase>>
    BY DEF BurnRecord, chainVars
  <1>2. burnt' \subseteq Assets BY <1>0 DEF BurnRecord, ShopTypeOK
  <1>3. Writes(r) /\ Sound(r)'
    <2>1. CASE Ends(r) BY <1>0, <2>1, JobEnded
    <2>2. CASE Goes(r, "burn delete")
      <3>1. "burn delete" \in Steps BY DEF Steps
      <3>2. /\ Writes(r) /\ work'[r].step = "burn delete" /\ work'[r].who = work[r].who
            /\ work'[r].asset = work[r].asset
        BY <1>0, <2>2, <3>1, JobMoved
      <3> QED BY <1>0, <1>1, <3>2 DEF At, Sound, Rowed
    <2> QED BY <2>1, <2>2 DEF BurnRecord
  <1>4. WorkInv' BY <1>0, <1>1, <1>3, ListingsSame, WorkKept DEF TypedWork, ShopTypeOK
  <1> QED BY <1>0, <1>1, <1>2, <1>3, <1>4 DEF TypedWork, ShopTypeOK, Writes

LEMMA BurnDeleteListings ==
  ASSUME TypedWork, NEW r \in Requests, BurnDelete(r)
  PROVE  /\ listing' \in Seq(ListingRows) /\ DOMAIN listing' = DOMAIN listing /\ ListingsGrow
         /\ \A i \in DOMAIN listing : listing[i].asset = work[r].asset => listing'[i].status = "deleted"
  <1>1. ShopTypeOK /\ work[r].asset \in Assets BY JobTyped DEF TypedWork
  <1> QED BY <1>1, ListingsDeleted DEF BurnDelete

LEMMA BurnDeleteSound ==
  ASSUME TypedWork, NEW r \in Requests, BurnDelete(r)
  PROVE  TypedWork'
  <1>0. ShopTypeOK /\ work[r].asset \in Assets BY JobTyped DEF TypedWork
  <1>1. UNCHANGED <<chainVars, purchase, burnt>> /\ Ends(r) BY DEF BurnDelete
  <1>2. NoRow \in Addresses BY DEF NoRow, Wallet, Addresses
  <1>3. nft' \in [Assets -> Addresses] /\ sale' \subseteq SaleRows
    BY <1>0, <1>2 DEF BurnDelete, ShopTypeOK
  <1>4. Writes(r) /\ Sound(r)' BY <1>0, <1>1, JobEnded
  <1> QED BY <1>1, <1>3, <1>4, BurnDeleteListings, SettleRowsSound

LEMMA FailSound ==
  ASSUME TypedWork, NEW r \in Requests, Fail(r)
  PROVE  TypedWork'
  BY JobEnded, WorkOnly DEF Fail, TypedWork

LEMMA BuyNftSound ==
  ASSUME TypedWork, NEW b \in Wallets, BuyNft(b)
  PROVE  TypedWork'
  <1>0. ShopTypeOK BY DEF TypedWork
  <1>1. UNCHANGED <<owner, listed, bought, nft, listing, sale, burnt, work>> BY DEF BuyNft, chainVars
  <1> DEFINE row == [buyer |-> Wallet(b), opened |-> TRUE, tx |-> None]
  <1>2. row \in PurchaseRows BY WalletAddress DEF PurchaseRows, None
  <1>3. purchase' = Append(purchase, row) BY DEF BuyNft
  <1> HIDE DEF row
  <1>4. purchase' \in Seq(PurchaseRows) /\ DOMAIN purchase \subseteq DOMAIN purchase'
    BY <1>0, <1>2, <1>3, PurchaseAdded
  <1>5. WorkInv' BY <1>0, <1>1, <1>4, ListingsSame, OthersSound DEF TypedWork, WorkInv
  <1> QED BY <1>0, <1>1, <1>4, <1>5 DEF TypedWork, ShopTypeOK

-----------------------------------------------------------------------------
(* The chain.                                                               *)

LEMMA HoldersTyped ==
  /\ \A w \in Wallets : Held(w) \in Owners /\ Held(w) # Burned
  /\ \A s \in Wallets, p \in Prices : Escrowed(s, p) \in Owners /\ Escrowed(s, p) # Burned
  /\ Burned \in Owners
  <1>1. \A w \in Wallets : w # NoOne BY ShopAssumption
  <1> QED BY <1>1 DEF Held, Escrowed, Owners, Burned

\* A wallet's transaction: the holder it found is replaced, and nobody revives
\* what has been burned.
LEMMA ChainMoves ==
  ASSUME TypedWork, ChainNext
  PROVE  /\ owner' \in [Assets -> Owners]
         /\ \A a \in Assets : owner[a] = Burned => owner'[a] = Burned
         /\ listed' \in [Assets -> SUBSET Wallets]
         /\ bought' \in Seq(Purchases)
  <1>0. /\ owner \in [Assets -> Owners] /\ listed \in [Assets -> SUBSET Wallets]
        /\ bought \in Seq(Purchases) /\ Sellers \subseteq Wallets
    BY ShopAssumption DEF TypedWork, ShopTypeOK
  <1>1. ASSUME NEW a \in Assets, NEW x \in Owners, NEW y \in Owners, x # Burned, Moves(a, x, y)
        PROVE  /\ owner' \in [Assets -> Owners]
               /\ \A c \in Assets : owner[c] = Burned => owner'[c] = Burned
    BY <1>0, <1>1 DEF Moves
  <1>2. ASSUME NEW a \in Assets, NEW s \in Sellers, NEW p \in Prices, List(a, s, p)
        PROVE  /\ \E x, y \in Owners : x # Burned /\ Moves(a, x, y)
               /\ listed' \in [Assets -> SUBSET Wallets] /\ UNCHANGED bought
    <2>1. s \in Wallets BY <1>0
    <2> QED BY <1>0, <1>2, <2>1, HoldersTyped DEF List
  <1>3. ASSUME NEW a \in Assets, NEW s \in Wallets, NEW p \in Prices, NEW b \in Wallets, Buy(a, s, p, b)
        PROVE  /\ \E x, y \in Owners : x # Burned /\ Moves(a, x, y)
               /\ UNCHANGED listed /\ bought' \in Seq(Purchases)
    <2> DEFINE row == [asset |-> a, buyer |-> b]
    <2>1. row \in Purchases BY DEF Purchases
    <2>2. bought' = Append(bought, row) BY <1>3 DEF Buy
    <2> HIDE DEF row
    <2>3. bought' \in Seq(Purchases) BY <1>0, <2>1, <2>2, AppendProperties
    <2> QED BY <1>3, <2>3, HoldersTyped DEF Buy
  <1>4. ASSUME NEW a \in Assets, NEW s \in Wallets,
               \/ \E p \in Prices : Cancel(a, s, p)
               \/ \E w \in Wallets : Transfer(a, s, w)
               \/ Burn(a, s)
        PROVE  /\ \E x, y \in Owners : x # Burned /\ Moves(a, x, y)
               /\ UNCHANGED <<listed, bought>>
    BY <1>4, HoldersTyped DEF Cancel, Transfer, Burn
  <1>5. PICK a \in Assets, s \in Wallets :
          \/ \E p \in Prices :
                \/ s \in Sellers /\ List(a, s, p)
                \/ \E b \in Wallets \ {s} : Buy(a, s, p, b)
                \/ Cancel(a, s, p)
          \/ \E w \in Wallets \ {s} : Transfer(a, s, w)
          \/ Burn(a, s)
    BY DEF ChainNext
  <1>6. /\ \E x, y \in Owners : x # Burned /\ Moves(a, x, y)
        /\ listed' \in [Assets -> SUBSET Wallets] /\ bought' \in Seq(Purchases)
    <2>1. CASE \E p \in Prices : s \in Sellers /\ List(a, s, p) BY <1>0, <1>2, <2>1
    <2>2. CASE \E p \in Prices, b \in Wallets \ {s} : Buy(a, s, p, b) BY <1>0, <1>3, <2>2
    <2>3. CASE \/ \E p \in Prices : Cancel(a, s, p)
               \/ \E w \in Wallets \ {s} : Transfer(a, s, w)
               \/ Burn(a, s)
      BY <1>0, <1>4, <2>3
    <2> QED BY <1>5, <2>1, <2>2, <2>3
  <1> QED BY <1>1, <1>6

LEMMA ChainSound ==
  ASSUME TypedWork, ChainNext
  PROVE  TypedWork'
  <1>0. ShopTypeOK BY DEF TypedWork
  <1>1. UNCHANGED <<nft, listing, sale, purchase, burnt, work>> BY DEF ChainNext, rowVars
  <1>2. WorkInv' BY <1>0, <1>1, ChainMoves, ListingsSame, OthersSound DEF TypedWork, WorkInv, ShopTypeOK
  <1> QED BY <1>0, <1>1, <1>2, ChainMoves DEF TypedWork, ShopTypeOK

LEMMA TypedWorkInit ==
  ASSUME ShopInit
  PROVE  TypedWork
  <1>1. PICK w \in [Assets -> Wallets] :
          /\ owner = [a \in Assets |-> Held(w[a])]
          /\ nft = [a \in Assets |-> Wallet(w[a])]
    BY DEF ShopInit
  <1>2. owner \in [Assets -> Owners] BY <1>1, HoldersTyped
  <1>3. nft \in [Assets -> Addresses] BY <1>1, WalletAddress
  <1>4. \A r \in Requests : work[r] = Idle BY DEF ShopInit
  <1>5. work \in [Requests -> Jobs] BY IdleTyped DEF ShopInit
  <1>6. bought \in Seq(Purchases) /\ listing \in Seq(ListingRows) /\ purchase \in Seq(PurchaseRows)
    BY EmptySeq DEF ShopInit
  <1>7. ShopTypeOK BY <1>2, <1>3, <1>5, <1>6 DEF ShopTypeOK, ShopInit
  <1>8. WorkInv BY <1>4, IdleTyped DEF WorkInv, Sound, Rowed
  <1> QED BY <1>7, <1>8 DEF TypedWork

LEMMA TypedWorkStep ==
  ASSUME TypedWork, [ShopNext]_shopVars
  PROVE  TypedWork'
  <1>1. CASE ChainNext BY <1>1, ChainSound
  <1>2. CASE \E b \in Wallets : BuyNft(b) BY <1>2, BuyNftSound
  <1>3. CASE \E r \in Requests : SyncNext(r)
    BY <1>3, SyncReadSound, SyncOwnerSound, SyncFindSound, SyncWriteSound DEF SyncNext
  <1>4. CASE \E r \in Requests : SettleNext(r)
    BY <1>4, SettleReadSound, SettleFindSound, SettleOwnerSound, SettleSaleSound,
       SettleCloseSound, SettlePendingSound, SettlePurchaseSound DEF SettleNext
  <1>5. CASE \E r \in Requests : BurnNext(r)
    BY <1>5, BurnReadSound, BurnRecordSound, BurnDeleteSound DEF BurnNext
  <1>6. CASE \E r \in Requests : Fail(r) BY <1>6, FailSound
  <1>7. CASE UNCHANGED shopVars
    <2>1. UNCHANGED <<owner, listed, bought, nft, listing, sale, purchase, burnt, work>>
      BY <1>7 DEF shopVars, chainVars, rowVars
    <2> QED BY <2>1 DEF TypedWork, ShopTypeOK, WorkInv, Sound
  <1> QED BY <1>1, <1>2, <1>3, <1>4, <1>5, <1>6, <1>7 DEF ShopNext

-----------------------------------------------------------------------------
(* The rows a step may change.                                              *)

\* The statements that write each of the three tables the properties are about.
LEMMA RowWriters ==
  ASSUME [ShopNext]_shopVars
  PROVE  /\ UNCHANGED nft \/ \E r \in Requests : SyncOwner(r) \/ SettleOwner(r) \/ BurnDelete(r)
         /\ UNCHANGED listing \/ \E r \in Requests : SyncWrite(r) \/ SettleClose(r) \/ BurnDelete(r)
         /\ UNCHANGED sale \/ \E r \in Requests : SettleSale(r) \/ BurnDelete(r)
         /\ UNCHANGED owner \/ ChainNext
  <1>1. CASE ChainNext BY <1>1 DEF ChainNext, rowVars
  <1>2. CASE \E b \in Wallets : BuyNft(b) BY <1>2 DEF BuyNft, chainVars
  <1>3. ASSUME NEW r \in Requests, SyncNext(r)
        PROVE  UNCHANGED <<owner, sale>> /\ (UNCHANGED nft \/ SyncOwner(r)) /\ (UNCHANGED listing \/ SyncWrite(r))
    BY <1>3 DEF SyncNext, SyncRead, SyncOwner, SyncFind, SyncWrite, chainVars, rowVars
  <1>4. ASSUME NEW r \in Requests, SettleNext(r)
        PROVE  /\ UNCHANGED owner
               /\ UNCHANGED nft \/ SettleOwner(r)
               /\ UNCHANGED listing \/ SettleClose(r)
               /\ UNCHANGED sale \/ SettleSale(r)
    <2>1. CASE \/ \E h \in DOMAIN bought : SettleRead(r, h)
               \/ SettleFind(r) \/ SettlePending(r)
      BY <2>1 DEF SettleRead, SettleFind, SettlePending, chainVars, rowVars
    <2>2. CASE SettleOwner(r) BY <2>2 DEF SettleOwner, chainVars
    <2>3. CASE SettleSale(r) BY <2>3 DEF SettleSale, chainVars
    <2>4. CASE SettleClose(r) BY <2>4 DEF SettleClose, chainVars
    <2>5. CASE SettlePurchase(r) BY <2>5 DEF SettlePurchase, chainVars
    <2> QED BY <1>4, <2>1, <2>2, <2>3, <2>4, <2>5 DEF SettleNext
  <1>5. ASSUME NEW r \in Requests, BurnNext(r)
        PROVE  UNCHANGED owner /\ (UNCHANGED <<nft, listing, sale>> \/ BurnDelete(r))
    BY <1>5 DEF BurnNext, BurnRead, BurnRecord, BurnDelete, chainVars, rowVars
  <1>6. CASE \E r \in Requests : Fail(r) BY <1>6 DEF Fail, chainVars, rowVars
  <1>7. CASE UNCHANGED shopVars BY <1>7 DEF shopVars, chainVars, rowVars
  <1> QED BY <1>1, <1>2, <1>3, <1>4, <1>5, <1>6, <1>7 DEF ShopNext

LEMMA ListingsAlwaysGrow ==
  ASSUME TypedWork, [ShopNext]_shopVars
  PROVE  ListingsGrow
  BY RowWriters, ListingsSame, SyncWriteListings, SettleCloseListings, BurnDeleteListings

\* A burned asset stays burned.
LEMMA BurnedForGood ==
  ASSUME TypedWork, [ShopNext]_shopVars
  PROVE  \A a \in Assets : owner[a] = Burned => owner'[a] = Burned
  BY RowWriters, ChainMoves

-----------------------------------------------------------------------------
(* The properties.                                                          *)

\* A sale is recorded only when neither its hash nor its listing has one.
LEMMA SoldOnceStep ==
  ASSUME SoldOnce, [ShopNext]_shopVars
  PROVE  SoldOnce'
  <1>1. CASE UNCHANGED sale BY <1>1 DEF SoldOnce
  <1>2. ASSUME NEW r \in Requests, BurnDelete(r) PROVE SoldOnce'
    BY <1>2 DEF BurnDelete, SoldOnce
  <1>3. ASSUME NEW r \in Requests, SettleSale(r) PROVE SoldOnce'
    <2> DEFINE x == [tx |-> work[r].tx, listing |-> work[r].row, asset |-> work[r].asset,
                     seller |-> listing[work[r].row].seller, buyer |-> work[r].who,
                     price |-> work[r].price]
    <2>1. \/ sale' = sale
          \/ /\ sale' = sale \cup {x}
             /\ \A y \in sale : y.tx # work[r].tx /\ y.listing # work[r].row
      BY <1>3 DEF SettleSale, Unsold
    <2>2. x.tx = work[r].tx /\ x.listing = work[r].row OBVIOUS
    <2> HIDE DEF x
    <2> QED BY <2>1, <2>2 DEF SoldOnce
  <1> QED BY <1>1, <1>2, <1>3, RowWriters

LEMMA OwnedByPersonStep ==
  ASSUME TypedWork, OwnedByPerson, [ShopNext]_shopVars
  PROVE  OwnedByPerson'
  <1>0. nft \in [Assets -> Addresses] /\ \A r \in Requests : ~work[r].who.escrow
    BY DEF TypedWork, ShopTypeOK, WorkInv, Sound
  <1>1. CASE UNCHANGED nft BY <1>1 DEF OwnedByPerson
  <1>2. ASSUME NEW r \in Requests, SyncOwner(r) \/ SettleOwner(r) PROVE OwnedByPerson'
    <2>1. nft' = nft \/ nft' = [nft EXCEPT ![work[r].asset] = work[r].who]
      BY <1>2 DEF SyncOwner, SettleOwner
    <2> QED BY <1>0, <2>1 DEF OwnedByPerson
  <1>3. ASSUME NEW r \in Requests, BurnDelete(r) PROVE OwnedByPerson'
    <2>1. ~NoRow.escrow BY DEF NoRow, Wallet
    <2> QED BY <1>0, <1>3, <2>1 DEF OwnedByPerson, BurnDelete
  <1> QED BY <1>1, <1>2, <1>3, RowWriters

LEMMA GoneIsBurnedStep ==
  ASSUME TypedWork, GoneIsBurned, [ShopNext]_shopVars
  PROVE  GoneIsBurned'
  <1> SUFFICES ASSUME NEW a \in Assets, nft'[a] = NoRow
               PROVE  /\ owner'[a] = Burned
                      /\ \A i \in DOMAIN listing' : listing'[i].asset = a => listing'[i].status = "deleted"
                      /\ \A x \in sale' : x.asset # a
    BY DEF GoneIsBurned, Exists
  <1>t. ShopTypeOK /\ nft \in [Assets -> Addresses]
        /\ \A r \in Requests : Sound(r) /\ work[r].asset \in Assets
    BY JobTyped DEF TypedWork, ShopTypeOK, WorkInv
  <1>1. ASSUME NEW r \in Requests, BurnDelete(r), work[r].asset = a
        PROVE  /\ owner'[a] = Burned
               /\ \A i \in DOMAIN listing' : listing'[i].asset = a => listing'[i].status = "deleted"
               /\ \A x \in sale' : x.asset # a
    <2>1. owner'[a] = Burned BY <1>t, <1>1 DEF BurnDelete, At, Sound, chainVars
    <2>2. \A i \in DOMAIN listing' : listing'[i].asset = a => listing'[i].status = "deleted"
      BY <1>1, BurnDeleteListings DEF ListingsGrow
    <2>3. \A x \in sale' : x.asset # a BY <1>1 DEF BurnDelete
    <2> QED BY <2>1, <2>2, <2>3
  <1>2. ASSUME \A r \in Requests : ~(BurnDelete(r) /\ work[r].asset = a)
        PROVE  nft[a] = NoRow
    <2>1. CASE UNCHANGED nft BY <2>1
    <2>2. ASSUME NEW r \in Requests, SyncOwner(r) \/ SettleOwner(r) PROVE nft[a] = NoRow
      <3>1. work[r].who # NoRow BY <1>t, <2>2 DEF Sound, At, SyncOwner, SettleOwner
      <3>2. nft' = nft \/ nft' = [nft EXCEPT ![work[r].asset] = work[r].who]
        BY <2>2 DEF SyncOwner, SettleOwner
      <3> QED BY <1>t, <3>1, <3>2
    <2>3. ASSUME NEW r \in Requests, BurnDelete(r) PROVE nft[a] = NoRow
      BY <1>t, <1>2, <2>3 DEF BurnDelete
    <2> QED BY <2>1, <2>2, <2>3, RowWriters
  <1>3. ASSUME nft[a] = NoRow
        PROVE  /\ owner'[a] = Burned
               /\ \A i \in DOMAIN listing' : listing'[i].asset = a => listing'[i].status = "deleted"
               /\ \A x \in sale' : x.asset # a
    <2>0. /\ owner[a] = Burned
          /\ \A i \in DOMAIN listing : listing[i].asset = a => listing[i].status = "deleted"
          /\ \A x \in sale : x.asset # a
      BY <1>3 DEF GoneIsBurned, Exists
    <2>1. owner'[a] = Burned BY <2>0, BurnedForGood
    <2>2. \A i \in DOMAIN listing : listing'[i].asset = a => listing'[i].status = "deleted"
      BY <2>0, ListingsAlwaysGrow DEF ListingsGrow
    <2>3. \A i \in DOMAIN listing' : i \in DOMAIN listing \/ listing'[i].asset # a
      <3>1. CASE UNCHANGED listing BY <3>1
      <3>2. ASSUME NEW r \in Requests, SettleClose(r) \/ BurnDelete(r)
            PROVE  DOMAIN listing' = DOMAIN listing
        BY <3>2, SettleCloseListings, BurnDeleteListings
      <3>3. ASSUME NEW r \in Requests, SyncWrite(r)
            PROVE  \A i \in DOMAIN listing' : i \in DOMAIN listing \/ listing'[i].asset # a
        <4> DEFINE row == [asset |-> work[r].asset, seller |-> work[r].who,
                           price |-> work[r].price, status |-> "ACTIVE"]
        <4>1. CASE DOMAIN listing' = DOMAIN listing BY <4>1
        <4>2. CASE nft[work[r].asset] # NoRow /\ listing' = Append(listing, row)
          <5>1. row \in ListingRows /\ row.asset = work[r].asset
            BY <1>t, JobTyped DEF ListingRows
          <5>2. work[r].asset # a BY <1>3, <4>2
          <5> HIDE DEF row
          <5> QED BY <1>t, <4>2, <5>1, <5>2, ListingAdded
        <4> QED BY <3>3, <4>1, <4>2 DEF SyncWrite, SetStatus
      <3> QED BY <3>1, <3>2, <3>3, RowWriters
    <2>4. \A x \in sale' : x.asset # a
      <3>1. CASE UNCHANGED sale BY <2>0, <3>1
      <3>2. ASSUME NEW r \in Requests, BurnDelete(r) PROVE \A x \in sale' : x.asset # a
        BY <2>0, <3>2 DEF BurnDelete
      <3>3. ASSUME NEW r \in Requests, SettleSale(r) PROVE \A x \in sale' : x.asset # a
        <4>1. CASE UNCHANGED sale BY <2>0, <4>1
        <4>2. CASE Exists(work[r].row)
          <5>1. work[r].row \in DOMAIN listing /\ listing[work[r].row].asset = work[r].asset
            BY <1>t, <3>3 DEF Sound, At, SettleSale, Rowed
          <5>2. work[r].asset # a BY <2>0, <4>2, <5>1 DEF Exists
          <5> DEFINE x == [tx |-> work[r].tx, listing |-> work[r].row, asset |-> work[r].asset,
                           seller |-> listing[work[r].row].seller, buyer |-> work[r].who,
                           price |-> work[r].price]
          <5>3. x.asset = work[r].asset OBVIOUS
          <5>4. sale' = sale \/ sale' = sale \cup {x} BY <3>3 DEF SettleSale
          <5> HIDE DEF x
          <5> QED BY <2>0, <5>2, <5>3, <5>4
        <4> QED BY <3>3, <4>1, <4>2 DEF SettleSale
      <3> QED BY <3>1, <3>2, <3>3, RowWriters
    <2> QED BY <2>1, <2>2, <2>3, <2>4
  <1> QED BY <1>1, <1>2, <1>3

-----------------------------------------------------------------------------
(* The theorems.                                                            *)

\* Every row and variable holds what its columns can hold, and a request between
\* two statements still names its own asset's rows and writes only for a person.
THEOREM ShopTyped == ShopSpec => [](ShopTypeOK /\ WorkInv)
  <1>1. ShopInit => TypedWork BY TypedWorkInit
  <1>2. TypedWork /\ [ShopNext]_shopVars => TypedWork' BY TypedWorkStep
  <1>3. TypedWork => ShopTypeOK /\ WorkInv BY DEF TypedWork
  <1> QED BY <1>1, <1>2, <1>3, PTL DEF ShopSpec

\* However often settle is retried, whichever requests overlap and wherever one
\* stops, a listing has one sale and a purchase is counted in one.
THEOREM SellsOnce == ShopSpec => []SoldOnce
  <1>1. ShopInit => SoldOnce BY DEF ShopInit, SoldOnce
  <1>2. SoldOnce /\ [ShopNext]_shopVars => SoldOnce' BY SoldOnceStep
  <1> QED BY <1>1, <1>2, PTL DEF ShopSpec

\* The owner the catalogue shows is a person at every moment, while the escrow
\* program holds the asset too.
THEOREM OwnersArePeople == ShopSpec => []OwnedByPerson
  <1>1. ShopInit => OwnedByPerson BY WalletAddress DEF ShopInit, OwnedByPerson
  <1>2. TypedWork /\ OwnedByPerson /\ [ShopNext]_shopVars => OwnedByPerson' BY OwnedByPersonStep
  <1>3. ShopSpec => []TypedWork BY TypedWorkInit, TypedWorkStep, PTL DEF ShopSpec
  <1> QED BY <1>1, <1>2, <1>3, PTL DEF ShopSpec

\* A row that confirmBurn has deleted belongs to an asset that left the chain, and
\* no request that had read it before brings one of its listings or sales back.
THEOREM GoneMeansBurned == ShopSpec => []GoneIsBurned
  <1>1. ShopInit => GoneIsBurned
    <2> SUFFICES ASSUME ShopInit PROVE GoneIsBurned OBVIOUS
    <2>1. \A a \in Assets : nft[a] # NoRow BY WalletAddress DEF ShopInit
    <2> QED BY <2>1 DEF GoneIsBurned
  <1>2. TypedWork /\ GoneIsBurned /\ [ShopNext]_shopVars => GoneIsBurned' BY GoneIsBurnedStep
  <1>3. ShopSpec => []TypedWork BY TypedWorkInit, TypedWorkStep, PTL DEF ShopSpec
  <1> QED BY <1>1, <1>2, <1>3, PTL DEF ShopSpec

\* A listing that was sold, cancelled or deleted is never offered again, whatever
\* a request that is late had read.
THEOREM ListingsStayClosed == ShopSpec => ClosedStaysClosed
  <1>1. TypedWork /\ [ShopNext]_shopVars =>
          [\A i \in DOMAIN listing : listing[i].status # "ACTIVE" => listing'[i].status # "ACTIVE"]_shopVars
    BY ListingsAlwaysGrow DEF ListingsGrow
  <1>2. ShopSpec => []TypedWork BY TypedWorkInit, TypedWorkStep, PTL DEF ShopSpec
  <1> QED BY <1>1, <1>2, PTL DEF ShopSpec, ClosedStaysClosed
=============================================================================

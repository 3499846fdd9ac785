------------------------- MODULE EvmCatalogueProofs -------------------------
(***************************************************************************)
(* EvmCatalogue keeps its properties for any number of tokens, people,     *)
(* requests and rows, and any window.                                      *)
(*                                                                         *)
(* CatalogueInv says that what a handler has read was true, and that the   *)
(* row it found still belongs to the token and seller it was found for:    *)
(* rows are only added, and the histories only grow, so one lemma,         *)
(* StillTrue, serves every handler that is not the one taking a step.      *)
(* SyncInv follows a sync that runs alone from the newest offer to the     *)
(* oldest: what it has passed is mirrored.                                 *)
(***************************************************************************)
EXTENDS EvmCatalogue, SequenceTheorems, WellFoundedInduction, TLAPS

-----------------------------------------------------------------------------
(* Rows, offers and what a handler holds.                                   *)

LEMMA LotRow ==
  ASSUME CatalogueTypeOK
  PROVE  /\ DOMAIN lots = 1..Len(lots) /\ Len(lots) \in Nat
         /\ \A n \in DOMAIN lots : lots[n] \in Lots /\ n \in Nat /\ n # 0
  <1>1. DOMAIN lots = 1..Len(lots) /\ Len(lots) \in Nat BY LenProperties DEF CatalogueTypeOK
  <1>2. \A n \in DOMAIN lots : lots[n] \in Lots BY <1>1, ElementOfSeq DEF CatalogueTypeOK
  <1> QED BY <1>1, <1>2

LEMMA OfferRow ==
  ASSUME CatalogueTypeOK
  PROVE  /\ DOMAIN offers = 1..Len(offers) /\ Len(offers) \in Nat
         /\ \A l \in DOMAIN offers :
              /\ offers[l] \in Offers /\ offers[l].token \in Nfts /\ offers[l].seller \in People
              /\ offers[l].price \in Wei /\ l \in Nat
  <1>1. DOMAIN offers = 1..Len(offers) /\ Len(offers) \in Nat BY LenProperties DEF CatalogueTypeOK
  <1>2. \A l \in DOMAIN offers : offers[l] \in Offers BY <1>1, ElementOfSeq DEF CatalogueTypeOK
  <1> QED BY <1>1, <1>2 DEF Offers

\* A bounded set of row numbers has a greatest one: "newest" finds a row.
LEMMA NewestFound ==
  ASSUME NEW n \in Nat, NEW S \in SUBSET (1..n), S # {}
  PROVE  NewestOf(S) \in S
  <1> DEFINE T == {k \in Nat : n - k \in S}
             R == {p \in Nat \X Nat : p[1] < p[2]}
  <1>1. T # {}
    <2>1. PICK y \in S : TRUE OBVIOUS
    <2>2. n - y \in Nat /\ n - (n - y) = y BY <2>1
    <2> QED BY <2>1, <2>2
  <1>2. IsWellFoundedOn(R, Nat) BY NatLessThanWellFounded DEF OpToRel
  <1>3. PICK k \in T : \A j \in T : ~(<<j, k>> \in R)
    <2> HIDE DEF R
    <2>1. T \in SUBSET Nat OBVIOUS
    <2> HIDE DEF T
    <2> QED BY <1>1, <1>2, <2>1, WFMin
  <1>4. \A j \in T : ~(j < k) BY <1>3
  <1>5. ASSUME NEW y \in S PROVE n - k >= y
    <2>1. n - y \in Nat /\ n - (n - y) = y OBVIOUS
    <2>2. n - y \in T BY <2>1
    <2> QED BY <1>4, <2>1, <2>2
  <1>6. Max(S) \in S BY <1>5 DEF Max
  <1> QED BY <1>6 DEF NewestOf

\* What an UPDATE or an INSERT found: a row of the set asked for, or none.
LEMMA NewestRow ==
  ASSUME CatalogueTypeOK, NEW S \in SUBSET DOMAIN lots
  PROVE  NewestOf(S) \in Nat /\ (NewestOf(S) # 0 => NewestOf(S) \in S) /\ (S # {} => NewestOf(S) \in S)
  <1>1. CASE S = {} BY <1>1 DEF NewestOf
  <1>2. CASE S # {}
    <2>1. NewestOf(S) \in S BY <1>2, LotRow, NewestFound
    <2> QED BY <2>1, LotRow
  <1> QED BY <1>1, <1>2

LEMMA WaitingTyped ==
  /\ Waiting \in Tasks /\ Waiting.do = "nothing" /\ Waiting.seen = <<>>
  /\ Waiting.row = 0 /\ Waiting.ok = FALSE
  <1>1. "nothing" \in Doings BY DEF Doings
  <1>2. <<>> \in Seq(Listings) BY EmptySeq
  <1> QED BY <1>1, <1>2 DEF Waiting, Tasks

LEMMA TaskTyped ==
  ASSUME CatalogueTypeOK, NEW c \in Callers
  PROVE  /\ task[c] \in Tasks /\ task[c].token \in Nfts \cup {Nobody}
         /\ task[c].owner \in People \cup {Nobody} /\ task[c].price \in Wei \cup {Nobody}
         /\ task[c].row \in Nat /\ task[c].ok \in BOOLEAN /\ task[c].seen \in Seq(Listings)
         /\ DOMAIN task[c].seen = 1..Len(task[c].seen) /\ Len(task[c].seen) \in Nat
  <1>1. task[c] \in Tasks BY DEF CatalogueTypeOK
  <1>2. task[c].seen \in Seq(Listings) BY <1>1 DEF Tasks
  <1>3. DOMAIN task[c].seen = 1..Len(task[c].seen) /\ Len(task[c].seen) \in Nat
    BY <1>2, LenProperties
  <1> QED BY <1>1, <1>2, <1>3 DEF Tasks

\* What a call for a listing brings.
LEMMA ListedTyped ==
  ASSUME CatalogueTypeOK, NEW l \in DOMAIN offers
  PROVE  /\ Listed(l) \in Listings /\ Listed(l).id = l /\ Terms(Listed(l)) = Terms(offers[l])
         /\ Listed(l).token = offers[l].token /\ Listed(l).seller = offers[l].seller
         /\ Listed(l).price = offers[l].price /\ Listed(l).active = offers[l].active
  <1>1. offers[l] \in Offers /\ l \in Nat BY OfferRow
  <1> QED BY <1>1 DEF Listed, Listings, Offers, Terms

\* Owners and askers in the histories are what their names say.
LEMMA HistoryTyped ==
  ASSUME CatalogueTypeOK
  PROVE  /\ \A t, p : <<t, p>> \in held => t \in Nfts /\ p \in People
         /\ \A t, p, price : <<t, p, price>> \in asked => t \in Nfts /\ p \in People /\ price \in Wei
  BY DEF CatalogueTypeOK

-----------------------------------------------------------------------------
(* What may happen to the rows of listings.                                 *)

\* Rows are only added, and keep their token and seller.
LotsGrow ==
    /\ DOMAIN lots \subseteq DOMAIN lots'
    /\ \A n \in DOMAIN lots : lots'[n].token = lots[n].token /\ lots'[n].seller = lots[n].seller

RowsAsked == \A n \in DOMAIN lots : Terms(lots[n]) \in asked

LEMMA LotsSame ==
  ASSUME CatalogueTypeOK, RowsAsked, UNCHANGED lots, asked \subseteq asked'
  PROVE  lots' \in Seq(Lots) /\ LotsGrow /\ RowsAsked'
  BY DEF CatalogueTypeOK, LotsGrow, RowsAsked, Terms

LEMMA LotRewritten ==
  ASSUME CatalogueTypeOK, RowsAsked, NEW n \in DOMAIN lots, NEW row \in Lots,
         row.token = lots[n].token, row.seller = lots[n].seller, Terms(row) \in asked,
         lots' = [lots EXCEPT ![n] = row], UNCHANGED asked
  PROVE  /\ lots' \in Seq(Lots) /\ LotsGrow /\ RowsAsked' /\ DOMAIN lots' = DOMAIN lots
         /\ lots'[n] = row /\ \A m \in DOMAIN lots \ {n} : lots'[m] = lots[m]
  <1>1. lots \in Seq(Lots) /\ n \in 1..Len(lots) BY LotRow DEF CatalogueTypeOK
  <1>2. lots' \in Seq(Lots) BY <1>1, ExceptSeq
  <1>3. /\ DOMAIN lots' = DOMAIN lots
        /\ lots'[n] = row /\ \A m \in DOMAIN lots \ {n} : lots'[m] = lots[m]
    OBVIOUS
  <1>4. \A m \in DOMAIN lots : lots'[m].token = lots[m].token /\ lots'[m].seller = lots[m].seller
    BY <1>3
  <1>5. RowsAsked' BY <1>3 DEF RowsAsked, Terms
  <1> QED BY <1>2, <1>3, <1>4, <1>5 DEF LotsGrow

\* The two statements that update a row by id.
LEMMA LotPriced ==
  ASSUME CatalogueTypeOK, RowsAsked, NEW n \in DOMAIN lots, NEW price,
         <<lots[n].token, lots[n].seller, price>> \in asked,
         lots' = [lots EXCEPT ![n].price = price], UNCHANGED asked
  PROVE  /\ lots' \in Seq(Lots) /\ LotsGrow /\ RowsAsked' /\ DOMAIN lots' = DOMAIN lots
         /\ lots'[n].price = price /\ lots'[n].status = lots[n].status
         /\ \A m \in DOMAIN lots \ {n} : lots'[m] = lots[m]
  <1> DEFINE row == [lots[n] EXCEPT !.price = price]
  <1>1. lots[n] \in Lots /\ price \in Wei BY LotRow, HistoryTyped
  <1>2. /\ row \in Lots /\ row.token = lots[n].token /\ row.seller = lots[n].seller
        /\ row.price = price /\ row.status = lots[n].status
    BY <1>1 DEF Lots
  <1>3. lots' = [lots EXCEPT ![n] = row] OBVIOUS
  <1> HIDE DEF row
  <1>4. Terms(row) \in asked BY <1>2 DEF Terms
  <1>5. /\ lots' \in Seq(Lots) /\ LotsGrow /\ RowsAsked' /\ DOMAIN lots' = DOMAIN lots
        /\ lots'[n] = row /\ \A m \in DOMAIN lots \ {n} : lots'[m] = lots[m]
    BY <1>2, <1>3, <1>4, LotRewritten
  <1> QED BY <1>2, <1>5

LEMMA LotClosed ==
  ASSUME CatalogueTypeOK, RowsAsked, NEW n \in DOMAIN lots, NEW status \in {"SOLD", "CANCELLED"},
         lots' = [lots EXCEPT ![n].status = status], UNCHANGED asked
  PROVE  /\ lots' \in Seq(Lots) /\ LotsGrow /\ RowsAsked' /\ DOMAIN lots' = DOMAIN lots
         /\ lots'[n].status = status
         /\ \A m \in DOMAIN lots \ {n} : lots'[m] = lots[m]
  <1> DEFINE row == [lots[n] EXCEPT !.status = status]
  <1>1. lots[n] \in Lots BY LotRow
  <1>2. /\ row \in Lots /\ row.token = lots[n].token /\ row.seller = lots[n].seller
        /\ row.price = lots[n].price /\ row.status = status
    BY <1>1 DEF Lots
  <1>3. lots' = [lots EXCEPT ![n] = row] OBVIOUS
  <1> HIDE DEF row
  <1>4. Terms(row) \in asked BY <1>2 DEF Terms, RowsAsked
  <1>5. /\ lots' \in Seq(Lots) /\ LotsGrow /\ RowsAsked' /\ DOMAIN lots' = DOMAIN lots
        /\ lots'[n] = row /\ \A m \in DOMAIN lots \ {n} : lots'[m] = lots[m]
    BY <1>2, <1>3, <1>4, LotRewritten
  <1> QED BY <1>2, <1>5

LEMMA LotAdded ==
  ASSUME CatalogueTypeOK, RowsAsked, NEW t, NEW p, NEW price, <<t, p, price>> \in asked,
         Adds(t, p, price), UNCHANGED asked
  PROVE  /\ lots' \in Seq(Lots) /\ LotsGrow /\ RowsAsked'
         /\ \A m \in DOMAIN lots : lots'[m] = lots[m]
         /\ \A m \in DOMAIN lots' \ DOMAIN lots :
               lots'[m] = [token |-> t, seller |-> p, price |-> price, status |-> "ACTIVE"]
         /\ \E m \in DOMAIN lots' \ DOMAIN lots : TRUE
  <1> DEFINE row == [token |-> t, seller |-> p, price |-> price, status |-> "ACTIVE"]
  <1>1. t \in Nfts /\ p \in People /\ price \in Wei BY HistoryTyped
  <1>2. row \in Lots /\ Terms(row) \in asked BY <1>1 DEF Lots, Terms
  <1>3. lots' = Append(lots, row) BY DEF Adds
  <1> HIDE DEF row
  <1>4. /\ lots' \in Seq(Lots) /\ Len(lots') = Len(lots) + 1
        /\ \A m \in 1..Len(lots) : lots'[m] = lots[m]
        /\ lots'[Len(lots) + 1] = row
    BY <1>2, <1>3, AppendProperties DEF CatalogueTypeOK
  <1>5. DOMAIN lots = 1..Len(lots) /\ Len(lots) \in Nat /\ DOMAIN lots' = 1..(Len(lots) + 1)
    BY <1>4, LotRow, LenProperties
  <1>6. /\ DOMAIN lots \subseteq DOMAIN lots' /\ Len(lots) + 1 \in DOMAIN lots' \ DOMAIN lots
        /\ \A m \in DOMAIN lots' \ DOMAIN lots : m = Len(lots) + 1
    BY <1>5
  <1>7. \A m \in DOMAIN lots : lots'[m] = lots[m] BY <1>4, <1>5
  <1>8. \A m \in DOMAIN lots' \ DOMAIN lots : lots'[m] = row BY <1>4, <1>6
  <1>9. LotsGrow BY <1>6, <1>7 DEF LotsGrow
  <1>10. RowsAsked' BY <1>2, <1>7, <1>8 DEF RowsAsked, Terms
  <1> QED BY <1>4, <1>6, <1>7, <1>8, <1>9, <1>10 DEF row

-----------------------------------------------------------------------------
(* The invariant, and what keeps it.                                        *)

CatalogueInv ==
    CatalogueTypeOK /\ HistoryInv /\ TaskInv /\ SoldInv /\ RowsFollowChain

LEMMA InvRows == ASSUME CatalogueInv PROVE RowsAsked
  BY DEF CatalogueInv, RowsFollowChain, RowsAsked, Terms

\* The histories only grow, and so do the offers.
HistoryGrows ==
    held \subseteq held' /\ asked \subseteq asked' /\ DOMAIN offers \subseteq DOMAIN offers'

TaskWrites(c) ==
    /\ task' \in [Callers -> Tasks]
    /\ \A d \in Callers \ {c} : task'[d] = task[d]

LEMMA TaskSet ==
  ASSUME CatalogueTypeOK, NEW c \in Callers, NEW j \in Tasks, task' = [task EXCEPT ![c] = j]
  PROVE  TaskWrites(c) /\ task'[c] = j
  BY DEF CatalogueTypeOK, TaskWrites

\* What a handler read is true for good: rows grow and histories do.
LEMMA StillTrue ==
  ASSUME CatalogueInv, NEW d \in Callers, task'[d] = task[d], LotsGrow, HistoryGrows
  PROVE  ReadTruly(d)'
  <1>0. ReadTruly(d) BY DEF CatalogueInv, TaskInv
  <1>1. \A n, t, p : n \in RowsOf(t, p) =>
           n \in DOMAIN lots' /\ lots'[n].token = t /\ lots'[n].seller = p
    BY DEF RowsOf, LotsGrow
  <1>2. /\ task[d].do = "listed" /\ task[d].row # 0 =>
              /\ task[d].row \in DOMAIN lots'
              /\ lots'[task[d].row].token = task[d].token /\ lots'[task[d].row].seller = task[d].owner
        /\ task[d].do = "syncing" /\ task[d].row # 0 =>
              /\ task[d].row \in DOMAIN lots'
              /\ lots'[task[d].row].token = Head(task[d].seen).token
              /\ lots'[task[d].row].seller = Head(task[d].seen).seller
    BY <1>0, <1>1 DEF ReadTruly
  <1>3. /\ task[d].do \in {"token", "settle"} => <<task[d].token, task[d].owner>> \in held'
        /\ task[d].do \in {"listing", "listed"} =>
              <<task[d].token, task[d].owner, task[d].price>> \in asked'
        /\ \A k \in DOMAIN task[d].seen : Terms(task[d].seen[k]) \in asked'
        /\ task[d].do = "sync" => 1..task[d].row \subseteq DOMAIN offers'
        /\ task[d].do = "syncing" => task[d].seen # <<>>
        /\ task[d].do = "syncing" /\ task[d].ok => task[d].row # 0
    BY <1>0 DEF ReadTruly, HistoryGrows
  <1> QED BY <1>2, <1>3 DEF ReadTruly, RowsOf, Terms

\* A handler's step, which leaves the chain alone.
LEMMA HandlerKept ==
  ASSUME CatalogueInv, NEW c \in Callers, UNCHANGED evmChain,
         TaskWrites(c), ReadTruly(c)',
         lots' \in Seq(Lots), LotsGrow, RowsAsked',
         card' \in [Nfts -> Cards],
         \A t \in Nfts : card'[t].indexed => <<t, card'[t].owner>> \in held,
         sold' \subseteq Sales,
         \A s \in sold' \ sold : /\ s.row \in DOMAIN lots' /\ <<s.token, s.buyer>> \in held
                                 /\ <<s.token, lots'[s.row].seller, s.price>> \in asked
  PROVE  CatalogueInv'
  <1>1. UNCHANGED <<holder, offers, held, asked>> BY DEF evmChain
  <1>2. CatalogueTypeOK' BY <1>1 DEF CatalogueInv, CatalogueTypeOK, TaskWrites
  <1>3. HistoryInv' BY <1>1 DEF CatalogueInv, HistoryInv, Terms
  <1>4. HistoryGrows BY <1>1 DEF HistoryGrows
  <1>5. TaskInv' BY <1>4, StillTrue DEF TaskInv, TaskWrites
  <1>6. \A s \in sold : /\ s.row \in DOMAIN lots' /\ <<s.token, s.buyer>> \in held
                        /\ <<s.token, lots'[s.row].seller, s.price>> \in asked
    BY DEF CatalogueInv, SoldInv, RowsFollowChain, LotsGrow
  <1>7. SoldInv' BY <1>6 DEF SoldInv
  <1>8. RowsFollowChain' BY <1>1, <1>6 DEF RowsFollowChain, RowsAsked, Terms
  <1> QED BY <1>2, <1>3, <1>5, <1>7, <1>8 DEF CatalogueInv

\* A handler's step that writes no row.
LEMMA ReaderKept ==
  ASSUME CatalogueInv, NEW c \in Callers, UNCHANGED <<evmChain, cardVars>>,
         TaskWrites(c), ReadTruly(c)'
  PROVE  CatalogueInv'
  <1>1. UNCHANGED <<card, lots, sold, asked>> BY DEF evmChain, cardVars
  <1>2. CatalogueTypeOK /\ RowsAsked BY InvRows DEF CatalogueInv
  <1>3. lots' \in Seq(Lots) /\ LotsGrow /\ RowsAsked' BY <1>1, <1>2, LotsSame
  <1>4. /\ card' \in [Nfts -> Cards] /\ sold' \subseteq Sales
        /\ \A t \in Nfts : card'[t].indexed => <<t, card'[t].owner>> \in held
    BY <1>1 DEF CatalogueInv, CatalogueTypeOK, RowsFollowChain
  <1> QED BY <1>1, <1>3, <1>4, HandlerKept

LEMMA TaskReturned ==
  ASSUME CatalogueInv, NEW c \in Callers, Returns(c)
  PROVE  TaskWrites(c) /\ ReadTruly(c)' /\ task'[c] = Waiting
  <1>1. TaskWrites(c) /\ task'[c] = Waiting
    BY WaitingTyped, TaskSet DEF Returns, CatalogueInv
  <1>2. DOMAIN Waiting.seen = {} BY WaitingTyped
  <1> QED BY <1>1, <1>2, WaitingTyped DEF ReadTruly

LEMMA DiesKept ==
  ASSUME CatalogueInv, NEW c \in Callers, Dies(c)
  PROVE  CatalogueInv'
  BY TaskReturned, ReaderKept DEF Dies

-----------------------------------------------------------------------------
(* One token's row.                                                         *)

\* The handler keeps an owner it read.
LEMMA OwnerRead ==
  ASSUME CatalogueInv, NEW t \in Nfts, NEW p \in ReadAsset(t), Answered(p)
  PROVE  <<t, p>> \in held /\ p \in People
  <1>1. p = holder[t] /\ p # Nobody BY DEF ReadAsset, Answered
  <1>2. <<t, p>> \in held BY <1>1 DEF CatalogueInv, HistoryInv
  <1> QED BY <1>2, HistoryTyped DEF CatalogueInv

LEMMA OwnerHeld ==
  ASSUME CatalogueInv, NEW c \in Callers, NEW t \in Nfts, NEW p, <<t, p>> \in held,
         NEW d \in {"token", "settle"}, UNCHANGED evmChain,
         Begins(c, [Waiting EXCEPT !.do = d, !.token = t, !.owner = p])
  PROVE  TaskWrites(c) /\ ReadTruly(c)'
  <1> DEFINE j == [Waiting EXCEPT !.do = d, !.token = t, !.owner = p]
  <1>0. p \in People BY HistoryTyped DEF CatalogueInv
  <1>1. d \in Doings BY DEF Doings
  <1>2. j \in Tasks BY <1>0, <1>1, WaitingTyped DEF Tasks
  <1>3. j.do = d /\ j.token = t /\ j.owner = p /\ j.seen = <<>> BY WaitingTyped DEF Tasks
  <1>4. task' = [task EXCEPT ![c] = j] BY DEF Begins
  <1> HIDE DEF j
  <1>5. TaskWrites(c) /\ task'[c] = j BY <1>2, <1>4, TaskSet DEF CatalogueInv
  <1>6. <<t, p>> \in held' BY DEF evmChain
  <1> QED BY <1>3, <1>5, <1>6 DEF ReadTruly

LEMMA TokenReadKept ==
  ASSUME CatalogueInv, NEW c \in Callers, TokenRead(c)
  PROVE  CatalogueInv'
  <1>0. UNCHANGED <<evmChain, cardVars>> BY DEF TokenRead
  <1>1. PICK t \in Receipts : \E p \in ReadAsset(t) :
          /\ Answered(p)
          /\ Begins(c, [Waiting EXCEPT !.do = "token", !.token = t, !.owner = p])
    BY DEF TokenRead
  <1>2. PICK p \in ReadAsset(t) :
          /\ Answered(p)
          /\ Begins(c, [Waiting EXCEPT !.do = "token", !.token = t, !.owner = p])
    BY <1>1
  <1>3. t \in Nfts BY DEF Receipts
  <1>4. <<t, p>> \in held BY <1>2, <1>3, OwnerRead
  <1>5. TaskWrites(c) /\ ReadTruly(c)' BY <1>0, <1>2, <1>3, <1>4, OwnerHeld
  <1> QED BY <1>0, <1>5, ReaderKept

LEMMA TokenWriteKept ==
  ASSUME CatalogueInv, NEW c \in Callers, TokenWrite(c)
  PROVE  CatalogueInv'
  <1>0. UNCHANGED <<evmChain, lots, sold, asked>> /\ CatalogueTypeOK
    BY DEF TokenWrite, evmChain, CatalogueInv
  <1>1. <<task[c].token, task[c].owner>> \in held
    BY DEF TokenWrite, CatalogueInv, TaskInv, ReadTruly
  <1>2. task[c].token \in Nfts /\ task[c].owner \in People BY <1>0, <1>1, HistoryTyped
  <1>3. TaskWrites(c) /\ ReadTruly(c)' BY TaskReturned DEF TokenWrite
  <1> DEFINE row == [indexed |-> TRUE, owner |-> task[c].owner, hidden |-> card[task[c].token].hidden]
  <1>4. card[task[c].token].hidden \in BOOLEAN
    <2>1. card[task[c].token] \in Cards BY <1>0, <1>2 DEF CatalogueTypeOK
    <2> QED BY <2>1 DEF Cards
  <1>5. row \in Cards BY <1>2, <1>4 DEF Cards
  <1>5a. row.owner = task[c].owner OBVIOUS
  <1>6. card' = [card EXCEPT ![task[c].token] = row] BY DEF TokenWrite
  <1> HIDE DEF row
  <1>7. card' \in [Nfts -> Cards] BY <1>0, <1>5, <1>6 DEF CatalogueTypeOK
  <1>8. \A t \in Nfts : card'[t].indexed => <<t, card'[t].owner>> \in held
    BY <1>0, <1>1, <1>5a, <1>6 DEF CatalogueInv, CatalogueTypeOK, RowsFollowChain
  <1>9. lots' \in Seq(Lots) /\ LotsGrow /\ RowsAsked' BY <1>0, InvRows, LotsSame
  <1>10. sold' = sold /\ sold' \subseteq Sales BY <1>0 DEF CatalogueTypeOK
  <1> QED BY <1>0, <1>3, <1>7, <1>8, <1>9, <1>10, HandlerKept

-----------------------------------------------------------------------------
(* One listing's row.                                                       *)

LEMMA ListingReadKept ==
  ASSUME CatalogueInv, NEW c \in Callers, ListingRead(c)
  PROVE  CatalogueInv'
  <1>0. UNCHANGED <<evmChain, cardVars>> /\ CatalogueTypeOK BY DEF ListingRead, CatalogueInv
  <1>1. PICK l \in DOMAIN offers :
          Begins(c, [Waiting EXCEPT !.do = "listing", !.token = offers[l].token,
                          !.owner = offers[l].seller, !.price = offers[l].price])
    BY DEF ListingRead
  <1> DEFINE j == [Waiting EXCEPT !.do = "listing", !.token = offers[l].token,
                     !.owner = offers[l].seller, !.price = offers[l].price]
  <1>2. offers[l].token \in Nfts /\ offers[l].seller \in People /\ offers[l].price \in Wei
    BY <1>0, OfferRow
  <1>3. "listing" \in Doings BY DEF Doings
  <1>4. j \in Tasks BY <1>2, <1>3, WaitingTyped DEF Tasks
  <1>5. /\ j.do = "listing" /\ j.token = offers[l].token /\ j.owner = offers[l].seller
        /\ j.price = offers[l].price /\ j.seen = <<>>
    BY WaitingTyped DEF Tasks
  <1>6. task' = [task EXCEPT ![c] = j] BY <1>1 DEF Begins
  <1> HIDE DEF j
  <1>7. TaskWrites(c) /\ task'[c] = j BY <1>0, <1>4, <1>6, TaskSet
  <1>8. <<offers[l].token, offers[l].seller, offers[l].price>> \in asked'
    BY <1>0 DEF CatalogueInv, HistoryInv, Terms, evmChain
  <1>9. ReadTruly(c)' BY <1>5, <1>7, <1>8 DEF ReadTruly
  <1> QED BY <1>0, <1>7, <1>9, ReaderKept

LEMMA ListingFindKept ==
  ASSUME CatalogueInv, NEW c \in Callers, ListingFind(c)
  PROVE  CatalogueInv'
  <1>0. UNCHANGED <<evmChain, cardVars>> /\ CatalogueTypeOK BY DEF ListingFind, CatalogueInv
  <1>1. CASE Returns(c) BY <1>0, <1>1, TaskReturned, ReaderKept
  <1>2. CASE ~Returns(c)
    <2> DEFINE S == {n \in RowsOf(task[c].token, task[c].owner) : OnShelf(n)}
               n == NewestOf(S)
               j == [task[c] EXCEPT !.do = "listed", !.row = n]
    <2>1. task' = [task EXCEPT ![c].do = "listed", ![c].row = n] BY <1>2 DEF ListingFind
    <2>2. S \in SUBSET DOMAIN lots BY DEF RowsOf
    <2>3. n \in Nat /\ (n # 0 => n \in RowsOf(task[c].token, task[c].owner))
      <3>1. S \subseteq RowsOf(task[c].token, task[c].owner) OBVIOUS
      <3> HIDE DEF S
      <3> QED BY <1>0, <2>2, <3>1, NewestRow
    <2> HIDE DEF n
    <2>4. "listed" \in Doings BY DEF Doings
    <2>5. j \in Tasks BY <1>0, <2>3, <2>4, TaskTyped DEF Tasks
    <2>6. /\ j.do = "listed" /\ j.token = task[c].token /\ j.owner = task[c].owner
          /\ j.price = task[c].price /\ j.seen = task[c].seen /\ j.row = n
      BY <1>0, TaskTyped DEF Tasks
    <2>7. task' = [task EXCEPT ![c] = j] BY <1>0, <2>1 DEF CatalogueTypeOK
    <2> HIDE DEF j
    <2>8. TaskWrites(c) /\ task'[c] = j BY <1>0, <2>5, <2>7, TaskSet
    <2>9. ReadTruly(c) /\ task[c].do = "listing" BY DEF CatalogueInv, TaskInv, ListingFind
    <2>10. UNCHANGED <<held, asked, lots>> BY <1>0 DEF evmChain, cardVars
    <2>11. ReadTruly(c)' BY <2>3, <2>6, <2>8, <2>9, <2>10 DEF ReadTruly, RowsOf, Terms
    <2> QED BY <1>0, <2>8, <2>11, ReaderKept
  <1> QED BY <1>1, <1>2

\* A step that writes the rows of listings and nothing else of the rows.
LEMMA LotsWriterKept ==
  ASSUME CatalogueInv, NEW c \in Callers, UNCHANGED <<evmChain, card, sold>>,
         TaskWrites(c), ReadTruly(c)', lots' \in Seq(Lots), LotsGrow, RowsAsked'
  PROVE  CatalogueInv'
  <1>1. /\ card' \in [Nfts -> Cards] /\ sold' \subseteq Sales
        /\ \A t \in Nfts : card'[t].indexed => <<t, card'[t].owner>> \in held
    BY DEF CatalogueInv, CatalogueTypeOK, RowsFollowChain
  <1>2. UNCHANGED evmChain /\ sold' = sold OBVIOUS
  <1> QED BY <1>1, <1>2, HandlerKept

LEMMA ListingWriteKept ==
  ASSUME CatalogueInv, NEW c \in Callers, ListingWrite(c)
  PROVE  CatalogueInv'
  <1>0. UNCHANGED <<evmChain, card, sold, asked>> /\ CatalogueTypeOK /\ RowsAsked
    BY InvRows DEF ListingWrite, evmChain, CatalogueInv
  <1>1. /\ <<task[c].token, task[c].owner, task[c].price>> \in asked
        /\ task[c].row # 0 => /\ task[c].row \in DOMAIN lots
                              /\ lots[task[c].row].token = task[c].token
                              /\ lots[task[c].row].seller = task[c].owner
    BY DEF CatalogueInv, TaskInv, ReadTruly, ListingWrite, RowsOf
  <1>2. lots' \in Seq(Lots) /\ LotsGrow /\ RowsAsked'
    <2>1. CASE task[c].row = 0
      <3>1. Adds(task[c].token, task[c].owner, task[c].price) BY <2>1 DEF ListingWrite
      <3> QED BY <1>0, <1>1, <3>1, LotAdded
    <2>2. CASE task[c].row # 0
      <3>1. lots' = [lots EXCEPT ![task[c].row].price = task[c].price] BY <2>2 DEF ListingWrite
      <3> QED BY <1>0, <1>1, <2>2, <3>1, LotPriced
    <2> QED BY <2>1, <2>2
  <1>3. TaskWrites(c) /\ ReadTruly(c)' BY TaskReturned DEF ListingWrite
  <1> QED BY <1>0, <1>2, <1>3, LotsWriterKept

-----------------------------------------------------------------------------
(* settle                                                                   *)

LEMMA EvmSettleReadKept ==
  ASSUME CatalogueInv, NEW c \in Callers, EvmSettleRead(c)
  PROVE  CatalogueInv'
  <1>0. UNCHANGED <<evmChain, cardVars>> BY DEF EvmSettleRead
  <1>t. PICK t \in Nfts : \E p \in ReadAsset(t) :
          /\ Answered(p)
          /\ Begins(c, [Waiting EXCEPT !.do = "settle", !.token = t, !.owner = p])
    BY DEF EvmSettleRead
  <1>1. PICK p \in ReadAsset(t) :
          /\ Answered(p)
          /\ Begins(c, [Waiting EXCEPT !.do = "settle", !.token = t, !.owner = p])
    BY <1>t
  <1>2. <<t, p>> \in held BY <1>1, OwnerRead
  <1>3. TaskWrites(c) /\ ReadTruly(c)' BY <1>0, <1>1, <1>2, OwnerHeld
  <1> QED BY <1>0, <1>3, ReaderKept

LEMMA EvmSettleWriteKept ==
  ASSUME CatalogueInv, NEW c \in Callers, EvmSettleWrite(c)
  PROVE  CatalogueInv'
  <1>0. UNCHANGED <<evmChain, asked>> /\ CatalogueTypeOK /\ RowsAsked
    BY InvRows DEF EvmSettleWrite, evmChain, CatalogueInv
  <1>1. <<task[c].token, task[c].owner>> \in held
    BY DEF CatalogueInv, TaskInv, ReadTruly, EvmSettleWrite
  <1>2. task[c].token \in Nfts /\ task[c].owner \in People BY <1>0, <1>1, HistoryTyped
  <1>3. TaskWrites(c) /\ ReadTruly(c)' BY TaskReturned DEF EvmSettleWrite
  <1>4. CASE UNCHANGED cardVars
    <2>1. UNCHANGED <<card, sold, lots>> BY <1>4 DEF cardVars
    <2>2. lots' \in Seq(Lots) /\ LotsGrow /\ RowsAsked' BY <1>0, <2>1, LotsSame
    <2> QED BY <1>0, <1>3, <2>1, <2>2, LotsWriterKept
  <1>5. CASE ~UNCHANGED cardVars
    <2> DEFINE shelf == {m \in DOMAIN lots : lots[m].token = task[c].token /\ OnShelf(m)}
               n == NewestOf(shelf)
    <2>1. /\ card' = [card EXCEPT ![task[c].token].owner = task[c].owner]
          /\ Sells(n, task[c].token, task[c].owner)
      BY <1>5 DEF EvmSettleWrite
    <2>2. n \in Nat /\ (n # 0 => n \in shelf)
      <3>1. shelf \in SUBSET DOMAIN lots OBVIOUS
      <3> HIDE DEF shelf
      <3> QED BY <1>0, <3>1, NewestRow
    <2> HIDE DEF n
    <2>3. n # 0 => n \in DOMAIN lots /\ lots[n].token = task[c].token BY <2>2
    <2>4. card' \in [Nfts -> Cards] /\ \A t \in Nfts : card'[t].indexed => <<t, card'[t].owner>> \in held
      <3> DEFINE row == [card[task[c].token] EXCEPT !.owner = task[c].owner]
      <3>1. card[task[c].token] \in Cards BY <1>0, <1>2 DEF CatalogueTypeOK
      <3>2. row \in Cards /\ row.owner = task[c].owner BY <1>2, <3>1 DEF Cards
      <3>3. card' = [card EXCEPT ![task[c].token] = row] BY <2>1
      <3> HIDE DEF row
      <3> QED BY <1>0, <1>1, <3>2, <3>3 DEF CatalogueTypeOK, CatalogueInv, RowsFollowChain
    <2>5. CASE n = 0
      <3>1. UNCHANGED <<lots, sold>> BY <2>1, <2>5 DEF Sells
      <3>2. lots' \in Seq(Lots) /\ LotsGrow /\ RowsAsked' BY <1>0, <3>1, LotsSame
      <3>3. sold' = sold /\ sold' \subseteq Sales BY <1>0, <3>1 DEF CatalogueTypeOK
      <3> QED BY <1>0, <1>3, <2>4, <3>2, <3>3, HandlerKept
    <2>6. CASE n # 0
      <3> DEFINE x == [row |-> n, token |-> task[c].token, buyer |-> task[c].owner, price |-> lots[n].price]
      <3>1. lots' = [lots EXCEPT ![n].status = "SOLD"] /\ sold' = sold \cup {x}
        BY <2>1, <2>6 DEF Sells
      <3>2. /\ lots' \in Seq(Lots) /\ LotsGrow /\ RowsAsked' /\ DOMAIN lots' = DOMAIN lots
        BY <1>0, <2>3, <2>6, <3>1, LotClosed
      <3>3. <<lots[n].token, lots[n].seller, lots[n].price>> \in asked
        BY <2>3, <2>6 DEF CatalogueInv, RowsFollowChain
      <3>4. lots[n].price \in Wei BY <1>0, <3>3, HistoryTyped
      <3>5. /\ x \in Sales /\ x.row = n /\ x.token = task[c].token /\ x.buyer = task[c].owner
            /\ x.price = lots[n].price
        BY <1>2, <2>2, <3>4 DEF Sales
      <3> HIDE DEF x
      <3>6. lots'[n].seller = lots[n].seller BY <2>3, <2>6, <3>2 DEF LotsGrow
      <3>7. sold' \subseteq Sales /\ sold' \ sold \subseteq {x}
        BY <1>0, <3>1, <3>5 DEF CatalogueTypeOK
      <3>8. /\ x.row \in DOMAIN lots' /\ <<x.token, x.buyer>> \in held
            /\ <<x.token, lots'[x.row].seller, x.price>> \in asked
        BY <1>1, <2>3, <2>6, <3>2, <3>3, <3>5, <3>6
      <3>9. \A s \in sold' \ sold : s = x BY <3>7
      <3>10. \A s \in sold' \ sold : /\ s.row \in DOMAIN lots' /\ <<s.token, s.buyer>> \in held
                                    /\ <<s.token, lots'[s.row].seller, s.price>> \in asked
        BY <3>8, <3>9
      <3> QED BY <1>0, <1>3, <2>4, <3>2, <3>7, <3>10, HandlerKept
    <2> QED BY <2>5, <2>6
  <1> QED BY <1>4, <1>5

-----------------------------------------------------------------------------
(* The contracts move.                                                      *)

HoldersKnown == \A t \in Nfts : holder[t] # Nobody => <<t, holder[t]>> \in held

\* Each offer's terms were asked, and whoever asked has an offer.
OffersKnown ==
    /\ \A l \in DOMAIN offers : Terms(offers[l]) \in asked
    /\ \A x \in asked : \E l \in DOMAIN offers :
          offers[l].token = x[1] /\ offers[l].seller = x[2]

LEMMA ChainKept ==
  ASSUME CatalogueInv, UNCHANGED <<cardVars, task>>,
         holder' \in [Nfts -> People \cup {Nobody}], offers' \in Seq(Offers),
         held' \subseteq Nfts \X People, asked' \subseteq Nfts \X People \X Wei,
         HistoryGrows, HoldersKnown', OffersKnown'
  PROVE  CatalogueInv'
  <1>1. UNCHANGED <<card, lots, sold, task>> BY DEF cardVars
  <1>2. CatalogueTypeOK' BY <1>1 DEF CatalogueInv, CatalogueTypeOK
  <1>3. HistoryInv' BY DEF HoldersKnown, OffersKnown, HistoryInv
  <1>4. LotsGrow BY <1>1 DEF LotsGrow
  <1>5. TaskInv' BY <1>1, <1>4, StillTrue DEF TaskInv
  <1>6. SoldInv' BY <1>1 DEF CatalogueInv, SoldInv
  <1>7. RowsFollowChain' BY <1>1 DEF CatalogueInv, RowsFollowChain, HistoryGrows
  <1> QED BY <1>2, <1>3, <1>5, <1>6, <1>7 DEF CatalogueInv

LEMMA GivesKept ==
  ASSUME CatalogueInv, NEW t \in Nfts, NEW p \in People, Gives(t, p)
  PROVE  /\ holder' \in [Nfts -> People \cup {Nobody}] /\ held' \subseteq Nfts \X People
         /\ held \subseteq held' /\ HoldersKnown'
  <1>0. holder \in [Nfts -> People \cup {Nobody}] /\ held \subseteq Nfts \X People /\ HoldersKnown
    BY DEF CatalogueInv, CatalogueTypeOK, HistoryInv, HoldersKnown
  <1>1. \A u \in Nfts : holder'[u] = IF u = t THEN p ELSE holder[u] BY <1>0 DEF Gives
  <1>2. HoldersKnown' BY <1>0, <1>1 DEF HoldersKnown, Gives
  <1> QED BY <1>0, <1>2 DEF Gives

LEMMA OfferRewritten ==
  ASSUME CatalogueInv, NEW l \in DOMAIN offers, NEW row \in Offers,
         row.token = offers[l].token, row.seller = offers[l].seller,
         offers' = [offers EXCEPT ![l] = row], asked' = asked \cup {Terms(row)}
  PROVE  offers' \in Seq(Offers) /\ asked' \subseteq Nfts \X People \X Wei /\ OffersKnown'
  <1>0. CatalogueTypeOK /\ OffersKnown BY DEF CatalogueInv, HistoryInv, OffersKnown
  <1>1. offers \in Seq(Offers) /\ l \in 1..Len(offers) BY <1>0, OfferRow DEF CatalogueTypeOK
  <1>2. offers' \in Seq(Offers) BY <1>1, ExceptSeq
  <1>3. Terms(row) \in Nfts \X People \X Wei BY DEF Terms, Offers
  <1>4. \A k \in DOMAIN offers : k \in DOMAIN offers' /\ offers'[k] = IF k = l THEN row ELSE offers[k]
    OBVIOUS
  <1>5. DOMAIN offers' = DOMAIN offers OBVIOUS
  <1>6. \A k \in DOMAIN offers' : Terms(offers'[k]) \in asked'
    <2> SUFFICES ASSUME NEW k \in DOMAIN offers PROVE Terms(offers'[k]) \in asked' BY <1>5
    <2>1. Terms(offers[k]) \in asked BY <1>0 DEF OffersKnown
    <2>2. offers'[k] = row \/ offers'[k] = offers[k] BY <1>4
    <2> QED BY <2>1, <2>2
  <1>7. \A k \in DOMAIN offers : offers'[k].token = offers[k].token /\ offers'[k].seller = offers[k].seller
    BY <1>4
  <1>8. \A x \in asked' : \E k \in DOMAIN offers' : offers'[k].token = x[1] /\ offers'[k].seller = x[2]
    <2>1. \A x \in asked : \E k \in DOMAIN offers' : offers'[k].token = x[1] /\ offers'[k].seller = x[2]
      BY <1>0, <1>5, <1>7 DEF OffersKnown
    <2>2. Terms(row)[1] = offers'[l].token /\ Terms(row)[2] = offers'[l].seller BY <1>7 DEF Terms
    <2> QED BY <1>5, <2>1, <2>2
  <1>9. OffersKnown' BY <1>6, <1>8 DEF OffersKnown, Terms
  <1> QED BY <1>0, <1>2, <1>3, <1>9 DEF CatalogueTypeOK

LEMMA OfferTaken ==
  ASSUME CatalogueInv, NEW l \in DOMAIN offers, offers' = [offers EXCEPT ![l].active = FALSE],
         UNCHANGED asked
  PROVE  offers' \in Seq(Offers) /\ asked' \subseteq Nfts \X People \X Wei /\ OffersKnown'
  <1> DEFINE row == [offers[l] EXCEPT !.active = FALSE]
  <1>0. CatalogueTypeOK BY DEF CatalogueInv
  <1>1. offers[l] \in Offers /\ Terms(offers[l]) \in asked
    BY <1>0, OfferRow DEF CatalogueInv, HistoryInv
  <1>2. /\ row \in Offers /\ row.token = offers[l].token /\ row.seller = offers[l].seller
        /\ row.price = offers[l].price
    BY <1>1 DEF Offers
  <1>3. offers' = [offers EXCEPT ![l] = row] OBVIOUS
  <1> HIDE DEF row
  <1>4. asked' = asked \cup {Terms(row)} BY <1>1, <1>2 DEF Terms
  <1> QED BY <1>2, <1>3, <1>4, OfferRewritten

LEMMA EvmMovesKept ==
  ASSUME CatalogueInv, EvmMoves
  PROVE  CatalogueInv'
  <1>0. UNCHANGED <<cardVars, task>> BY DEF EvmMoves
  <1>t. /\ holder \in [Nfts -> People \cup {Nobody}] /\ offers \in Seq(Offers)
        /\ held \subseteq Nfts \X People /\ asked \subseteq Nfts \X People \X Wei
        /\ CatalogueTypeOK /\ HoldersKnown /\ OffersKnown
    BY DEF CatalogueInv, CatalogueTypeOK, HistoryInv, HoldersKnown, OffersKnown
  <1>1. ASSUME NEW t \in Nfts, NEW p \in People, EvmMint(t, p) \/ EvmTransfer(t, p)
        PROVE  CatalogueInv'
    <2>1. Gives(t, p) /\ UNCHANGED <<offers, asked>> BY <1>1 DEF EvmMint, EvmTransfer
    <2>2. OffersKnown' BY <1>t, <2>1 DEF OffersKnown, Terms
    <2>3. HistoryGrows BY <2>1, GivesKept DEF HistoryGrows
    <2> QED BY <1>0, <1>t, <2>1, <2>2, <2>3, GivesKept, ChainKept
  <1>2. ASSUME NEW t \in Nfts, NEW price \in Wei, EvmList(t, price)
        PROVE  CatalogueInv'
    <2> DEFINE row == [token |-> t, seller |-> holder[t], price |-> price, active |-> TRUE]
    <2>1. /\ offers' = Append(offers, row) /\ asked' = asked \cup {<<t, holder[t], price>>}
          /\ UNCHANGED <<holder, held>> /\ holder[t] \in People
      BY <1>2 DEF EvmList, Remembers
    <2>2. row \in Offers /\ row.token = t /\ row.seller = holder[t] /\ row.price = price
      BY <2>1 DEF Offers
    <2> HIDE DEF row
    <2>3. /\ offers' \in Seq(Offers) /\ Len(offers') = Len(offers) + 1
          /\ \A k \in 1..Len(offers) : offers'[k] = offers[k]
          /\ offers'[Len(offers) + 1] = row
      BY <1>t, <2>1, <2>2, AppendProperties
    <2>4. /\ DOMAIN offers = 1..Len(offers) /\ Len(offers) \in Nat
          /\ DOMAIN offers' = 1..(Len(offers) + 1)
      BY <1>t, <2>3, OfferRow, LenProperties
    <2>5. /\ \A k \in DOMAIN offers : k \in DOMAIN offers' /\ offers'[k] = offers[k]
          /\ \A k \in DOMAIN offers' : k \in DOMAIN offers \/ offers'[k] = row
          /\ \E k \in DOMAIN offers' : offers'[k] = row
      BY <2>3, <2>4
    <2>6. Terms(row) = <<t, holder[t], price>> BY <2>2 DEF Terms
    <2>7. \A k \in DOMAIN offers' : Terms(offers'[k]) \in asked'
      <3> SUFFICES ASSUME NEW k \in DOMAIN offers' PROVE Terms(offers'[k]) \in asked' OBVIOUS
      <3>1. CASE k \in DOMAIN offers
        <4>1. Terms(offers[k]) \in asked BY <1>t, <3>1 DEF OffersKnown
        <4> QED BY <2>1, <2>5, <3>1, <4>1
      <3>2. CASE offers'[k] = row BY <2>1, <2>6, <3>2
      <3> QED BY <2>5, <3>1, <3>2
    <2>8. \A x \in asked' : \E k \in DOMAIN offers' : offers'[k].token = x[1] /\ offers'[k].seller = x[2]
      <3>1. \A x \in asked : \E k \in DOMAIN offers' : offers'[k].token = x[1] /\ offers'[k].seller = x[2]
        BY <1>t, <2>5 DEF OffersKnown
      <3> QED BY <2>1, <2>2, <2>5, <3>1
    <2>9. OffersKnown' BY <2>7, <2>8 DEF OffersKnown, Terms
    <2>10. HoldersKnown' BY <1>t, <2>1 DEF HoldersKnown
    <2>11. HistoryGrows BY <2>1 DEF HistoryGrows
    <2>12. asked' \subseteq Nfts \X People \X Wei BY <1>t, <2>1
    <2> QED BY <1>0, <1>t, <2>1, <2>3, <2>9, <2>10, <2>11, <2>12, ChainKept
  <1>3. ASSUME NEW l \in DOMAIN offers, NEW price \in Wei, EvmReprice(l, price)
        PROVE  CatalogueInv'
    <2> DEFINE row == [offers[l] EXCEPT !.price = price]
    <2>1. offers[l] \in Offers BY <1>t, OfferRow
    <2>2. /\ row \in Offers /\ row.token = offers[l].token /\ row.seller = offers[l].seller
          /\ row.price = price
      BY <2>1 DEF Offers
    <2>3. offers' = [offers EXCEPT ![l] = row] BY <1>3 DEF EvmReprice
    <2> HIDE DEF row
    <2>4. asked' = asked \cup {Terms(row)} /\ UNCHANGED <<holder, held>>
      BY <1>3, <2>2 DEF EvmReprice, Remembers, Terms
    <2>5. HoldersKnown' BY <1>t, <2>4 DEF HoldersKnown
    <2>6. HistoryGrows BY <2>3, <2>4 DEF HistoryGrows
    <2>7. offers' \in Seq(Offers) /\ asked' \subseteq Nfts \X People \X Wei /\ OffersKnown'
      BY <2>2, <2>3, <2>4, OfferRewritten
    <2> QED BY <1>0, <1>t, <2>4, <2>5, <2>6, <2>7, ChainKept
  <1>4. ASSUME NEW l \in DOMAIN offers, EvmCancel(l)
        PROVE  CatalogueInv'
    <2>1. UNCHANGED <<holder, held, asked>> /\ offers' = [offers EXCEPT ![l].active = FALSE]
      BY <1>4 DEF EvmCancel
    <2>2. HoldersKnown' BY <1>t, <2>1 DEF HoldersKnown
    <2>3. HistoryGrows BY <2>1 DEF HistoryGrows
    <2> QED BY <1>0, <1>t, <2>1, <2>2, <2>3, OfferTaken, ChainKept
  <1>5. ASSUME NEW l \in DOMAIN offers, NEW p \in People, EvmBuy(l, p)
        PROVE  CatalogueInv'
    <2>1. /\ UNCHANGED asked /\ offers' = [offers EXCEPT ![l].active = FALSE]
          /\ Gives(offers[l].token, p)
      BY <1>5 DEF EvmBuy
    <2>2. offers[l].token \in Nfts BY <1>t, OfferRow
    <2>3. HistoryGrows BY <2>1, <2>2, GivesKept DEF HistoryGrows
    <2> QED BY <1>0, <2>1, <2>2, <2>3, GivesKept, OfferTaken, ChainKept
  <1> QED BY <1>1, <1>2, <1>3, <1>4, <1>5 DEF EvmMoves

-----------------------------------------------------------------------------
(* Moderation                                                               *)

LEMMA ModerationKept ==
  ASSUME CatalogueInv, NEW t \in Nfts, NEW hidden \in BOOLEAN,
         card[t].indexed, card' = [card EXCEPT ![t].hidden = hidden],
         UNCHANGED <<evmChain, lots, sold, task>>
  PROVE  CatalogueInv'
  <1>0. UNCHANGED <<holder, offers, held, asked>> BY DEF evmChain
  <1> DEFINE row == [card[t] EXCEPT !.hidden = hidden]
  <1>1. card[t] \in Cards BY DEF CatalogueInv, CatalogueTypeOK
  <1>2. row \in Cards /\ row.owner = card[t].owner BY <1>1 DEF Cards
  <1>3. card' = [card EXCEPT ![t] = row] OBVIOUS
  <1> HIDE DEF row
  <1>4. /\ card' \in [Nfts -> Cards]
        /\ \A u \in Nfts : card'[u].indexed => <<u, card'[u].owner>> \in held
    BY <1>2, <1>3 DEF CatalogueInv, CatalogueTypeOK, RowsFollowChain
  <1>5. CatalogueTypeOK' BY <1>0, <1>4 DEF CatalogueInv, CatalogueTypeOK
  <1>6. HistoryInv' BY <1>0 DEF CatalogueInv, HistoryInv, Terms
  <1>7. LotsGrow /\ HistoryGrows BY <1>0 DEF LotsGrow, HistoryGrows
  <1>8. TaskInv' BY <1>7, StillTrue DEF TaskInv
  <1>9. SoldInv' /\ RowsFollowChain' BY <1>0, <1>4 DEF CatalogueInv, SoldInv, RowsFollowChain
  <1> QED BY <1>5, <1>6, <1>8, <1>9 DEF CatalogueInv

LEMMA ModeratesKept ==
  ASSUME CatalogueInv, NEW t \in Nfts, NEW b \in BOOLEAN, SetHidden(t, b) \/ Resolve(t, b)
  PROVE  CatalogueInv'
  <1>1. CASE SetHidden(t, b) BY <1>1, ModerationKept DEF SetHidden
  <1>2. CASE Resolve(t, b)
    <2>1. card[t].hidden \in BOOLEAN
      <3>1. card[t] \in Cards BY DEF CatalogueInv, CatalogueTypeOK
      <3> QED BY <3>1 DEF Cards
    <2> DEFINE hidden == ~b /\ card[t].hidden
    <2>2. hidden \in BOOLEAN OBVIOUS
    <2>3. card' = [card EXCEPT ![t].hidden = hidden] BY <1>2 DEF Resolve
    <2>4. card[t].indexed /\ UNCHANGED <<evmChain, lots, sold, task>> BY <1>2 DEF Resolve
    <2> HIDE DEF hidden
    <2> QED BY <2>2, <2>3, <2>4, ModerationKept
  <1> QED BY <1>1, <1>2

-----------------------------------------------------------------------------
(* The listing sync                                                         *)

LEMMA SyncBeginKept ==
  ASSUME CatalogueInv, NEW c \in Callers, SyncBegin(c)
  PROVE  CatalogueInv' /\ TaskWrites(c) /\ task'[c].do = "sync" /\ task'[c].seen = <<>>
  <1>0. UNCHANGED <<evmChain, cardVars>> /\ CatalogueTypeOK BY DEF SyncBegin, CatalogueInv
  <1>1. PICK total \in {Len(offers), 0} : Begins(c, [Waiting EXCEPT !.do = "sync", !.row = total])
    BY DEF SyncBegin
  <1> DEFINE j == [Waiting EXCEPT !.do = "sync", !.row = total]
  <1>2. DOMAIN offers = 1..Len(offers) /\ Len(offers) \in Nat BY <1>0, OfferRow
  <1>3. total \in Nat /\ 1..total \subseteq DOMAIN offers BY <1>1, <1>2
  <1>4. "sync" \in Doings BY DEF Doings
  <1>5. j \in Tasks /\ j.do = "sync" /\ j.seen = <<>> /\ j.row = total
    BY <1>3, <1>4, WaitingTyped DEF Tasks
  <1>6. task' = [task EXCEPT ![c] = j] BY <1>1 DEF Begins
  <1> HIDE DEF j
  <1>7. TaskWrites(c) /\ task'[c] = j BY <1>0, <1>5, <1>6, TaskSet
  <1>8. offers' = offers BY <1>0 DEF evmChain
  <1>9. ReadTruly(c)' BY <1>3, <1>5, <1>7, <1>8 DEF ReadTruly
  <1> QED BY <1>0, <1>5, <1>7, <1>9, ReaderKept

\* One more listing is kept, or passed over.
LEMMA SyncReadsKept ==
  ASSUME CatalogueInv, NEW c \in Callers, SyncReads(c)
  PROVE  /\ CatalogueInv' /\ TaskWrites(c) /\ task'[c].do = "sync" /\ task[c].row \in DOMAIN offers
         /\ \/ task'[c].seen = task[c].seen /\ UNCHANGED mirror
            \/ /\ task'[c].seen = Append(task[c].seen, Listed(task[c].row))
               /\ mirror' = IF mirror.is = "runs" THEN [is |-> "runs", of |-> mirror.of \cup {task[c].row}]
                            ELSE Disturbed
  <1> DEFINE n == task[c].row
             seen == task[c].seen
             next == IF Len(seen) + 1 = Window THEN 0 ELSE n - 1
             more == Append(seen, Listed(n))
  <1>0. /\ UNCHANGED <<evmChain, cardVars>> /\ CatalogueTypeOK
        /\ task[c].do = "sync" /\ n # 0 /\ ReadTruly(c)
    BY DEF SyncReads, CatalogueInv, TaskInv
  <1>1. /\ n \in Nat \ {0} /\ seen \in Seq(Listings) /\ DOMAIN seen = 1..Len(seen) /\ Len(seen) \in Nat
        /\ 1..n \subseteq DOMAIN offers
    BY <1>0, TaskTyped DEF ReadTruly
  <1>2. n \in DOMAIN offers BY <1>1
  <1>3. /\ n - 1 \in Nat /\ 1..(n - 1) \subseteq DOMAIN offers
        /\ next \in Nat /\ 1..next \subseteq DOMAIN offers
    BY <1>1
  <1>4. \A k \in DOMAIN seen : Terms(seen[k]) \in asked BY <1>0 DEF ReadTruly
  <1>5. UNCHANGED <<asked, offers>> BY <1>0 DEF evmChain
  <1>6. \/ task' = [task EXCEPT ![c].seen = more, ![c].row = next]
        \/ task' = [task EXCEPT ![c].row = n - 1]
    BY DEF SyncReads
  <1>7. CASE task' = [task EXCEPT ![c].seen = more, ![c].row = next]
    <2> DEFINE j == [task[c] EXCEPT !.seen = more, !.row = next]
    <2>1. Listed(n) \in Listings /\ Terms(Listed(n)) \in asked
      BY <1>0, <1>2, ListedTyped DEF CatalogueInv, HistoryInv
    <2>2. /\ more \in Seq(Listings) /\ Len(more) = Len(seen) + 1
          /\ \A k \in 1..Len(seen) : more[k] = seen[k]
          /\ more[Len(seen) + 1] = Listed(n)
      BY <1>1, <2>1, AppendProperties
    <2> HIDE DEF more, next
    <2>3. DOMAIN more = 1..(Len(seen) + 1) BY <2>2, LenProperties
    <2>4. \A k \in DOMAIN more : Terms(more[k]) \in asked
      <3> SUFFICES ASSUME NEW k \in DOMAIN more PROVE Terms(more[k]) \in asked OBVIOUS
      <3>1. k \in DOMAIN seen \/ k = Len(seen) + 1 BY <1>1, <2>3
      <3> QED BY <1>1, <1>4, <2>1, <2>2, <3>1
    <2>5. j \in Tasks /\ j.do = "sync" /\ j.seen = more /\ j.row = next
      BY <1>0, <1>3, <2>2, TaskTyped DEF Tasks
    <2>6. task' = [task EXCEPT ![c] = j] BY <1>0, <1>7 DEF CatalogueTypeOK
    <2> HIDE DEF j
    <2>7. TaskWrites(c) /\ task'[c] = j BY <1>0, <2>5, <2>6, TaskSet
    <2>8. ReadTruly(c)' BY <1>3, <1>5, <2>4, <2>5, <2>7 DEF ReadTruly, Terms
    <2>9. CatalogueInv' BY <1>0, <2>7, <2>8, ReaderKept
    <2>10. more # seen BY <1>1, <2>2
    <2>11. task' # [task EXCEPT ![c].row = n - 1]
      <3>1. [task EXCEPT ![c].row = n - 1][c].seen = seen BY <1>0, TaskTyped DEF CatalogueTypeOK, Tasks
      <3> QED BY <2>5, <2>7, <2>10, <3>1
    <2>12. mirror' = IF mirror.is = "runs" THEN [is |-> "runs", of |-> mirror.of \cup {n}] ELSE Disturbed
      BY <2>11 DEF SyncReads
    <2> QED BY <1>2, <2>5, <2>7, <2>9, <2>12 DEF more
  <1>8. CASE task' = [task EXCEPT ![c].row = n - 1]
    <2> DEFINE j == [task[c] EXCEPT !.row = n - 1]
    <2>1. j \in Tasks /\ j.do = "sync" /\ j.seen = seen /\ j.row = n - 1
      BY <1>0, <1>3, TaskTyped DEF Tasks
    <2>2. task' = [task EXCEPT ![c] = j] BY <1>0, <1>8 DEF CatalogueTypeOK
    <2> HIDE DEF j
    <2>3. TaskWrites(c) /\ task'[c] = j BY <1>0, <2>1, <2>2, TaskSet
    <2>4. ReadTruly(c)' BY <1>3, <1>4, <1>5, <2>1, <2>3 DEF ReadTruly, Terms
    <2>5. CatalogueInv' BY <1>0, <2>3, <2>4, ReaderKept
    <2>6. task' # [task EXCEPT ![c].seen = more, ![c].row = next]
      <3>1. Listed(n) \in Listings BY <1>0, <1>2, ListedTyped
      <3>2. Len(more) = Len(seen) + 1 BY <1>1, <3>1, AppendProperties
      <3>3. [task EXCEPT ![c].seen = more, ![c].row = next][c].seen = more
        BY <1>0, TaskTyped DEF CatalogueTypeOK, Tasks
      <3>4. more # seen BY <1>1, <3>2
      <3> QED BY <2>1, <2>3, <3>3, <3>4
    <2>7. UNCHANGED mirror BY <2>6 DEF SyncReads
    <2> QED BY <1>2, <2>1, <2>3, <2>5, <2>7
  <1> QED BY <1>6, <1>7, <1>8

LEMMA SyncSeekKept ==
  ASSUME CatalogueInv, NEW c \in Callers, SyncSeek(c)
  PROVE  /\ CatalogueInv' /\ TaskWrites(c)
         /\ task'[c].do = "syncing" /\ task'[c].seen = task[c].seen
         /\ task'[c].row = NewestOf(RowsOf(Head(task[c].seen).token, Head(task[c].seen).seller))
         /\ task'[c].ok = (task'[c].row # 0 /\ OnShelf(task'[c].row))
  <1>0. UNCHANGED <<evmChain, cardVars>> /\ CatalogueTypeOK BY DEF SyncSeek, CatalogueInv
  <1> DEFINE S == RowsOf(Head(task[c].seen).token, Head(task[c].seen).seller)
             n == NewestOf(S)
             found == n # 0 /\ OnShelf(n)
             j == [task[c] EXCEPT !.do = "syncing", !.row = n, !.ok = found]
  <1>1. task' = [task EXCEPT ![c].do = "syncing", ![c].row = n, ![c].ok = found] BY DEF SyncSeek
  <1>2. n \in Nat /\ (n # 0 => n \in S)
    <2>1. S \in SUBSET DOMAIN lots BY DEF RowsOf
    <2> HIDE DEF S
    <2> QED BY <1>0, <2>1, NewestRow
  <1>3. found \in BOOLEAN /\ (found => n # 0) OBVIOUS
  <1>f. found = (n # 0 /\ OnShelf(n)) OBVIOUS
  <1>n. n = NewestOf(S) OBVIOUS
  <1> HIDE DEF found, n
  <1>4. "syncing" \in Doings BY DEF Doings
  <1>5. j \in Tasks BY <1>0, <1>2, <1>3, <1>4, TaskTyped DEF Tasks
  <1>6. /\ j.do = "syncing" /\ j.seen = task[c].seen /\ j.row = n /\ j.ok = found
    BY <1>0, TaskTyped DEF Tasks
  <1>7. task' = [task EXCEPT ![c] = j] BY <1>0, <1>1 DEF CatalogueTypeOK
  <1> HIDE DEF j
  <1>8. TaskWrites(c) /\ task'[c] = j BY <1>0, <1>5, <1>7, TaskSet
  <1>9. ReadTruly(c) /\ task[c].seen # <<>> BY DEF CatalogueInv, TaskInv, SyncSeek, Compares
  <1>10. UNCHANGED <<held, asked, lots>> BY <1>0 DEF evmChain, cardVars
  <1>11. ReadTruly(c)' BY <1>2, <1>3, <1>6, <1>8, <1>9, <1>10 DEF ReadTruly, RowsOf, Terms
  <1>12. CatalogueInv' BY <1>0, <1>8, <1>11, ReaderKept
  <1> QED BY <1>6, <1>8, <1>12, <1>f, <1>n

\* The rest of what was seen, once the first of it is dealt with.
LEMMA SeenTail ==
  ASSUME CatalogueInv, NEW c \in Callers, task[c].seen # <<>>
  PROVE  /\ Tail(task[c].seen) \in Seq(Listings) /\ Head(task[c].seen) = task[c].seen[1]
         /\ Len(task[c].seen) \in Nat \ {0} /\ Len(Tail(task[c].seen)) = Len(task[c].seen) - 1
         /\ \A k \in 1..Len(Tail(task[c].seen)) : Tail(task[c].seen)[k] = task[c].seen[k + 1]
         /\ \A k \in DOMAIN Tail(task[c].seen) : Terms(Tail(task[c].seen)[k]) \in asked
         /\ Head(task[c].seen) \in Listings /\ Terms(Head(task[c].seen)) \in asked
  <1>1. /\ task[c].seen \in Seq(Listings) /\ DOMAIN task[c].seen = 1..Len(task[c].seen)
        /\ Len(task[c].seen) \in Nat
    BY TaskTyped DEF CatalogueInv
  <1>2. Len(task[c].seen) # 0 BY <1>1, EmptySeq
  <1>3. /\ Tail(task[c].seen) \in Seq(Listings) /\ Head(task[c].seen) \in Listings
        /\ Len(Tail(task[c].seen)) = Len(task[c].seen) - 1
        /\ \A k \in 1..Len(Tail(task[c].seen)) : Tail(task[c].seen)[k] = task[c].seen[k + 1]
    BY <1>1, HeadTailProperties
  <1>4. DOMAIN Tail(task[c].seen) = 1..Len(Tail(task[c].seen)) BY <1>3, LenProperties
  <1>5. \A k \in DOMAIN task[c].seen : Terms(task[c].seen[k]) \in asked
    BY DEF CatalogueInv, TaskInv, ReadTruly
  <1>6. \A k \in DOMAIN Tail(task[c].seen) : k + 1 \in DOMAIN task[c].seen
    BY <1>1, <1>2, <1>3, <1>4
  <1>7. Head(task[c].seen) = task[c].seen[1] /\ 1 \in DOMAIN task[c].seen
    BY <1>1, <1>2
  <1> QED BY <1>1, <1>2, <1>3, <1>4, <1>5, <1>6, <1>7

LEMMA SyncSkipKept ==
  ASSUME CatalogueInv, NEW c \in Callers, SyncSkip(c)
  PROVE  CatalogueInv' /\ TaskWrites(c) /\ task'[c].do = "sync" /\ task'[c].seen = Tail(task[c].seen)
  <1>0. /\ UNCHANGED <<evmChain, cardVars>> /\ CatalogueTypeOK
        /\ task[c].do = "sync" /\ task[c].row = 0 /\ task[c].seen # <<>>
    BY DEF SyncSkip, Compares, CatalogueInv
  <1> DEFINE tail == Tail(task[c].seen)
             j == [task[c] EXCEPT !.seen = tail]
  <1>1. tail \in Seq(Listings) /\ \A k \in DOMAIN tail : Terms(tail[k]) \in asked BY <1>0, SeenTail
  <1>2. task' = [task EXCEPT ![c].seen = tail] BY DEF SyncSkip
  <1> HIDE DEF tail
  <1>3. j \in Tasks /\ j.do = "sync" /\ j.seen = tail /\ j.row = 0 BY <1>0, <1>1, TaskTyped DEF Tasks
  <1>4. task' = [task EXCEPT ![c] = j] BY <1>0, <1>2 DEF CatalogueTypeOK
  <1> HIDE DEF j
  <1>5. TaskWrites(c) /\ task'[c] = j BY <1>0, <1>3, <1>4, TaskSet
  <1>6. asked' = asked BY <1>0 DEF evmChain
  <1>e. 1..0 = {} OBVIOUS
  <1>7. ReadTruly(c)' BY <1>1, <1>3, <1>5, <1>6, <1>e DEF ReadTruly, Terms
  <1> QED BY <1>0, <1>3, <1>5, <1>7, ReaderKept DEF tail

\* What one step of the sync does to the rows of the offer it looks at.
LEMMA SyncStepRows ==
  ASSUME CatalogueInv, NEW c \in Callers, SyncSaves(c)
  PROVE  lots' \in Seq(Lots) /\ LotsGrow /\ RowsAsked'
  <1>0. CatalogueTypeOK /\ RowsAsked /\ UNCHANGED asked /\ ReadTruly(c) /\ task[c].do = "syncing"
    BY InvRows DEF CatalogueInv, TaskInv, SyncSaves, evmChain
  <1> DEFINE l == Head(task[c].seen)
             n == task[c].row
  <1>1. <<l.token, l.seller, l.price>> \in asked BY <1>0, SeenTail DEF ReadTruly, Terms
  <1>2. task[c].ok => n \in DOMAIN lots /\ lots[n].token = l.token /\ lots[n].seller = l.seller
    BY <1>0 DEF ReadTruly, RowsOf
  <1>3. SyncStep(n, task[c].ok, l) BY DEF SyncSaves
  <1> HIDE DEF l, n
  <1>4. CASE UNCHANGED lots BY <1>0, <1>4, LotsSame
  <1>5. CASE Adds(l.token, l.seller, l.price) BY <1>0, <1>1, <1>5, LotAdded
  <1>6. CASE task[c].ok /\ lots' = [lots EXCEPT ![n].price = l.price]
    BY <1>0, <1>1, <1>2, <1>6, LotPriced
  <1>7. CASE task[c].ok /\ lots' = [lots EXCEPT ![n].status = "CANCELLED"]
    BY <1>0, <1>2, <1>7, LotClosed
  <1> QED BY <1>3, <1>4, <1>5, <1>6, <1>7 DEF SyncStep

LEMMA SyncSavesKept ==
  ASSUME CatalogueInv, NEW c \in Callers, SyncSaves(c)
  PROVE  CatalogueInv' /\ TaskWrites(c) /\ task'[c].do = "sync" /\ task'[c].seen = Tail(task[c].seen)
  <1>0. /\ UNCHANGED <<evmChain, card, sold>> /\ CatalogueTypeOK
        /\ task[c].do = "syncing" /\ task[c].seen # <<>>
    BY DEF SyncSaves, CatalogueInv, TaskInv, ReadTruly
  <1> DEFINE tail == Tail(task[c].seen)
             j == [task[c] EXCEPT !.do = "sync", !.seen = tail, !.row = 0, !.ok = FALSE]
  <1>1. tail \in Seq(Listings) /\ \A k \in DOMAIN tail : Terms(tail[k]) \in asked BY <1>0, SeenTail
  <1>2. task' = [task EXCEPT ![c].do = "sync", ![c].seen = tail, ![c].row = 0, ![c].ok = FALSE]
    BY DEF SyncSaves
  <1> HIDE DEF tail
  <1>3. "sync" \in Doings BY DEF Doings
  <1>4. j \in Tasks BY <1>0, <1>1, <1>3, TaskTyped DEF Tasks
  <1>5. j.do = "sync" /\ j.seen = tail /\ j.row = 0 BY <1>0, TaskTyped DEF Tasks
  <1>6. task' = [task EXCEPT ![c] = j] BY <1>0, <1>2 DEF CatalogueTypeOK
  <1> HIDE DEF j
  <1>7. TaskWrites(c) /\ task'[c] = j BY <1>0, <1>4, <1>6, TaskSet
  <1>8. asked' = asked BY <1>0 DEF evmChain
  <1>e. 1..0 = {} OBVIOUS
  <1>9. ReadTruly(c)' BY <1>1, <1>5, <1>7, <1>8, <1>e DEF ReadTruly, Terms
  <1> QED BY <1>0, <1>5, <1>7, <1>9, SyncStepRows, LotsWriterKept DEF tail

LEMMA SyncEndsKept ==
  ASSUME CatalogueInv, NEW c \in Callers, SyncEnds(c)
  PROVE  CatalogueInv'
  BY TaskReturned, ReaderKept DEF SyncEnds

-----------------------------------------------------------------------------
(* The whole step                                                           *)

LEMMA CatalogueInvInit == ASSUME CatalogueInit PROVE CatalogueInv
  <1>1. Blank \in Cards /\ ~Blank.indexed BY DEF Blank, Cards
  <1>2. offers \in Seq(Offers) /\ lots \in Seq(Lots) /\ DOMAIN offers = {} /\ DOMAIN lots = {}
    BY EmptySeq DEF CatalogueInit
  <1>3. task \in [Callers -> Tasks] BY WaitingTyped DEF CatalogueInit
  <1>4. CatalogueTypeOK BY <1>1, <1>2, <1>3 DEF CatalogueTypeOK, CatalogueInit
  <1>5. DOMAIN Waiting.seen = {} BY WaitingTyped
  <1>6. TaskInv BY <1>5, WaitingTyped DEF TaskInv, ReadTruly, CatalogueInit
  <1>7. HistoryInv BY <1>2 DEF HistoryInv, CatalogueInit
  <1>8. SoldInv /\ RowsFollowChain BY <1>1, <1>2 DEF SoldInv, RowsFollowChain, CatalogueInit
  <1> QED BY <1>4, <1>6, <1>7, <1>8 DEF CatalogueInv

LEMMA CatalogueInvStep ==
  ASSUME CatalogueInv, [CatalogueNext]_catalogueVars
  PROVE  CatalogueInv'
  <1>c. Reporters \subseteq Callers /\ Operators \subseteq Callers BY DEF Callers
  <1>1. CASE EvmMoves BY <1>1, EvmMovesKept
  <1>2. CASE \E t \in Nfts, b \in BOOLEAN : SetHidden(t, b) \/ Resolve(t, b)
    BY <1>2, ModeratesKept
  <1>3. ASSUME NEW c \in Reporters,
               \/ TokenRead(c) \/ TokenWrite(c)
               \/ ListingRead(c) \/ ListingFind(c) \/ ListingWrite(c)
               \/ EvmSettleRead(c) \/ EvmSettleWrite(c)
        PROVE  CatalogueInv'
    BY <1>c, <1>3, TokenReadKept, TokenWriteKept, ListingReadKept, ListingFindKept, ListingWriteKept,
       EvmSettleReadKept, EvmSettleWriteKept
  <1>4. ASSUME NEW c \in Operators,
               SyncBegin(c) \/ SyncReads(c) \/ SyncSeek(c) \/ SyncSkip(c) \/ SyncSaves(c) \/ SyncEnds(c)
        PROVE  CatalogueInv'
    BY <1>c, <1>4, SyncBeginKept, SyncReadsKept, SyncSeekKept, SyncSkipKept, SyncSavesKept, SyncEndsKept
  <1>5. CASE \E c \in Callers : Dies(c) BY <1>5, DiesKept
  <1>6. CASE UNCHANGED catalogueVars
    <2>1. UNCHANGED <<holder, offers, held, asked, card, lots, sold, task>>
      BY <1>6 DEF catalogueVars, evmChain, cardVars
    <2>2. CatalogueTypeOK' /\ HistoryInv' /\ SoldInv' /\ RowsFollowChain'
      BY <2>1 DEF CatalogueInv, CatalogueTypeOK, HistoryInv, SoldInv, RowsFollowChain, Terms
    <2>3. LotsGrow /\ HistoryGrows BY <2>1 DEF LotsGrow, HistoryGrows
    <2>4. TaskInv' BY <2>1, <2>3, StillTrue DEF TaskInv
    <2> QED BY <2>2, <2>4 DEF CatalogueInv
  <1> QED BY <1>1, <1>2, <1>3, <1>4, <1>5, <1>6 DEF CatalogueNext

-----------------------------------------------------------------------------
(* The kill switch                                                          *)

\* Nobody but moderation clears the flag.
LEMMA HiddenStays ==
  ASSUME CatalogueInv, [CatalogueNext]_catalogueVars, NEW t \in Nfts, card[t].hidden,
         ~SetHidden(t, FALSE), ~Resolve(t, TRUE)
  PROVE  card'[t].hidden
  <1>0. card \in [Nfts -> Cards] BY DEF CatalogueInv, CatalogueTypeOK
  <1>1. CASE UNCHANGED card BY <1>1
  <1>2. ASSUME NEW u \in Nfts, NEW b \in BOOLEAN, SetHidden(u, b) PROVE card'[t].hidden
    <2>1. CASE u = t
      <3>1. b = TRUE BY <1>2, <2>1
      <3> QED BY <1>0, <1>2, <2>1, <3>1 DEF SetHidden, Cards
    <2>2. CASE u # t BY <1>0, <1>2, <2>2 DEF SetHidden
    <2> QED BY <2>1, <2>2
  <1>3. ASSUME NEW u \in Nfts, NEW b \in BOOLEAN, Resolve(u, b) PROVE card'[t].hidden
    <2>1. CASE u = t
      <3>1. b = FALSE BY <1>3, <2>1
      <3> QED BY <1>0, <1>3, <2>1, <3>1 DEF Resolve, Cards
    <2>2. CASE u # t BY <1>0, <1>3, <2>2 DEF Resolve
    <2> QED BY <2>1, <2>2
  <1>4. ASSUME NEW c \in Callers, TokenWrite(c) PROVE card'[t].hidden
    BY <1>0, <1>4 DEF TokenWrite
  <1>5. ASSUME NEW c \in Callers, EvmSettleWrite(c) PROVE card'[t].hidden
    <2>1. card' = card \/ card' = [card EXCEPT ![task[c].token].owner = task[c].owner]
      BY <1>5 DEF EvmSettleWrite, cardVars
    <2> QED BY <1>0, <2>1 DEF Cards
  <1>6. \/ UNCHANGED card
        \/ \E u \in Nfts, b \in BOOLEAN : SetHidden(u, b) \/ Resolve(u, b)
        \/ \E c \in Callers : TokenWrite(c) \/ EvmSettleWrite(c)
    <2>1. CASE EvmMoves BY <2>1 DEF EvmMoves, cardVars
    <2>2. ASSUME NEW c \in Callers,
                 \/ TokenRead(c) \/ ListingRead(c) \/ ListingFind(c) \/ ListingWrite(c)
                 \/ EvmSettleRead(c)
          PROVE  UNCHANGED card
      BY <2>2 DEF TokenRead, ListingRead, ListingFind, ListingWrite, EvmSettleRead, cardVars
    <2>3. ASSUME NEW c \in Callers,
                 SyncBegin(c) \/ SyncReads(c) \/ SyncSeek(c) \/ SyncSkip(c) \/ SyncSaves(c) \/ SyncEnds(c) \/ Dies(c)
          PROVE  UNCHANGED card
      BY <2>3 DEF SyncBegin, SyncReads, SyncSeek, SyncSkip, SyncSaves, SyncEnds, Dies, cardVars
    <2>4. CASE UNCHANGED catalogueVars BY <2>4 DEF catalogueVars, cardVars
    <2> QED BY <2>1, <2>2, <2>3, <2>4 DEF CatalogueNext, Callers
  <1> QED BY <1>1, <1>2, <1>3, <1>4, <1>5, <1>6

-----------------------------------------------------------------------------
(* The theorems.                                                            *)

\* Every variable and row holds what its columns can hold, and whatever a handler
\* has read of the chain was true there.
THEOREM CatalogueTyped == CatalogueSpec => [](CatalogueTypeOK /\ TaskInv)
  <1>1. CatalogueInv => CatalogueTypeOK /\ TaskInv BY DEF CatalogueInv
  <1> QED BY <1>1, CatalogueInvInit, CatalogueInvStep, PTL DEF CatalogueSpec

\* No owner, buyer or price reaches a row that the chain has not shown for that
\* token and seller, however the reports, the sync and the chain overlap.
THEOREM RowsAreTrue == CatalogueSpec => []RowsFollowChain
  <1>1. CatalogueInv => RowsFollowChain BY DEF CatalogueInv
  <1> QED BY <1>1, CatalogueInvInit, CatalogueInvStep, PTL DEF CatalogueSpec

\* A hidden token comes back to the grid or the feed only by moderation.
THEOREM HiddenStaysHidden == CatalogueSpec => KillSwitchHolds
  <1>1. CatalogueInv /\ [CatalogueNext]_catalogueVars =>
          [\A t \in Nfts :
            (card[t].hidden /\ (t \in Grid' \/ t \in {lots[n].token : n \in Feed}'))
               => (SetHidden(t, FALSE) \/ Resolve(t, TRUE))]_catalogueVars
    <2> SUFFICES ASSUME CatalogueInv, [CatalogueNext]_catalogueVars, NEW t \in Nfts, card[t].hidden,
                        t \in Grid' \/ t \in {lots[n].token : n \in Feed}',
                        ~SetHidden(t, FALSE), ~Resolve(t, TRUE)
                 PROVE  FALSE
      OBVIOUS
    <2>1. card'[t].hidden BY HiddenStays
    <2> QED BY <2>1 DEF Grid, Feed
  <1>2. CatalogueSpec => []CatalogueInv
    BY CatalogueInvInit, CatalogueInvStep, PTL DEF CatalogueSpec
  <1> QED BY <1>1, <1>2, PTL DEF CatalogueSpec, KillSwitchHolds

-----------------------------------------------------------------------------
(* The sync heals                                                           *)

\* What a sync can be held to after a step of it, it could be before.
LEMMA TellableBefore ==
  ASSUME LotsGrow, UNCHANGED <<offers, card>>, NEW l, Tellable(l)'
  PROVE  Tellable(l)
  BY DEF LotsGrow, Tellable, RowsOf

\* Where no row is doubled, the newest is the only one.
LEMMA OnlyRow ==
  ASSUME CatalogueTypeOK, NEW t, NEW p, \A x, y \in RowsOf(t, p) : x = y
  PROVE  \A x \in RowsOf(t, p) : x = NewestOf(RowsOf(t, p)) /\ x # 0
  <1>1. RowsOf(t, p) \in SUBSET DOMAIN lots BY DEF RowsOf
  <1>2. RowsOf(t, p) # {} => NewestOf(RowsOf(t, p)) \in RowsOf(t, p) BY <1>1, NewestRow
  <1>4. \A x \in RowsOf(t, p) : x # 0 BY <1>1, LotRow
  <1> QED BY <1>2, <1>4

\* Rows of another token or seller are left alone.
LEMMA ShownStill ==
  ASSUME NEW l, Shown(l), UNCHANGED offers, LotsGrow,
         \A x \in DOMAIN lots' :
            \/ x \in DOMAIN lots /\ lots'[x] = lots[x]
            \/ lots'[x].token # offers[l].token \/ lots'[x].seller # offers[l].seller
  PROVE  Shown(l)'
  <1>1. \A x : x \in DOMAIN lots' /\ lots'[x].token = offers[l].token /\ lots'[x].seller = offers[l].seller
               => x \in DOMAIN lots /\ lots'[x] = lots[x]
    OBVIOUS
  <1>2. \A x : x \in DOMAIN lots /\ lots[x].token = offers[l].token /\ lots[x].seller = offers[l].seller
               => x \in DOMAIN lots' /\ lots'[x] = lots[x]
    BY <1>1 DEF LotsGrow
  <1>3. CASE offers[l].active
    <2>1. PICK x \in RowsOf(offers[l].token, offers[l].seller) : OnShelf(x) /\ lots[x].price = offers[l].price
      BY <1>3 DEF Shown
    <2>2. x \in DOMAIN lots' /\ lots'[x] = lots[x] BY <1>2 DEF RowsOf
    <2> QED BY <1>3, <2>1, <2>2 DEF Shown, RowsOf, OnShelf
  <1>4. CASE ~offers[l].active BY <1>1, <1>4 DEF Shown, RowsOf, OnShelf
  <1> QED BY <1>3, <1>4

\* The step itself changes no row but those of the listing it looks at,
LEMMA SaveTouches ==
  ASSUME CatalogueInv, NEW c \in Callers, SyncSaves(c)
  PROVE  \A x \in DOMAIN lots' :
            \/ x \in DOMAIN lots /\ lots'[x] = lots[x]
            \/ lots'[x].token = Head(task[c].seen).token /\ lots'[x].seller = Head(task[c].seen).seller
  <1> DEFINE l == Head(task[c].seen)
             n == task[c].row
  <1>0. CatalogueTypeOK /\ RowsAsked /\ UNCHANGED asked /\ ReadTruly(c) /\ task[c].do = "syncing"
    BY InvRows DEF CatalogueInv, TaskInv, SyncSaves, evmChain
  <1>1. <<l.token, l.seller, l.price>> \in asked BY <1>0, SeenTail DEF ReadTruly, Terms
  <1>2. task[c].ok => n \in DOMAIN lots /\ lots[n].token = l.token /\ lots[n].seller = l.seller
    BY <1>0 DEF ReadTruly, RowsOf
  <1>3. SyncStep(n, task[c].ok, l) BY DEF SyncSaves
  <1>g. LotsGrow BY SyncStepRows
  <1> SUFFICES \A x \in DOMAIN lots' :
                  \/ x \in DOMAIN lots /\ lots'[x] = lots[x]
                  \/ lots'[x].token = l.token /\ lots'[x].seller = l.seller
    OBVIOUS
  <1> HIDE DEF l, n
  <1>4. CASE UNCHANGED lots BY <1>4
  <1>5. CASE Adds(l.token, l.seller, l.price) BY <1>0, <1>1, <1>5, LotAdded
  <1>6. CASE task[c].ok /\ lots' = [lots EXCEPT ![n].price = l.price]
    BY <1>0, <1>1, <1>2, <1>6, <1>g, LotPriced DEF LotsGrow
  <1>7. CASE task[c].ok /\ lots' = [lots EXCEPT ![n].status = "CANCELLED"]
    BY <1>0, <1>2, <1>7, <1>g, LotClosed DEF LotsGrow
  <1> QED BY <1>3, <1>4, <1>5, <1>6, <1>7 DEF SyncStep

\* and leaves its offer shown, when it can be held to that.
LEMMA SavedIsShown ==
  ASSUME CatalogueInv, NEW c \in Callers, SyncSaves(c), NEW l \in DOMAIN offers, Tellable(l),
         Head(task[c].seen) = Listed(l),
         task[c].row = NewestOf(RowsOf(offers[l].token, offers[l].seller)),
         task[c].ok = (task[c].row # 0 /\ OnShelf(task[c].row))
  PROVE  Shown(l)'
  <1> DEFINE n == task[c].row
             t == offers[l].token
             p == offers[l].seller
  <1>0. CatalogueTypeOK /\ RowsAsked /\ UNCHANGED <<asked, offers>>
    BY InvRows DEF CatalogueInv, SyncSaves, evmChain
  <1>1. <<t, p, offers[l].price>> \in asked BY DEF CatalogueInv, HistoryInv, Terms
  <1>2. /\ offers[l].active => IF task[c].ok THEN lots' = [lots EXCEPT ![n].price = offers[l].price]
                               ELSE Adds(t, p, offers[l].price)
        /\ ~offers[l].active => IF task[c].ok THEN lots' = [lots EXCEPT ![n].status = "CANCELLED"]
                                ELSE UNCHANGED lots
    <2>1. SyncStep(n, task[c].ok, Listed(l)) BY DEF SyncSaves
    <2> HIDE DEF n
    <2>2. /\ Listed(l).token = t /\ Listed(l).seller = p
          /\ Listed(l).price = offers[l].price /\ Listed(l).active = offers[l].active
      BY <1>0, ListedTyped
    <2> QED BY <2>1, <2>2 DEF SyncStep
  <1>o. \A x, y \in RowsOf(t, p) : x = y BY DEF Tellable
  <1>3. RowsOf(t, p) \subseteq {n} BY <1>0, <1>o, OnlyRow
  <1>4. n # 0 => n \in RowsOf(t, p)
    <2>1. RowsOf(t, p) \in SUBSET DOMAIN lots BY DEF RowsOf
    <2> QED BY <1>0, <2>1, NewestRow
  <1>5. CASE task[c].ok
    <2>1. n \in DOMAIN lots /\ lots[n].token = t /\ lots[n].seller = p /\ OnShelf(n)
      BY <1>4, <1>5 DEF RowsOf
    <2>2. CASE offers[l].active
      <3>1. lots' = [lots EXCEPT ![n].price = offers[l].price] BY <1>2, <1>5, <2>2
      <3> HIDE DEF n
      <3>2. /\ LotsGrow /\ DOMAIN lots' = DOMAIN lots
            /\ lots'[n].price = offers[l].price /\ lots'[n].status = lots[n].status
            /\ \A m \in DOMAIN lots \ {n} : lots'[m] = lots[m]
        BY <1>0, <1>1, <2>1, <3>1, LotPriced
      <3>3. lots'[n].token = t /\ lots'[n].seller = p BY <2>1, <3>2 DEF LotsGrow
      <3>4. Shown(l)' BY <1>0, <2>1, <2>2, <3>2, <3>3 DEF Shown, RowsOf, OnShelf
      <3> QED BY <3>4
    <2>3. CASE ~offers[l].active
      <3>1. lots' = [lots EXCEPT ![n].status = "CANCELLED"] BY <1>2, <1>5, <2>3
      <3>n. RowsOf(t, p) \subseteq {n} BY <1>3
      <3> HIDE DEF n
      <3>2. /\ LotsGrow /\ DOMAIN lots' = DOMAIN lots /\ lots'[n].status = "CANCELLED"
            /\ \A m \in DOMAIN lots \ {n} : lots'[m] = lots[m]
        BY <1>0, <2>1, <3>1, LotClosed
      <3>3. lots'[n].token = t /\ lots'[n].seller = p BY <2>1, <3>2 DEF LotsGrow
      <3>4. \A x \in DOMAIN lots' : lots'[x].token = t /\ lots'[x].seller = p => x = n
        BY <3>n, <3>2 DEF RowsOf
      <3>5. Shown(l)' BY <1>0, <2>3, <3>2, <3>4 DEF Shown, RowsOf, OnShelf
      <3> QED BY <3>5
    <2> QED BY <2>2, <2>3
  <1>6. CASE ~task[c].ok
    <2>1. CASE offers[l].active
      <3>1. Adds(t, p, offers[l].price) BY <1>2, <1>6, <2>1
      <3>2. /\ \A m \in DOMAIN lots : lots'[m] = lots[m]
            /\ \A m \in DOMAIN lots' \ DOMAIN lots :
                 lots'[m] = [token |-> t, seller |-> p, price |-> offers[l].price, status |-> "ACTIVE"]
            /\ \E m \in DOMAIN lots' \ DOMAIN lots : TRUE
        BY <1>0, <1>1, <3>1, LotAdded
      <3>3. \A m \in DOMAIN lots' \ DOMAIN lots :
              /\ lots'[m].token = t /\ lots'[m].seller = p
              /\ lots'[m].price = offers[l].price /\ lots'[m].status = "ACTIVE"
        BY <3>2
      <3>4. PICK m \in DOMAIN lots' \ DOMAIN lots : TRUE BY <3>2
      <3>5. Shown(l)' BY <1>0, <2>1, <3>3, <3>4 DEF Shown, RowsOf, OnShelf
      <3> QED BY <3>5
    <2>2. CASE ~offers[l].active
      <3>1. UNCHANGED lots BY <1>2, <1>6, <2>2
      <3>2. \A x \in RowsOf(t, p) : ~OnShelf(x)
        BY <1>0, <1>6, <1>o, OnlyRow
      <3>3. Shown(l)' BY <1>0, <2>2, <3>1, <3>2 DEF Shown, RowsOf, OnShelf
      <3> QED BY <3>3
    <2> QED BY <2>1, <2>2
  <1> QED BY <1>5, <1>6

\* The listings a sync has read are those of their ids, and each offer whose
\* call was answered is shown or still among them.
Follows(c, l) == Tellable(l) => Shown(l) \/ \E k \in DOMAIN task[c].seen : task[c].seen[k].id = l
SeesTruly(c) ==
    \A k \in DOMAIN task[c].seen :
       task[c].seen[k].id \in DOMAIN offers /\ task[c].seen[k] = Listed(task[c].seen[k].id)

LEMMA ReadPasses ==
  ASSUME CatalogueInv, NEW c \in Callers, Passing(c), SyncReads(c), mirror.is = "runs"
  PROVE  Passing(c)' /\ mirror'.is = "runs"
  <1>0. UNCHANGED <<offers, card, lots>> BY DEF SyncReads, evmChain, cardVars
  <1> DEFINE n == task[c].row
             seen == task[c].seen
  <1>1. /\ task'[c].do = "sync" /\ n \in DOMAIN offers
        /\ \/ task'[c].seen = seen /\ UNCHANGED mirror
           \/ task'[c].seen = Append(seen, Listed(n)) /\ mirror' = [is |-> "runs", of |-> mirror.of \cup {n}]
    BY SyncReadsKept
  <1>2. /\ mirror.of \subseteq DOMAIN offers /\ SeesTruly(c) /\ \A l \in mirror.of : Follows(c, l)
    BY DEF Passing, SeesTruly, Follows
  <1>3. \A l : Tellable(l)' = Tellable(l) /\ Shown(l)' = Shown(l) /\ Listed(l)' = Listed(l)
    BY <1>0 DEF Tellable, Shown, Listed, RowsOf, OnShelf
  <1>4. CASE task'[c].seen = seen /\ UNCHANGED mirror
    <2>1. SeesTruly(c)' /\ \A l \in mirror'.of : Follows(c, l)'
      BY <1>0, <1>2, <1>3, <1>4 DEF SeesTruly, Follows
    <2> QED BY <1>0, <1>1, <1>2, <1>4, <2>1 DEF Passing, SeesTruly, Follows
  <1>5. CASE task'[c].seen = Append(seen, Listed(n)) /\ mirror' = [is |-> "runs", of |-> mirror.of \cup {n}]
    <2>1. seen \in Seq(Listings) /\ DOMAIN seen = 1..Len(seen) /\ Len(seen) \in Nat
      BY TaskTyped DEF CatalogueInv
    <2>2. Listed(n) \in Listings /\ Listed(n).id = n BY <1>1, ListedTyped DEF CatalogueInv
    <2> DEFINE more == Append(seen, Listed(n))
    <2>3. /\ more \in Seq(Listings) /\ Len(more) = Len(seen) + 1
          /\ \A k \in 1..Len(seen) : more[k] = seen[k]
          /\ more[Len(seen) + 1] = Listed(n)
      BY <2>1, <2>2, AppendProperties
    <2>m. task'[c].seen = more BY <1>5
    <2> HIDE DEF more
    <2>4. DOMAIN more = 1..(Len(seen) + 1) BY <2>3, LenProperties
    <2>5. /\ \A k \in DOMAIN seen : k \in DOMAIN more /\ more[k] = seen[k]
          /\ \A k \in DOMAIN more : k \in DOMAIN seen \/ more[k] = Listed(n)
          /\ \E k \in DOMAIN more : more[k] = Listed(n)
      BY <2>1, <2>3, <2>4
    <2>6. SeesTruly(c)'
      <3> SUFFICES ASSUME NEW k \in DOMAIN more
                   PROVE  more[k].id \in DOMAIN offers /\ more[k] = Listed(more[k].id)
        BY <1>0, <1>3, <2>m DEF SeesTruly
      <3>1. CASE k \in DOMAIN seen BY <1>2, <2>5, <3>1 DEF SeesTruly
      <3>2. CASE more[k] = Listed(n) BY <1>1, <2>2, <3>2
      <3> QED BY <2>5, <3>1, <3>2
    <2>7. mirror'.of = mirror.of \cup {n} /\ mirror'.is = "runs"
      BY <1>5
    <2>8. ASSUME NEW l \in mirror'.of PROVE Follows(c, l)'
      <3>1. CASE l = n BY <2>2, <2>5, <2>m, <3>1 DEF Follows
      <3>2. CASE l \in mirror.of
        <4>1. Follows(c, l) BY <1>2, <3>2
        <4> QED BY <1>3, <2>5, <2>m, <4>1 DEF Follows
      <3> QED BY <2>7, <3>1, <3>2
    <2>9. mirror'.of \subseteq DOMAIN offers' BY <1>0, <1>1, <1>2, <2>7
    <2> QED BY <1>1, <2>6, <2>7, <2>8, <2>9 DEF Passing, SeesTruly, Follows
  <1> QED BY <1>1, <1>4, <1>5

LEMMA SeekPasses ==
  ASSUME CatalogueInv, NEW c \in Callers, Passing(c), SyncSeek(c)
  PROVE  Passing(c)'
  <1>0. UNCHANGED <<offers, card, lots, mirror>> BY DEF SyncSeek, evmChain, cardVars
  <1>1. /\ task'[c].do = "syncing" /\ task'[c].seen = task[c].seen
        /\ task'[c].row = NewestOf(RowsOf(Head(task[c].seen).token, Head(task[c].seen).seller))
        /\ task'[c].ok = (task'[c].row # 0 /\ OnShelf(task'[c].row))
    BY SyncSeekKept
  <1>2. \A l : Tellable(l)' = Tellable(l) /\ Shown(l)' = Shown(l) /\ Listed(l)' = Listed(l)
    BY <1>0 DEF Tellable, Shown, Listed, RowsOf, OnShelf
  <1>3. SeesTruly(c)' /\ \A l \in mirror'.of : Follows(c, l)'
    <2>1. SeesTruly(c) /\ \A l \in mirror.of : Follows(c, l) BY DEF Passing, SeesTruly, Follows
    <2> QED BY <1>0, <1>1, <1>2, <2>1 DEF SeesTruly, Follows
  <1>4. /\ (NewestOf(RowsOf(Head(task[c].seen).token, Head(task[c].seen).seller)))'
            = task'[c].row
        /\ (task[c].ok = (task[c].row # 0 /\ OnShelf(task[c].row)))'
    BY <1>0, <1>1 DEF NewestOf, RowsOf, OnShelf
  <1>5. mirror'.of \subseteq DOMAIN offers' BY <1>0 DEF Passing
  <1> QED BY <1>1, <1>3, <1>4, <1>5 DEF Passing, SeesTruly, Follows

\* What is true of all a sync has seen is true of the rest of it; and what it had
\* still before it, but the first, it has still before it.
LEMMA RestSeen ==
  ASSUME CatalogueInv, NEW c \in Callers, SeesTruly(c), task[c].seen # <<>>
  PROVE  LET tail == Tail(task[c].seen)
             i == Head(task[c].seen).id IN
         /\ i \in DOMAIN offers /\ Head(task[c].seen) = Listed(i)
         /\ \A k \in DOMAIN tail : tail[k].id \in DOMAIN offers /\ tail[k] = Listed(tail[k].id)
         /\ \A l : (\E k \in DOMAIN task[c].seen : task[c].seen[k].id = l)
                      => l = i \/ \E k \in DOMAIN tail : tail[k].id = l
  <1> DEFINE seen == task[c].seen
             tail == Tail(task[c].seen)
  <1>1. /\ seen \in Seq(Listings) /\ DOMAIN seen = 1..Len(seen) /\ tail \in Seq(Listings)
        /\ Head(seen) = seen[1] /\ Len(seen) \in Nat \ {0} /\ Len(tail) = Len(seen) - 1
        /\ \A k \in 1..Len(tail) : tail[k] = seen[k + 1]
    BY SeenTail, TaskTyped DEF CatalogueInv
  <1>2. \A k \in DOMAIN seen : seen[k].id \in DOMAIN offers /\ seen[k] = Listed(seen[k].id)
    BY DEF SeesTruly
  <1> HIDE DEF seen, tail
  <1>3. DOMAIN tail = 1..(Len(seen) - 1) BY <1>1, LenProperties
  <1>4. \A k \in DOMAIN tail : k + 1 \in DOMAIN seen /\ tail[k] = seen[k + 1] BY <1>1, <1>3
  <1>5. \A k \in DOMAIN seen : k = 1 \/ (k - 1 \in DOMAIN tail /\ tail[k - 1] = seen[k])
    <2> SUFFICES ASSUME NEW k \in DOMAIN seen, k # 1 PROVE k - 1 \in DOMAIN tail /\ tail[k - 1] = seen[k]
      OBVIOUS
    <2>1. k - 1 \in 1..(Len(seen) - 1) /\ (k - 1) + 1 = k BY <1>1
    <2> QED BY <1>3, <1>4, <2>1
  <1>6. 1 \in DOMAIN seen BY <1>1
  <1>7. Head(seen).id \in DOMAIN offers /\ Head(seen) = Listed(Head(seen).id) BY <1>1, <1>2, <1>6
  <1>8. \A k \in DOMAIN tail : tail[k].id \in DOMAIN offers /\ tail[k] = Listed(tail[k].id)
    BY <1>2, <1>4
  <1>9. \A l : (\E k \in DOMAIN seen : seen[k].id = l)
                  => l = Head(seen).id \/ \E k \in DOMAIN tail : tail[k].id = l
    BY <1>1, <1>5
  <1> QED BY <1>7, <1>8, <1>9 DEF seen, tail

LEMMA SkipPasses ==
  ASSUME CatalogueInv, NEW c \in Callers, Passing(c), SyncSkip(c)
  PROVE  Passing(c)'
  <1>0. UNCHANGED <<offers, card, lots, mirror>> /\ task[c].seen # <<>>
    BY DEF SyncSkip, Compares, evmChain, cardVars
  <1>1. task'[c].do = "sync" /\ task'[c].seen = Tail(task[c].seen) BY SyncSkipKept
  <1> DEFINE tail == Tail(task[c].seen)
             i == Head(task[c].seen).id
  <1>2. /\ mirror.of \subseteq DOMAIN offers /\ SeesTruly(c) /\ \A l \in mirror.of : Follows(c, l)
    BY DEF Passing, SeesTruly, Follows
  <1>3. /\ i \in DOMAIN offers /\ Head(task[c].seen) = Listed(i)
        /\ \A k \in DOMAIN tail : tail[k].id \in DOMAIN offers /\ tail[k] = Listed(tail[k].id)
        /\ \A l : (\E k \in DOMAIN task[c].seen : task[c].seen[k].id = l)
                      => l = i \/ \E k \in DOMAIN tail : tail[k].id = l
    BY <1>0, <1>2, RestSeen
  <1>4. \A l : Tellable(l)' = Tellable(l) /\ Shown(l)' = Shown(l) /\ Listed(l)' = Listed(l)
    BY <1>0 DEF Tellable, Shown, Listed, RowsOf, OnShelf
  <1>5. ~Tellable(i)
    <2>1. Listed(i).token = offers[i].token BY <1>3, ListedTyped DEF CatalogueInv
    <2>2. ~card[Head(task[c].seen).token].indexed BY DEF SyncSkip
    <2> QED BY <1>3, <2>1, <2>2 DEF Tellable
  <1>t. task'[c].seen = tail BY <1>1
  <1> HIDE DEF tail, i
  <1>6. SeesTruly(c)' BY <1>0, <1>3, <1>4, <1>t DEF SeesTruly
  <1>7. ASSUME NEW l \in mirror.of PROVE Follows(c, l)'
    <2>1. Follows(c, l) BY <1>2
    <2> QED BY <1>3, <1>4, <1>5, <1>t, <2>1 DEF Follows
  <1> QED BY <1>0, <1>1, <1>2, <1>6, <1>7 DEF Passing, SeesTruly, Follows

LEMMA SavesPasses ==
  ASSUME CatalogueInv, NEW c \in Callers, Passing(c), SyncSaves(c)
  PROVE  Passing(c)'
  <1>0. /\ UNCHANGED <<offers, card, mirror>> /\ task[c].do = "syncing" /\ task[c].seen # <<>>
    BY DEF SyncSaves, evmChain, CatalogueInv, TaskInv, ReadTruly
  <1>1. task'[c].do = "sync" /\ task'[c].seen = Tail(task[c].seen) BY SyncSavesKept
  <1>g. LotsGrow BY SyncStepRows
  <1> DEFINE tail == Tail(task[c].seen)
  <1>2. /\ mirror.of \subseteq DOMAIN offers /\ SeesTruly(c) /\ \A l \in mirror.of : Follows(c, l)
    BY DEF Passing, SeesTruly, Follows
  <1>3. PICK i \in DOMAIN offers :
        /\ Head(task[c].seen) = Listed(i)
        /\ \A k \in DOMAIN tail : tail[k].id \in DOMAIN offers /\ tail[k] = Listed(tail[k].id)
        /\ \A l : (\E k \in DOMAIN task[c].seen : task[c].seen[k].id = l)
                      => l = i \/ \E k \in DOMAIN tail : tail[k].id = l
    BY <1>0, <1>2, RestSeen
  <1>4. Listed(i).token = offers[i].token /\ Listed(i).seller = offers[i].seller
    BY <1>3, ListedTyped DEF CatalogueInv
  <1>5. /\ task[c].row = NewestOf(RowsOf(offers[i].token, offers[i].seller))
        /\ task[c].ok = (task[c].row # 0 /\ OnShelf(task[c].row))
    BY <1>0, <1>3, <1>4 DEF Passing
  <1>6. \A x \in DOMAIN lots' :
            \/ x \in DOMAIN lots /\ lots'[x] = lots[x]
            \/ lots'[x].token = offers[i].token /\ lots'[x].seller = offers[i].seller
    BY <1>3, <1>4, SaveTouches
  <1>7. Tellable(i) => Shown(i)' BY <1>3, <1>5, SavedIsShown
  <1>t. task'[c].seen = tail BY <1>1
  <1> HIDE DEF tail
  <1>8. SeesTruly(c)' BY <1>0, <1>3, <1>t DEF SeesTruly, Listed
  <1>9. ASSUME NEW l \in mirror.of PROVE Follows(c, l)'
    <2> SUFFICES ASSUME Tellable(l)'
                 PROVE  Shown(l)' \/ \E k \in DOMAIN tail : tail[k].id = l
      BY <1>t DEF Follows
    <2>1. Tellable(l) BY <1>0, <1>g, TellableBefore
    <2>2. CASE l = i BY <1>7, <2>1, <2>2
    <2>3. CASE l # i /\ Shown(l)
      <3>1. offers[l].token # offers[i].token \/ offers[l].seller # offers[i].seller
        BY <1>3, <2>1, <2>3 DEF Tellable
      <3> QED BY <1>0, <1>g, <1>6, <2>3, <3>1, ShownStill
    <2>4. CASE l # i /\ ~Shown(l)
      <3>1. Follows(c, l) BY <1>2
      <3> QED BY <1>3, <2>1, <2>4, <3>1 DEF Follows
    <2> QED BY <2>2, <2>3, <2>4
  <1> QED BY <1>0, <1>1, <1>2, <1>8, <1>9 DEF Passing, SeesTruly, Follows

LEMMA BeginPasses ==
  ASSUME CatalogueInv, NEW c \in Callers, SyncBegin(c), mirror' = [is |-> "runs", of |-> {}]
  PROVE  Passing(c)'
  <1>1. task'[c].do = "sync" /\ task'[c].seen = <<>> BY SyncBeginKept
  <1>2. DOMAIN <<>> = {} OBVIOUS
  <1> QED BY <1>1, <1>2 DEF Passing

LEMMA SyncInvInit == ASSUME CatalogueInit PROVE SyncInv
  BY DEF CatalogueInit, SyncInv, Disturbed

\* Only the sync that runs alone can have a step while it does.
LEMMA SyncGoesOn ==
  ASSUME CatalogueInv, SyncInv, NEW c \in Operators,
         SyncReads(c) \/ SyncSeek(c) \/ SyncSkip(c) \/ SyncSaves(c)
  PROVE  SyncInv'
  <1>c. c \in Callers BY DEF Callers
  <1>0. task[c].do \in {"sync", "syncing"} BY DEF SyncReads, SyncSeek, SyncSkip, SyncSaves, Compares
  <1>1. task[c] # Waiting BY <1>0, WaitingTyped
  <1>2. CASE mirror.is = "no"
    <2>1. mirror'.is = "no"
      BY <1>2 DEF SyncReads, SyncSeek, SyncSkip, SyncSaves, Disturbed
    <2> QED BY <2>1 DEF SyncInv
  <1>3. CASE mirror.is # "no"
    <2>1. mirror.is = "runs" /\ Passing(c) /\ \A d \in Callers \ {c} : task[d] = Waiting
      BY <1>c, <1>1, <1>3 DEF SyncInv
    <2>2. Passing(c)' /\ mirror'.is = "runs"
      <3>1. CASE SyncReads(c) BY <1>c, <2>1, <3>1, ReadPasses
      <3>2. CASE SyncSeek(c) \/ SyncSkip(c) \/ SyncSaves(c)
        <4>1. UNCHANGED mirror BY <3>2 DEF SyncSeek, SyncSkip, SyncSaves
        <4> QED BY <1>c, <2>1, <3>2, <4>1, SeekPasses, SkipPasses, SavesPasses
      <3> QED BY <3>1, <3>2
    <2>3. TaskWrites(c) BY <1>c, SyncReadsKept, SyncSeekKept, SyncSkipKept, SyncSavesKept
    <2> QED BY <2>1, <2>2, <2>3 DEF SyncInv, TaskWrites
  <1> QED BY <1>2, <1>3

LEMMA SyncInvStep ==
  ASSUME CatalogueInv, SyncInv, [CatalogueNext]_catalogueVars
  PROVE  SyncInv'
  <1>1. CASE mirror' = Disturbed BY <1>1 DEF SyncInv, Disturbed
  <1>2. ASSUME NEW c \in Operators, SyncBegin(c), mirror' # Disturbed
        PROVE  SyncInv'
    <2>1. c \in Callers BY DEF Callers
    <2>2. mirror' = [is |-> "runs", of |-> {}] /\ \A d \in Callers : task[d] = Waiting
      BY <1>2 DEF SyncBegin
    <2>3. TaskWrites(c) /\ Passing(c)' BY <1>2, <2>1, <2>2, SyncBeginKept, BeginPasses
    <2> QED BY <1>2, <2>2, <2>3 DEF SyncInv, TaskWrites
  <1>3. ASSUME NEW c \in Operators, SyncReads(c) \/ SyncSeek(c) \/ SyncSkip(c) \/ SyncSaves(c)
        PROVE  SyncInv'
    BY <1>3, SyncGoesOn
  <1>4. ASSUME NEW c \in Operators, SyncEnds(c), mirror' # Disturbed
        PROVE  SyncInv'
    <2>0. c \in Callers BY DEF Callers
    <2>1. /\ mirror.is = "runs" /\ mirror' = [is |-> "done", of |-> mirror.of]
          /\ task[c].do = "sync" /\ task[c].seen = <<>>
          /\ UNCHANGED <<offers, card, lots>> /\ Returns(c)
      BY <1>4 DEF SyncEnds, evmChain, cardVars
    <2>2. Passing(c) /\ \A d \in Callers \ {c} : task[d] = Waiting
      <3>1. task[c] # Waiting BY <2>1, WaitingTyped
      <3> QED BY <2>0, <2>1, <3>1 DEF SyncInv
    <2>3. \A d \in Callers : task'[d] = Waiting
      BY <2>0, <2>1, <2>2, TaskReturned DEF TaskWrites
    <2>4. mirror.of \subseteq DOMAIN offers /\ \A l \in mirror.of : Tellable(l) => Shown(l)
      <3>1. DOMAIN <<>> = {} OBVIOUS
      <3> QED BY <2>1, <2>2, <3>1 DEF Passing
    <2>5. \A l : Tellable(l)' = Tellable(l) /\ Shown(l)' = Shown(l)
      BY <2>1 DEF Tellable, Shown, RowsOf, OnShelf
    <2>6. mirror'.of = mirror.of /\ mirror'.is = "done" BY <2>1
    <2> QED BY <2>1, <2>3, <2>4, <2>5, <2>6 DEF SyncInv
  <1>5. CASE UNCHANGED catalogueVars
    <2>1. UNCHANGED <<offers, card, lots, task, mirror>>
      BY <1>5 DEF catalogueVars, evmChain, cardVars
    <2>2. \A l : Tellable(l)' = Tellable(l) /\ Shown(l)' = Shown(l) /\ Listed(l)' = Listed(l)
      BY <2>1 DEF Tellable, Shown, Listed, RowsOf, OnShelf
    <2>3. \A c : Passing(c) => Passing(c)'
      BY <2>1, <2>2 DEF Passing, RowsOf, OnShelf, NewestOf
    <2> QED BY <2>1, <2>2, <2>3 DEF SyncInv
  <1>6. mirror' = Disturbed \/ UNCHANGED catalogueVars
        \/ \E c \in Operators :
              \/ SyncBegin(c) /\ mirror' # Disturbed
              \/ SyncReads(c) \/ SyncSeek(c) \/ SyncSkip(c) \/ SyncSaves(c)
              \/ SyncEnds(c) /\ mirror' # Disturbed
    <2>1. CASE EvmMoves BY <2>1 DEF EvmMoves
    <2>2. CASE \E t \in Nfts, b \in BOOLEAN : SetHidden(t, b) \/ Resolve(t, b)
      BY <2>2 DEF SetHidden, Resolve
    <2>3. ASSUME NEW c \in Callers,
                 \/ TokenRead(c) \/ TokenWrite(c) \/ ListingRead(c) \/ ListingFind(c) \/ ListingWrite(c)
                 \/ EvmSettleRead(c) \/ EvmSettleWrite(c) \/ Dies(c)
          PROVE  mirror' = Disturbed
      BY <2>3 DEF TokenRead, TokenWrite, ListingRead, ListingFind, ListingWrite, EvmSettleRead,
                  EvmSettleWrite, Dies
    <2> QED BY <2>1, <2>2, <2>3 DEF CatalogueNext, Callers
  <1> QED BY <1>1, <1>2, <1>3, <1>4, <1>5, <1>6

\* When every offer is shown, the shelf is the offers: a row on it was asked for,
\* so an offer has its token and seller, and shows that very row.
LEMMA AllShownIsMirrored ==
  ASSUME CatalogueInv, \A l \in DOMAIN offers : Tellable(l) /\ Shown(l)
  PROVE  Mirrored
  <1>1. ASSUME NEW n \in DOMAIN lots, OnShelf(n)
        PROVE  \E l \in Alive : <<lots[n].token, lots[n].seller, lots[n].price>>
                                = <<offers[l].token, offers[l].seller, offers[l].price>>
    <2>1. <<lots[n].token, lots[n].seller, lots[n].price>> \in asked
      BY DEF CatalogueInv, RowsFollowChain
    <2>2. PICK l \in DOMAIN offers : offers[l].token = lots[n].token /\ offers[l].seller = lots[n].seller
      BY <2>1 DEF CatalogueInv, HistoryInv
    <2>3. n \in RowsOf(offers[l].token, offers[l].seller) BY <2>2 DEF RowsOf
    <2>4. offers[l].active BY <1>1, <2>3 DEF Shown
    <2>5. PICK m \in RowsOf(offers[l].token, offers[l].seller) : lots[m].price = offers[l].price
      BY <2>4 DEF Shown
    <2>6. m = n BY <2>3, <2>5 DEF Tellable
    <2> QED BY <2>2, <2>4, <2>5, <2>6 DEF Alive
  <1>2. ASSUME NEW l \in Alive
        PROVE  \E n \in {m \in DOMAIN lots : OnShelf(m)} :
                  <<lots[n].token, lots[n].seller, lots[n].price>>
                    = <<offers[l].token, offers[l].seller, offers[l].price>>
    <2>1. PICK n \in RowsOf(offers[l].token, offers[l].seller) : OnShelf(n) /\ lots[n].price = offers[l].price
      BY DEF Shown, Alive
    <2> QED BY <2>1 DEF RowsOf
  <1> QED BY <1>1, <1>2 DEF Mirrored

\* A sync that has run alone leaves the row of each offer it could read on the
\* shelf at its price, or off it; and when it could read them all, and each can be
\* told from the others, the shelf is what the contract offers and nothing else.
THEOREM SyncMirrors == CatalogueSpec => []SyncHeals
  <1>1. CatalogueInv /\ SyncInv => SyncHeals
    BY AllShownIsMirrored DEF SyncInv, SyncHeals
  <1>2. CatalogueSpec => []CatalogueInv
    BY CatalogueInvInit, CatalogueInvStep, PTL DEF CatalogueSpec
  <1> QED BY <1>1, <1>2, SyncInvInit, SyncInvStep, PTL DEF CatalogueSpec
=============================================================================

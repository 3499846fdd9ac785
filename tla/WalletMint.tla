------------------------------ MODULE WalletMint -------------------------------
(***************************************************************************)
(* The mint a wallet signs for itself: the platform's fee, paid by a SOL   *)
(* transfer the chain is asked about; the transaction handed back for the  *)
(* wallet to sign; the rows written meanwhile, and the checksum that says  *)
(* whether a row is still what was written.                                *)
(*                                                                         *)
(* The handler waits on the database and the chain between its checks and  *)
(* its writes, and other requests run in between.  Its rows are for the    *)
(* record: a database that fails does not stop the mint.  Whether the      *)
(* wallet ever signs what it is handed, nobody here learns.                *)
(***************************************************************************)
EXTENDS Integers, Sequences, FiniteSetsExt

CONSTANTS
    Minters,        \* requests that may be under way together
    Minted,         \* keypairs generateSigner may return
    Signatures,     \* signatures a caller may pass
    Unsigned,       \* no signature passed, no keypair yet
    Movement,       \* signature -> what its transaction does to balances
    Treasury,       \* the place of the treasury among those balances
    MintFee,        \* MINT_FEE_LAMPORTS; zero is free
    Spellings,      \* ways to write an amount
    Decimal         \* spelling -> the form Postgres gives it back in

\* What a transaction did: each account's change, the network fee among them,
\* which the first account pays.
Transfers == [delta : Seq(Int), fee : Nat, failed : BOOLEAN]

ASSUME WalletAssumption ==
    /\ Unsigned \notin Signatures \cup Minted
    /\ \A s \in Signatures : Movement[s] \in Transfers /\ Treasury \in DOMAIN Movement[s].delta
    /\ MintFee \in Nat
    /\ Decimal \in [Spellings -> Spellings]
    /\ \A a \in Spellings : Decimal[Decimal[a]] = Decimal[a]

VARIABLES
    landed,     \* signatures whose transaction is on chain
    record,     \* assets with an nfts row
    entry,      \* rows of transactions, in the order they were written
    mint,       \* request -> where its handler is
    handed,     \* history: mints whose transaction was returned
    refused,    \* history: signatures refused on an answer of the chain
    edited      \* history: rows of transactions somebody has altered

walletVars == <<landed, record, entry, mint, handed, refused, edited>>

\* The last two are history: its signature had bought a recorded mint before it
\* was asked for another; its own record failed.
NoMint == [step |-> "none", sig |-> Unsigned, asset |-> Unsigned, again |-> FALSE, lost |-> FALSE]

WalletInit ==
    /\ landed = {}
    /\ record = {}
    /\ entry = <<>>
    /\ mint = [m \in Minters |-> NoMint]
    /\ handed = {}
    /\ refused = {}
    /\ edited = {}

-----------------------------------------------------------------------------
(* readSolTransfer: who moved how much, from the changes of the balances   *)

\* The first account pays the network fee, which is taken off its change: once
\* more, for the change has it already.
Adjusted(tx, i) == tx.delta[i] - (IF i = 1 THEN tx.fee ELSE 0)

\* What moved is what the one that lost most has lost.
Moved(tx) == Max({0} \cup {-Adjusted(tx, i) : i \in DOMAIN tx.delta})

Gained(tx) == {i \in DOMAIN tx.delta : Adjusted(tx, i) > 0}

\* The first of those that gained most.
Recipient(tx) == Min({i \in Gained(tx) : \A j \in Gained(tx) : tx.delta[j] <= tx.delta[i]})

\* Otherwise it failed, or moved no SOL.
MovesSol(tx) == ~tx.failed /\ Gained(tx) # {} /\ Moved(tx) > 0

\* Without the amount: any payment to the treasury will do.
PaysAnything(tx) == MovesSol(tx) /\ Recipient(tx) = Treasury

\* verifySolPayment on what the chain has.
PaysFee(tx) == MovesSol(tx) /\ Recipient(tx) = Treasury /\ Moved(tx) >= MintFee

\* A node that does not answer, or does not know the signature, says no.
Verdicts(s) == {(s \in landed) /\ PaysFee(Movement[s]), FALSE}

-----------------------------------------------------------------------------
(* auditedTransactionData, verifyTransactionChecksum                       *)

\* SHA-256 is taken as never colliding: a checksum is what it covers.
Checksum(asset, amount) == <<asset, amount>>

\* The caller's spelling hashed.
HashedRaw(amount) == amount

\* What is hashed is the form the database gives back.
Hashed(amount) == Decimal[amount]

Audited(asset, amount, s) ==
    [asset |-> asset, amount |-> Decimal[amount], sig |-> s, status |-> "PENDING",
     sum |-> Checksum(asset, Hashed(amount))]

\* The verdict on a row as it is stored.
Verified(row) == Checksum(row.asset, row.amount) = row.sum

-----------------------------------------------------------------------------
(* mintNft                                                                 *)

AtStep(m, step) == mint[m].step = step
Proceeds(m, step) == mint' = [mint EXCEPT ![m].step = step]
Leaves(m) == mint' = [mint EXCEPT ![m] = NoMint]

\* A URI already in the catalogue is refused, unless the database fails: then
\* the check is skipped.  Whichever URI it is, the handler may go on.
MintAsks(m) ==
    /\ mint[m] = NoMint
    /\ \E s \in Signatures \cup {Unsigned} :
          mint' = [mint EXCEPT ![m] = [NoMint EXCEPT
             !.sig = s, !.step = IF MintFee > 0 THEN "guard" ELSE "build",
             !.again = \E h \in handed : h.sig = s /\ ~h.lost]]
    /\ UNCHANGED <<landed, record, entry, handed, refused, edited>>

\* A row that settle has confirmed would not count.
SpentLately(s) == \E n \in DOMAIN entry : entry[n].sig = s /\ entry[n].status = "PENDING"

Spent(s) == \E n \in DOMAIN entry : entry[n].sig = s

\* The fee needs a signature, and one the ledger does not have.
FeeGuard(m) ==
    /\ AtStep(m, "guard")
    /\ IF mint[m].sig = Unsigned \/ Spent(mint[m].sig)
       THEN Leaves(m)
       ELSE Proceeds(m, "verify")
    /\ UNCHANGED <<landed, record, entry, handed, refused, edited>>

FeeVerify(m) ==
    LET s == mint[m].sig IN
    /\ AtStep(m, "verify")
    /\ \E paid \in Verdicts(s) :
          IF paid THEN Proceeds(m, "build") /\ UNCHANGED refused
          ELSE /\ Leaves(m)
               /\ refused' = IF s \in landed /\ ~PaysFee(Movement[s])
                             THEN refused \cup {s} ELSE refused
    /\ UNCHANGED <<landed, record, entry, handed, edited>>

Drawn == {h.asset : h \in handed} \cup record \cup {mint[m].asset : m \in Minters}

\* The transaction, with the new asset's signature on it and a blockhash.
MintBuilds(m) ==
    /\ AtStep(m, "build")
    /\ \E a \in Minted \ Drawn :
          mint' = [mint EXCEPT ![m].step = "nftRow", ![m].asset = a]
    /\ UNCHANGED <<landed, record, entry, handed, refused, edited>>

NftRow(m) ==
    /\ AtStep(m, "nftRow")
    /\ record' = record \cup {mint[m].asset}
    /\ Proceeds(m, "txRow")
    /\ UNCHANGED <<landed, entry, handed, refused, edited>>

\* txHash is unique: a signature that is there already throws, and that, like
\* any failure of the database, is logged and passed over.
TxRow(m) ==
    /\ AtStep(m, "txRow")
    /\ IF mint[m].sig # Unsigned /\ Spent(mint[m].sig) THEN UNCHANGED entry
       ELSE \E amount \in Spellings :
               entry' = Append(entry, Audited(mint[m].asset, amount, mint[m].sig))
    /\ Proceeds(m, "answer")
    /\ UNCHANGED <<landed, record, handed, refused, edited>>

RowsFail(m) ==
    /\ mint[m].step \in {"nftRow", "txRow"}
    /\ mint' = [mint EXCEPT ![m].step = "answer", ![m].lost = TRUE]
    /\ UNCHANGED <<landed, record, entry, handed, refused, edited>>

MintAnswers(m) ==
    /\ AtStep(m, "answer")
    /\ handed' = handed \cup {[asset |-> mint[m].asset, sig |-> mint[m].sig,
                                again |-> mint[m].again, lost |-> mint[m].lost]}
    /\ Leaves(m)
    /\ UNCHANGED <<landed, record, entry, refused, edited>>

\* A database or an RPC that throws before the rows, or an eviction anywhere.
MintFails(m) ==
    /\ mint[m] # NoMint
    /\ Leaves(m)
    /\ UNCHANGED <<landed, record, entry, handed, refused, edited>>

-----------------------------------------------------------------------------
(* What happens outside the handler                                        *)

\* A caller's transfer reaches the chain.
FeeLands ==
    /\ \E s \in Signatures \ landed : landed' = landed \cup {s}
    /\ UNCHANGED <<record, entry, mint, handed, refused, edited>>

\* Another handler confirms a pending row, as settle does.
EntryConfirms ==
    /\ \E n \in DOMAIN entry :
          /\ entry[n].status = "PENDING"
          /\ entry' = [entry EXCEPT ![n].status = "CONFIRMED"]
    /\ UNCHANGED <<landed, record, mint, handed, refused, edited>>

\* Somebody alters a row in the database.
EntryAltered ==
    /\ \E n \in DOMAIN entry \ edited, amount \in {Decimal[a] : a \in Spellings} :
          /\ amount # entry[n].amount
          /\ entry' = [entry EXCEPT ![n].amount = amount]
          /\ edited' = edited \cup {n}
    /\ UNCHANGED <<landed, record, mint, handed, refused>>

WalletNext ==
    \/ \E m \in Minters :
          \/ MintAsks(m) \/ FeeGuard(m) \/ FeeVerify(m) \/ MintBuilds(m)
          \/ NftRow(m) \/ TxRow(m) \/ RowsFail(m) \/ MintAnswers(m) \/ MintFails(m)
    \/ FeeLands
    \/ EntryConfirms
    \/ EntryAltered

WalletSpec == WalletInit /\ [][WalletNext]_walletVars

-----------------------------------------------------------------------------
(* Properties                                                              *)

\* Every variable keeps its shape; an altered row is a row.
WalletTypeOK ==
    /\ landed \subseteq Signatures
    /\ record \subseteq Minted
    /\ entry \in Seq([asset : Minted, amount : Spellings, status : {"PENDING", "CONFIRMED"},
                      sig : Signatures \cup {Unsigned}, sum : Minted \X Spellings])
    /\ mint \in [Minters -> [step : {"none", "guard", "verify", "build", "nftRow", "txRow",
                                     "answer"},
                             sig : Signatures \cup {Unsigned},
                             asset : Minted \cup {Unsigned}, again : BOOLEAN, lost : BOOLEAN]]
    /\ handed \subseteq [asset : Minted, sig : Signatures \cup {Unsigned},
                         again : BOOLEAN, lost : BOOLEAN]
    /\ refused \subseteq Signatures
    /\ edited \subseteq DOMAIN entry

\* The whole fee, from one account to the treasury and nobody else.
PaidInFull(tx) ==
    /\ ~tx.failed
    /\ Adjusted(tx, Treasury) >= MintFee
    /\ \E i \in DOMAIN tx.delta : tx.delta[i] <= -MintFee
    /\ \A i \in DOMAIN tx.delta \ {Treasury} : tx.delta[i] <= 0

\* What an account was given, the network fee apart.
Received(tx, i) == tx.delta[i] + (IF i = 1 THEN tx.fee ELSE 0)

\* A plain transfer: p gives the treasury what it gets, and nobody else moves.
Transfer(tx, p) ==
    /\ p \in DOMAIN tx.delta \ {Treasury}
    /\ Received(tx, p) = -Received(tx, Treasury)
    /\ \A i \in DOMAIN tx.delta \ {p, Treasury} : Received(tx, i) = 0

\* While a fee is due, no mint is handed out but for a transaction that landed and
\* succeeded, and gave nobody more than the treasury by more than twice the network
\* fee: not when nodes are down, the database fails, or requests race.  Of a plain transfer the treasury has had the
\* whole fee, when somebody else paid the network fee; when the payer did, it may
\* have had twice the network fee too little, for the check counts that as paid.
\* And who has paid the fee in full is never told otherwise by the balances.
NoFreeMint ==
    MintFee > 0 =>
       /\ \A h \in handed :
             /\ h.sig \in landed
             /\ LET tx == Movement[h.sig] IN
                /\ ~tx.failed
                /\ \A i \in DOMAIN tx.delta : Received(tx, i) <= Received(tx, Treasury) + 2 * tx.fee
                /\ \A p \in DOMAIN tx.delta : Transfer(tx, p) =>
                      /\ Received(tx, Treasury) + 2 * tx.fee >= MintFee
                      /\ (p # 1 /\ MintFee > 2 * tx.fee) => Received(tx, Treasury) >= MintFee
       /\ \A s \in refused : ~PaidInFull(Movement[s])

\* One fee buys one mint: whoever asks with a signature that has bought one already
\* is handed nothing, whatever has become of that mint's row since.  What the code
\* does let one signature buy twice are requests under way together, and a request
\* that follows one whose row was lost with the database.
OneMintPerFee == MintFee > 0 => \A h \in handed : ~h.again

\* The audit of a row fails exactly when somebody has altered it: not because
\* its amount was spelled another way, nor because it has been confirmed.
AuditTellsTruth == \A n \in DOMAIN entry : Verified(entry[n]) <=> n \notin edited

=============================================================================

----------------------------- MODULE MedalVault -----------------------------
(***************************************************************************)
(* Event medals: an event with its tiers, the points its participants are  *)
(* granted, the MPL Core assets minted into the vault for its medals, and  *)
(* the claims that move them out.                                          *)
(*                                                                         *)
(* A handler reads, sends a transaction and polls for it twelve seconds,   *)
(* then writes its rows one statement at a time, with no transaction round *)
(* them.  What it sent may land after it has stopped looking, or never.    *)
(* Nothing orders two requests: both may have read what one then changes.  *)
(*                                                                         *)
(* One event is modelled.  Names, slugs, dates and tasksCompleted, which   *)
(* no handler reads, are left out; a medal without an image or metadata    *)
(* cannot be minted and is left out with them.                             *)
(***************************************************************************)
EXTENDS Integers, Sequences, FiniteSetsExt

CONSTANTS
    Tiers,         \* the tiers, the one hardest to reach first
    Wallets,       \* participants
    Vault,         \* the wallet that holds unclaimed medals
    NoOne,         \* the holder of an asset that is not on chain
    Assets,        \* keypairs generateSigner may return
    Requests,      \* requests that may be under way together
    Configs,       \* tier settings an admin may ask for
    Grants,        \* points an admin may grant or take away at once
    MaxPoints,     \* bound: points of one participant
    MaxSent        \* bound: transactions the vault sends

ASSUME MedalAssumption ==
    /\ Tiers # <<>>
    /\ NoOne \notin Wallets \cup {Vault}
    /\ Vault \notin Wallets
    /\ Grants \subseteq Int \ {0}
    /\ MaxPoints \in Nat /\ MaxSent \in Nat
    /\ IsFiniteSet(Requests)

VARIABLES
    event,     \* "none", "ACTIVE" or "deleted"
    medal,     \* tier -> its event_medals row
    points,    \* participant -> points; its domain is who has joined
    claim,     \* rows of medal_claims
    nft,       \* asset -> ownerAddress of its nfts row, NoOne without one
    ledger,    \* MEDAL_CLAIM rows of transactions
    owner,     \* asset -> who holds it on chain
    sent,      \* transactions the vault sent; the place of one is its hash
    reached,   \* history: <<tier, wallet>> whose points have been enough
    lost,      \* history: transactions whose handler died before it wrote
    work       \* request -> where its handler is, and what it has read

rowVars == <<event, medal, points, claim, nft, ledger>>
chainVars == <<owner, sent>>
medalVars == <<rowVars, chainVars, reached, lost, work>>

Tier == DOMAIN Tiers

None == 0

Idle == [step |-> "idle", tier |-> None, wallet |-> NoOne, asset |-> NoOne,
         points |-> None, tx |-> None, confirmed |-> FALSE]

MedalInit ==
    /\ event = "none"
    /\ medal = [t \in Tier |-> [required |-> 0, supply |-> 0, claimed |-> 0, nft |-> NoOne]]
    /\ points = [w \in {} |-> 0]
    /\ claim = {}
    /\ nft = [a \in Assets |-> NoOne]
    /\ ledger = {}
    /\ owner = [a \in Assets |-> NoOne]
    /\ sent = <<>>
    /\ reached = {}
    /\ lost = {}
    /\ work = [r \in Requests |-> Idle]

-----------------------------------------------------------------------------
(* The rules                                                               *)

\* Every tier is set, and a harder one asks for no less than an easier one.
ValidTierConfig(config) ==
    /\ DOMAIN config = Tier
    /\ \A t \in Tier :
          /\ config[t].required \in Nat
          /\ config[t].supply \in Nat \ {0}
    /\ \A t \in Tier : t > 1 => config[t - 1].required >= config[t].required

Claimed(t, w) == \E c \in claim : c.tier = t /\ c.wallet = w

\* Why a medal cannot be claimed, if so.
MedalStatus(m, pts, already) ==
    IF pts < m.required THEN "needs points"
    ELSE IF already THEN "already claimed"
    ELSE IF m.nft = NoOne THEN "not minted"
    ELSE IF m.claimed >= m.supply THEN "supply exhausted"
    ELSE "claimable"

\* getEvent's answer about a medal; a wallet that has not joined has no points.
EventAnswer(t, w) ==
    LET joined == w \in DOMAIN points IN
    [joined |-> joined, claimed |-> Claimed(t, w),
     status |-> MedalStatus(medal[t], IF joined THEN points[w] ELSE 0, Claimed(t, w))]

\* The medal's button is live.
ClaimOffered(t, w) ==
    LET answer == EventAnswer(t, w) IN
    answer.joined /\ ~answer.claimed /\ answer.status = "claimable"

\* The points left to the page to check.
MayClaimUnearned(t, w) ==
    /\ event = "ACTIVE" /\ medal[t].nft # NoOne /\ medal[t].claimed < medal[t].supply
    /\ w \in DOMAIN points /\ ~Claimed(t, w)

\* What claimMedal asks of the rows before it touches the chain.
MayClaim(t, w) ==
    /\ event = "ACTIVE"
    /\ medal[t].nft # NoOne
    /\ medal[t].claimed < medal[t].supply
    /\ w \in DOMAIN points
    /\ points[w] >= medal[t].required
    /\ ~Claimed(t, w)

Reaching(pts, m) ==
    {tw \in Tier \X DOMAIN pts : pts[tw[2]] >= m[tw[1]].required}

Start(r, x) == work[r] = Idle /\ work' = [work EXCEPT ![r] = x]
Goes(r, step) == work' = [work EXCEPT ![r].step = step]
Ends(r) == work' = [work EXCEPT ![r] = Idle]

-----------------------------------------------------------------------------
(* The event and its points                                                *)

CreateEvent(config) ==
    /\ event = "none"
    /\ ValidTierConfig(config)
    /\ event' = "ACTIVE"
    /\ medal' = [t \in Tier |-> [required |-> config[t].required, nft |-> NoOne,
                                 supply |-> config[t].supply, claimed |-> 0]]
    /\ UNCHANGED <<points, claim, nft, ledger, chainVars, reached, lost, work>>

\* The schema's cascade takes medals, participants and claims with the event.
DeleteEvent ==
    /\ event = "ACTIVE"
    /\ event' = "deleted"
    /\ points' = [w \in {} |-> 0]
    /\ claim' = {}
    /\ UNCHANGED <<medal, nft, ledger, chainVars, reached, lost, work>>

\* An upsert on (event, user): joining again changes nothing.
JoinEvent(w) ==
    /\ event = "ACTIVE"
    /\ w \notin DOMAIN points
    /\ points' = [v \in DOMAIN points \cup {w} |-> IF v = w THEN 0 ELSE points[v]]
    /\ reached' = reached \cup Reaching(points', medal)
    /\ UNCHANGED <<event, medal, claim, nft, ledger, chainVars, lost, work>>

Clamped(n) == IF n > 0 THEN n ELSE 0

\* The sum is computed from the points read, and clamped at zero.
GrantRead(r) ==
    \E w \in DOMAIN points, delta \in Grants :
       LET next == points[w] + delta IN
       /\ next <= MaxPoints
       /\ Start(r, [Idle EXCEPT !.step = "grant", !.wallet = w,
                               !.points = Clamped(next)])
       /\ UNCHANGED <<rowVars, chainVars, reached, lost>>

GrantWrite(r) ==
    LET h == work[r] IN
    /\ h.step = "grant"
    /\ h.wallet \in DOMAIN points
    /\ points' = [points EXCEPT ![h.wallet] = h.points]
    /\ reached' = reached \cup Reaching(points', medal)
    /\ Ends(r)
    /\ UNCHANGED <<event, medal, claim, nft, ledger, chainVars, lost>>

-----------------------------------------------------------------------------
(* The chain                                                               *)

\* A transaction of the vault: a mint when it gives the asset to the vault.
Sends(a, t, w) ==
    /\ Len(sent) < MaxSent
    /\ sent' = Append(sent, [asset |-> a, tier |-> t, to |-> w, state |-> "flying"])

Executes(i) ==
    /\ sent[i].state = "flying"
    /\ owner[sent[i].asset] = IF sent[i].to = Vault THEN NoOne ELSE Vault
    /\ owner' = [owner EXCEPT ![sent[i].asset] = sent[i].to]
    /\ sent' = [sent EXCEPT ![i].state = "landed"]

\* It is dropped when its blockhash expires, or fails: the asset has moved.
Drops(i) ==
    /\ sent[i].state = "flying"
    /\ sent' = [sent EXCEPT ![i].state = "dropped"]
    /\ UNCHANGED owner

Lands ==
    /\ \E i \in DOMAIN sent : Executes(i) \/ Drops(i)
    /\ UNCHANGED <<rowVars, reached, lost, work>>

\* A holder sends the medal back to the vault, with a wallet of its own.
GivesBack(a) ==
    /\ owner[a] \in Wallets
    /\ owner' = [owner EXCEPT ![a] = Vault]
    /\ UNCHANGED <<rowVars, sent, reached, lost, work>>

-----------------------------------------------------------------------------
(* mintMedals: one unminted medal at a time                                *)

Unminted == {t \in Tier : medal[t].nft = NoOne}

Fresh(a) == owner[a] = NoOne /\ \A i \in DOMAIN sent : sent[i].asset # a

\* The hardest tier still unminted is read, and its mint sent.
MintSend(r) ==
    /\ event = "ACTIVE"
    /\ \E t \in Unminted, a \in Assets :
          /\ \A u \in Unminted : medal[u].required =< medal[t].required
          /\ Fresh(a)
          /\ Sends(a, t, Vault)
          /\ Start(r, [Idle EXCEPT !.step = "mint", !.tier = t, !.asset = a,
                                  !.tx = Len(sent) + 1])
    /\ UNCHANGED <<rowVars, owner, reached, lost>>

\* A mint that was sent taken for one that landed.
MintAssumed(r) ==
    /\ work[r].step = "mint"
    /\ Goes(r, "mintRow")
    /\ UNCHANGED <<rowVars, chainVars, reached, lost>>

\* Confirmed, or given up on: then nothing is written.
MintConfirm(r) ==
    /\ work[r].step = "mint"
    /\ \/ sent[work[r].tx].state = "landed" /\ Goes(r, "mintRow")
       \/ Ends(r)
    /\ UNCHANGED <<rowVars, chainVars, reached, lost>>

MintRow(r) ==
    /\ work[r].step = "mintRow"
    /\ nft' = [nft EXCEPT ![work[r].asset] = Vault]
    /\ Goes(r, "mintLink")
    /\ UNCHANGED <<event, medal, points, claim, ledger, chainVars, reached, lost>>

MintLink(r) ==
    /\ work[r].step = "mintLink"
    /\ event = "ACTIVE"
    /\ medal' = [medal EXCEPT ![work[r].tier].nft = work[r].asset]
    /\ Ends(r)
    /\ UNCHANGED <<event, points, claim, nft, ledger, chainVars, reached, lost>>

-----------------------------------------------------------------------------
(* claimMedal                                                              *)

ClaimRead(r) ==
    \E t \in Tier, w \in Wallets :
       /\ MayClaim(t, w)
       /\ Start(r, [Idle EXCEPT !.step = "send", !.tier = t, !.wallet = w,
                               !.asset = medal[t].nft, !.points = points[w]])
       /\ UNCHANGED <<rowVars, chainVars, reached, lost>>

\* The asset must still be the vault's: otherwise 409, and nothing is sent.
ClaimSend(r) ==
    LET h == work[r] IN
    /\ h.step = "send"
    /\ IF owner[h.asset] = Vault
       THEN /\ Sends(h.asset, h.tier, h.wallet)
            /\ work' = [work EXCEPT ![r].step = "claim", ![r].tx = Len(sent) + 1]
       ELSE /\ Ends(r)
            /\ UNCHANGED sent
    /\ UNCHANGED <<rowVars, owner, reached, lost>>

\* An unseen transfer answered as a failure, as an unseen mint is.
ClaimConfirmStrictly(r) ==
    /\ work[r].step = "claim"
    /\ \/ /\ sent[work[r].tx].state = "landed"
          /\ work' = [work EXCEPT ![r].step = "claimRow", ![r].confirmed = TRUE]
       \/ Ends(r)
    /\ UNCHANGED <<rowVars, chainVars, reached, lost>>

\* The polls end with the transaction seen, or with it unseen: the rows are
\* written either way.
ClaimConfirm(r) ==
    /\ work[r].step = "claim"
    /\ \E seen \in {FALSE, sent[work[r].tx].state = "landed"} :
          work' = [work EXCEPT ![r].step = "claimRow", ![r].confirmed = seen]
    /\ UNCHANGED <<rowVars, chainVars, reached, lost>>

\* Unique on (medal, user): a second claim by the same wallet throws here.
ClaimRow(r) ==
    LET h == work[r] IN
    /\ h.step = "claimRow"
    /\ event = "ACTIVE"
    /\ IF Claimed(h.tier, h.wallet)
       THEN Ends(r) /\ UNCHANGED claim
       ELSE /\ claim' = claim \cup {[tier |-> h.tier, wallet |-> h.wallet,
                                    points |-> h.points, tx |-> h.tx]}
            /\ Goes(r, "claimCount")
    /\ UNCHANGED <<event, medal, points, nft, ledger, chainVars, reached, lost>>

ClaimCount(r) ==
    /\ work[r].step = "claimCount"
    /\ event = "ACTIVE"
    /\ medal' = [medal EXCEPT ![work[r].tier].claimed = @ + 1]
    /\ Goes(r, "claimOwner")
    /\ UNCHANGED <<event, points, claim, nft, ledger, chainVars, reached, lost>>

ClaimOwner(r) ==
    /\ work[r].step = "claimOwner"
    /\ nft' = [nft EXCEPT ![work[r].asset] = work[r].wallet]
    /\ Goes(r, "claimLedger")
    /\ UNCHANGED <<event, medal, points, claim, ledger, chainVars, reached, lost>>

ClaimLedger(r) ==
    LET h == work[r] IN
    /\ h.step = "claimLedger"
    /\ ledger' = ledger \cup {[tx |-> h.tx, wallet |-> h.wallet,
                               status |-> IF h.confirmed THEN "CONFIRMED" ELSE "PENDING"]}
    /\ Ends(r)
    /\ UNCHANGED <<event, medal, points, claim, nft, chainVars, reached, lost>>

\* An evicted invocation, an RPC or database error, a row the event's delete
\* has taken: the handler stops with what it has written.
Fail(r) ==
    /\ work[r] # Idle
    /\ Ends(r)
    /\ lost' = lost \cup ({work[r].tx} \ {None})
    /\ UNCHANGED <<rowVars, chainVars, reached>>

-----------------------------------------------------------------------------

Handler(r) ==
    \/ GrantRead(r) \/ GrantWrite(r)
    \/ MintSend(r) \/ MintConfirm(r) \/ MintRow(r) \/ MintLink(r)
    \/ ClaimRead(r) \/ ClaimSend(r) \/ ClaimConfirm(r)
    \/ ClaimRow(r) \/ ClaimCount(r) \/ ClaimOwner(r) \/ ClaimLedger(r)
    \/ Fail(r)

MedalNext ==
    \/ \E config \in Configs : CreateEvent(config)
    \/ DeleteEvent
    \/ \E w \in Wallets : JoinEvent(w)
    \/ \E r \in Requests : Handler(r)
    \/ Lands
    \/ \E a \in Assets : GivesBack(a)

MedalSpec == MedalInit /\ [][MedalNext]_medalVars

-----------------------------------------------------------------------------
(* Properties                                                              *)

Steps == {"idle", "grant", "mint", "mintRow", "mintLink", "send", "claim", "claimRow",
          "claimCount", "claimOwner", "claimLedger"}

\* Every variable keeps its shape; a row names an asset or nobody's.
MedalTypeOK ==
    /\ event \in {"none", "ACTIVE", "deleted"}
    /\ medal \in [Tier -> [required : Nat, supply : Nat, claimed : Nat,
                           nft : Assets \cup {NoOne}]]
    /\ DOMAIN points \subseteq Wallets
    /\ \A w \in DOMAIN points : points[w] \in 0..MaxPoints
    /\ claim \subseteq [tier : Tier, wallet : Wallets, points : Nat, tx : 1..MaxSent]
    /\ nft \in [Assets -> Wallets \cup {Vault, NoOne}]
    /\ ledger \subseteq [tx : 1..MaxSent, wallet : Wallets, status : {"PENDING", "CONFIRMED"}]
    /\ owner \in [Assets -> Wallets \cup {Vault, NoOne}]
    /\ sent \in Seq([asset : Assets, tier : Tier, to : Wallets \cup {Vault},
                     state : {"flying", "landed", "dropped"}])
    /\ Len(sent) <= MaxSent
    /\ reached \subseteq Tier \X Wallets
    /\ lost \subseteq 1..MaxSent
    /\ work \in [Requests ->
          [step : Steps, tier : Tier \cup {None}, wallet : Wallets \cup {NoOne},
           asset : Assets \cup {NoOne}, points : 0..MaxPoints, tx : 0..MaxSent,
           confirmed : BOOLEAN]]

\* The rows never claim more than has happened: every nfts row a mint wrote,
\* and every row a medal points at, is of an asset on chain, with mints
\* unconfirmed, repeated, or landing after their request has gone; and
\* claimedCount never runs ahead of the claims, whatever fails or is retried.
RowsAreReal ==
    /\ \A a \in Assets : nft[a] # NoOne => owner[a] # NoOne
    /\ \A t \in Tier : medal[t].nft # NoOne => nft[medal[t].nft] # NoOne
    /\ event = "ACTIVE" =>
          \A t \in Tier : medal[t].claimed <= Cardinality({c \in claim : c.tier = t})

\* The vault signs a medal away only to a wallet that has had the points for
\* that tier, although points are corrected downwards between the check and
\* the transfer and grants overwrite one another.
EarnedOnly ==
    \A i \in DOMAIN sent :
       sent[i].to # Vault => <<sent[i].tier, sent[i].to>> \in reached

\* A medal that has left the vault is not stranded: the wallet has its claim
\* row, or the handler that will write it is still at work, even when the
\* transfer landed after the handler stopped polling.  Only a handler that
\* died, or the event's deletion, leaves it out.
LeavingIsRecorded ==
    event = "ACTIVE" =>
       \A i \in DOMAIN sent :
          (sent[i].to # Vault /\ sent[i].state = "landed") =>
             \/ Claimed(sent[i].tier, sent[i].to)
             \/ \E r \in Requests : work[r].tx = i
             \/ i \in lost

\* What the page offers and what claimMedal enforces are two pieces of code: a
\* medal's button is live exactly when a claim would pass every check on the
\* rows.
OfferMatchesGuard ==
    event = "ACTIVE" => \A t \in Tier, w \in Wallets : ClaimOffered(t, w) <=> MayClaim(t, w)

=============================================================================

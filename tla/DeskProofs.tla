------------------------------- MODULE DeskProofs -------------------------------
(***************************************************************************)
(* Proofs about the four parts of the desk - medals, fee quotes, the       *)
(* wallet-signed mint, likes and albums - for any tiers, people, assets,   *)
(* price sources, magnitudes, balances and number of requests under way.   *)
(***************************************************************************)
EXTENDS MCDesk, FiniteSetTheorems, WellFoundedInduction, TLAPS

-----------------------------------------------------------------------------
(* Medals.                                                                 *)
(*                                                                         *)
(* A handler acts on what it has read, and the rows, the points and the    *)
(* chain move on meanwhile.  The invariant says of each handler what is    *)
(* still true of it, whatever the others have done since: HandSound.       *)
(* Nothing but the event's own creation takes any of it back: Forward.     *)

MintSteps == {"mint", "mintRow", "mintLink"}
RowSteps == {"claimCount", "claimOwner", "claimLedger"}
ClaimSteps == {"claim", "claimRow"} \cup RowSteps

\* What stays true of a handler at work.
HandSound(h) ==
    /\ h.step \in {"idle", "grant", "send"} => h.tx = 0
    /\ h.step \in MintSteps =>
          /\ h.tier \in Tier /\ h.asset \in Assets /\ h.tx \in DOMAIN sent
          /\ sent[h.tx].asset = h.asset /\ sent[h.tx].to = Vault
    /\ h.step = "mintRow" => owner[h.asset] # NoOne
    /\ h.step = "mintLink" => nft[h.asset] # NoOne
    /\ h.step \in {"send"} \cup ClaimSteps =>
          h.tier \in Tier /\ h.asset \in Assets /\ h.wallet \in Wallets /\ owner[h.asset] # NoOne
    /\ h.step = "send" => <<h.tier, h.wallet>> \in reached
    /\ h.step \in ClaimSteps =>
          h.tx \in DOMAIN sent /\ sent[h.tx].to = h.wallet /\ sent[h.tx].tier = h.tier
    /\ (event = "ACTIVE" /\ h.step \in RowSteps) => Claimed(h.tier, h.wallet)

HandsSound == \A r \in Requests : HandSound(work[r])

\* Nothing has happened before the event exists.
BeforeEvent ==
    event = "none" =>
       /\ DOMAIN points = {} /\ claim = {} /\ sent = <<>>
       /\ \A r \in Requests : work[r] = Idle

\* Whoever has the points for a tier now has had them.
PointsReached ==
    \A w \in DOMAIN points, t \in Tier :
       points[w] >= medal[t].required => <<t, w>> \in reached

AssetsExist == \A a \in Assets : nft[a] # NoOne => owner[a] # NoOne
MedalsHaveRows == \A t \in Tier : medal[t].nft # NoOne => nft[medal[t].nft] # NoOne

\* A transaction that landed has left its asset with somebody.
LandedExists ==
    \A i \in DOMAIN sent : sent[i].state = "landed" => owner[sent[i].asset] # NoOne

\* The handlers that have written a claim of a tier and not yet counted it,
\* and the claims of a tier.
Uncounted(t) == {r \in Requests : work[r].step = "claimCount" /\ work[r].tier = t}
ClaimsOf(t) == {c \in claim : c.tier = t}

\* The count is behind the claims by the handlers still to count, at least.
CountsBehind ==
    /\ IsFiniteSet(claim)
    /\ event = "ACTIVE" =>
          \A t \in Tier :
             medal[t].claimed + Cardinality(Uncounted(t)) <= Cardinality(ClaimsOf(t))

\* Landed or not, a medal sent away has its claim, or its handler, or is lost.
SentIsAnswered ==
    event = "ACTIVE" =>
       \A i \in DOMAIN sent :
          sent[i].to # Vault =>
             \/ Claimed(sent[i].tier, sent[i].to)
             \/ \E r \in Requests : work[r].tx = i
             \/ i \in lost

MedalInv ==
    /\ MedalTypeOK /\ HandsSound /\ BeforeEvent /\ PointsReached /\ EarnedOnly
    /\ LandedExists /\ AssetsExist /\ MedalsHaveRows /\ CountsBehind /\ SentIsAnswered

\* What a step of anybody leaves behind for the others.
Forward ==
    /\ event' = "ACTIVE" => event = "ACTIVE" /\ claim \subseteq claim'
    /\ \A i \in DOMAIN sent :
          /\ i \in DOMAIN sent'
          /\ sent'[i].asset = sent[i].asset /\ sent'[i].to = sent[i].to
          /\ sent'[i].tier = sent[i].tier
    /\ \A a \in Assets : owner[a] # NoOne => owner'[a] # NoOne
    /\ \A a \in Assets : nft[a] # NoOne => nft'[a] # NoOne
    /\ reached \subseteq reached'

\* A step that goes forward leaves the other handlers sound.
LEMMA HandsKept ==
    ASSUME Forward, HandsSound, NEW r \in Requests, HandSound(work[r])',
           \A q \in Requests \ {r} : work'[q] = work[q]
    PROVE  HandsSound'
<1>1. SUFFICES ASSUME NEW q \in Requests \ {r} PROVE HandSound(work[q])'
  BY DEF HandsSound
<1>2. HandSound(work[q]) /\ work'[q] = work[q]
  BY DEF HandsSound
<1>. QED
  BY <1>2 DEF Forward, HandSound, MintSteps, ClaimSteps, RowSteps, Claimed

LEMMA AllHandsKept ==
    ASSUME Forward, HandsSound, \A q \in Requests : work'[q] = work[q]
    PROVE  HandsSound'
<1>1. SUFFICES ASSUME NEW q \in Requests PROVE HandSound(work[q])'
  BY DEF HandsSound
<1>2. HandSound(work[q]) /\ work'[q] = work[q]
  BY DEF HandsSound
<1>. QED
  BY <1>2 DEF Forward, HandSound, MintSteps, ClaimSteps, RowSteps, Claimed

\* A request that is neither about to count a claim nor has just been leaves
\* the count where it is.
LEMMA CountKept ==
    ASSUME CountsBehind, NEW r \in Requests, event' = event, claim' = claim,
           \A t \in Tier : medal'[t].claimed = medal[t].claimed,
           \A q \in Requests \ {r} : work'[q] = work[q],
           work[r].step # "claimCount", work'[r].step # "claimCount"
    PROVE  CountsBehind'
<1>1. \A t : Uncounted(t)' = Uncounted(t)
  BY DEF Uncounted
<1>2. \A t : ClaimsOf(t)' = ClaimsOf(t)
  BY DEF ClaimsOf
<1>3. \A t : Cardinality(Uncounted(t)') = Cardinality(Uncounted(t))
  BY <1>1
<1>4. \A t : Cardinality(ClaimsOf(t)') = Cardinality(ClaimsOf(t))
  BY <1>2
<1>. QED
  BY <1>3, <1>4 DEF CountsBehind

\* Nor does a step of no handler at all.
LEMMA CountUntouched ==
    ASSUME CountsBehind, event' = event, claim' = claim, medal' = medal, work' = work
    PROVE  CountsBehind'
<1>1. \A t : Uncounted(t)' = Uncounted(t)
  BY DEF Uncounted
<1>2. \A t : ClaimsOf(t)' = ClaimsOf(t)
  BY DEF ClaimsOf
<1>3. \A t : Cardinality(Uncounted(t)') = Cardinality(Uncounted(t))
  BY <1>1
<1>4. \A t : Cardinality(ClaimsOf(t)') = Cardinality(ClaimsOf(t))
  BY <1>2
<1>. QED
  BY <1>3, <1>4 DEF CountsBehind

\* A handler may end once its medal is claimed, or lost, or was never sent.
LEMMA AnswersKept ==
    ASSUME SentIsAnswered, NEW r \in Requests, event' = event, claim \subseteq claim',
           lost \subseteq lost', \A q \in Requests \ {r} : work'[q] = work[q],
           \A i \in DOMAIN sent' :
              sent'[i].to # Vault =>
                 \/ i \in DOMAIN sent /\ sent'[i].to = sent[i].to /\ sent'[i].tier = sent[i].tier
                 \/ work'[r].tx = i,
           \A i \in DOMAIN sent :
              (event = "ACTIVE" /\ work[r].tx = i /\ sent[i].to # Vault) =>
                 \/ work'[r].tx = i
                 \/ Claimed(sent[i].tier, sent[i].to)
                 \/ i \in lost'
    PROVE  SentIsAnswered'
<1>1. SUFFICES ASSUME event' = "ACTIVE", NEW i \in DOMAIN sent', sent'[i].to # Vault,
                      work'[r].tx # i, i \notin lost'
               PROVE  \/ Claimed(sent[i].tier, sent[i].to)'
                      \/ \E q \in Requests : work'[q].tx = i
  BY DEF SentIsAnswered, Claimed
<1>2. i \in DOMAIN sent /\ sent'[i].to = sent[i].to /\ sent'[i].tier = sent[i].tier
  BY <1>1
<1>3. event = "ACTIVE" /\ sent[i].to # Vault /\ i \notin lost
  BY <1>1, <1>2
<1>4. CASE Claimed(sent[i].tier, sent[i].to)
  BY <1>2, <1>4 DEF Claimed
<1>5. CASE \E q \in Requests : work[q].tx = i
  <2>1. PICK q \in Requests : work[q].tx = i
    BY <1>5
  <2>2. CASE q = r
    BY <1>1, <1>2, <1>3, <2>1, <2>2 DEF Claimed
  <2>3. CASE q # r
    BY <2>1, <2>3
  <2>. QED
    BY <2>2, <2>3
<1>. QED
  BY <1>2, <1>3, <1>4, <1>5 DEF SentIsAnswered

\* What a request's new record must be for the variable to keep its type.
Hand == [step : Steps, tier : Tier \cup {None}, wallet : Wallets \cup {NoOne},
         asset : Assets \cup {NoOne}, points : 0..MaxPoints, tx : 0..MaxSent,
         confirmed : BOOLEAN]

LEMMA IdleIsAHand == ASSUME MedalAssumption PROVE Idle \in Hand
  BY DEF MedalAssumption, Idle, Hand, Steps, None

LEMMA HandsTyped ==
    ASSUME MedalTypeOK, NEW r \in Requests
    PROVE  /\ work \in [Requests -> Hand] /\ work[r] \in Hand
           /\ \A x : work' = [work EXCEPT ![r] = x] =>
                 work'[r] = x /\ \A q \in Requests \ {r} : work'[q] = work[q]
           /\ \A x \in Hand : work' = [work EXCEPT ![r] = x] => work' \in [Requests -> Hand]
  BY DEF MedalTypeOK, Hand

\* A transaction's record, and a medal's row.
Sending == [asset : Assets, tier : Tier, to : Wallets \cup {Vault},
            state : {"flying", "landed", "dropped"}]
MedalRow == [required : Nat, supply : Nat, claimed : Nat, nft : Assets \cup {NoOne}]

LEMMA RowsTyped ==
    ASSUME MedalTypeOK
    PROVE  /\ sent \in Seq(Sending) /\ \A i \in DOMAIN sent : sent[i] \in Sending
           /\ medal \in [Tier -> MedalRow] /\ \A t \in Tier : medal[t] \in MedalRow
<1>1. sent \in Seq(Sending) /\ medal \in [Tier -> MedalRow]
  BY DEF MedalTypeOK, Sending, MedalRow
<1>. QED
  BY <1>1

\* A step of a handler that only changes its own record.
LEMMA OnlyWork ==
    ASSUME MedalAssumption, MedalInv, NEW r \in Requests, NEW x \in Hand,
           work' = [work EXCEPT ![r] = x], HandSound(x),
           event # "none", work[r].step # "claimCount", x.step # "claimCount",
           UNCHANGED <<rowVars, chainVars, reached, lost>>,
           \A i \in DOMAIN sent :
              (event = "ACTIVE" /\ work[r].tx = i /\ sent[i].to # Vault) => x.tx = i
    PROVE  MedalInv'
<1>. USE DEF MedalInv
<1>1. /\ work' \in [Requests -> Hand] /\ work'[r] = x
      /\ \A q \in Requests \ {r} : work'[q] = work[q]
  BY HandsTyped
<1>2. UNCHANGED <<event, medal, points, claim, nft, ledger, owner, sent, reached, lost>>
  BY DEF rowVars, chainVars
<1>3. MedalTypeOK'
  BY <1>1, <1>2 DEF MedalTypeOK, Hand
<1>4. Forward
  BY <1>2 DEF Forward
<1>5. HandSound(work[r])'
  BY <1>1, <1>2 DEF HandSound, Claimed
<1>6. HandsSound'
  BY <1>1, <1>4, <1>5, HandsKept
<1>7. CountsBehind'
  BY <1>1, <1>2, CountKept
<1>8. SentIsAnswered'
  BY <1>1, <1>2, AnswersKept
<1>9. BeforeEvent' /\ PointsReached' /\ EarnedOnly' /\ LandedExists' /\ AssetsExist' /\ MedalsHaveRows'
  BY <1>2 DEF BeforeEvent, PointsReached, EarnedOnly, LandedExists, AssetsExist, MedalsHaveRows
<1>. QED
  BY <1>3, <1>6, <1>7, <1>8, <1>9
-----------------------------------------------------------------------------
(* The event and its points.                                                 *)

LEMMA MedalInitSound == ASSUME MedalAssumption, MedalInit PROVE MedalInv
<1>. USE DEF MedalInit
<1>1. MedalTypeOK
  <2>1. work \in [Requests -> Hand]
    BY IdleIsAHand
  <2>2. /\ medal \in [Tier -> [required : Nat, supply : Nat, claimed : Nat,
                               nft : Assets \cup {NoOne}]]
        /\ DOMAIN points = {} /\ sent \in Seq([asset : Assets, tier : Tier, to : Wallets \cup {Vault},
                                    state : {"flying", "landed", "dropped"}])
        /\ Len(sent) <= MaxSent
    BY DEF MedalAssumption
  <2>. QED
    BY <2>1, <2>2 DEF MedalTypeOK, Hand
<1>2. HandsSound
  BY DEF HandsSound, HandSound, Idle, MintSteps, ClaimSteps, RowSteps, None
<1>3. CountsBehind
  BY FS_EmptySet DEF CountsBehind
<1>4. BeforeEvent /\ PointsReached /\ EarnedOnly /\ LandedExists /\ AssetsExist /\ MedalsHaveRows /\ SentIsAnswered
  BY DEF BeforeEvent, PointsReached, EarnedOnly, LandedExists, AssetsExist, MedalsHaveRows, SentIsAnswered
<1>. QED
  BY <1>1, <1>2, <1>3, <1>4 DEF MedalInv

\* Before its creation nothing has happened that the event could contradict.
LEMMA CreateEventKeeps ==
    ASSUME MedalAssumption, MedalInv, NEW config \in Configs, CreateEvent(config)
    PROVE  MedalInv'
<1>. USE DEF MedalInv
<1>1. /\ event = "none" /\ event' = "ACTIVE"
      /\ medal' = [t \in Tier |-> [required |-> config[t].required, nft |-> NoOne,
                                   supply |-> config[t].supply, claimed |-> 0]]
      /\ \A t \in Tier : config[t].required \in Nat /\ config[t].supply \in Nat
      /\ UNCHANGED <<points, claim, nft, ledger, owner, sent, reached, lost, work>>
  BY DEF CreateEvent, ValidTierConfig, chainVars
<1>2. /\ DOMAIN points = {} /\ claim = {} /\ sent = <<>>
      /\ \A r \in Requests : work[r] = Idle
  BY <1>1 DEF BeforeEvent
<1>3. MedalTypeOK'
  <2>1. medal' \in [Tier -> [required : Nat, supply : Nat, claimed : Nat,
                             nft : Assets \cup {NoOne}]]
    BY <1>1
  <2>. QED
    BY <1>1, <2>1 DEF MedalTypeOK
<1>4. HandsSound'
  BY <1>1, <1>2 DEF HandsSound, HandSound, Idle, MintSteps, ClaimSteps, RowSteps, None
<1>5. CountsBehind'
  <2>1. \A t : Uncounted(t)' = {}
    BY <1>1, <1>2 DEF Uncounted, Idle
  <2>2. \A t : ClaimsOf(t)' = {}
    BY <1>1, <1>2 DEF ClaimsOf
  <2>3. \A t : Cardinality(Uncounted(t)') = 0 /\ Cardinality(ClaimsOf(t)') = 0
    BY <2>1, <2>2, FS_EmptySet
  <2>4. \A t \in Tier : medal'[t].claimed = 0
    BY <1>1
  <2>5. IsFiniteSet(claim')
    BY <1>1, <1>2, FS_EmptySet
  <2>. QED
    BY <2>3, <2>4, <2>5 DEF CountsBehind
<1>6. BeforeEvent' /\ PointsReached' /\ EarnedOnly' /\ LandedExists' /\ AssetsExist' /\ SentIsAnswered'
  BY <1>1, <1>2 DEF BeforeEvent, PointsReached, EarnedOnly, LandedExists, AssetsExist, SentIsAnswered
<1>7. MedalsHaveRows'
  BY <1>1 DEF MedalsHaveRows
<1>. QED
  BY <1>3, <1>4, <1>5, <1>6, <1>7

LEMMA DeleteEventKeeps ==
    ASSUME MedalAssumption, MedalInv, DeleteEvent
    PROVE  MedalInv'
<1>. USE DEF MedalInv
<1>1. /\ event' = "deleted" /\ DOMAIN points' = {} /\ claim' = {}
      /\ UNCHANGED <<medal, nft, ledger, owner, sent, reached, lost, work>>
  BY DEF DeleteEvent, chainVars
<1>2. MedalTypeOK'
  BY <1>1 DEF MedalTypeOK
<1>3. Forward
  BY <1>1 DEF Forward
<1>4. HandsSound'
  BY <1>1, <1>3, AllHandsKept
<1>5. CountsBehind'
  BY <1>1, FS_EmptySet DEF CountsBehind
<1>6. BeforeEvent' /\ PointsReached' /\ EarnedOnly' /\ LandedExists' /\ AssetsExist' /\ MedalsHaveRows' /\ SentIsAnswered'
  BY <1>1 DEF BeforeEvent, PointsReached, EarnedOnly, LandedExists, AssetsExist, MedalsHaveRows, SentIsAnswered
<1>. QED
  BY <1>2, <1>4, <1>5, <1>6

\* Whatever the points become, whoever now has enough of them is noted.
LEMMA ReachedIsNoted ==
    ASSUME medal' = medal, reached' = reached \cup Reaching(points', medal)
    PROVE  PointsReached' /\ reached \subseteq reached'
<1>1. \A w \in DOMAIN points', t \in Tier :
         points'[w] >= medal[t].required => <<t, w>> \in Reaching(points', medal)
  BY DEF Reaching
<1>. QED
  BY <1>1 DEF PointsReached

LEMMA JoinEventKeeps ==
    ASSUME MedalAssumption, MedalInv, NEW w \in Wallets, JoinEvent(w)
    PROVE  MedalInv'
<1>. USE DEF MedalInv
<1>1. /\ event = "ACTIVE"
      /\ points' = [v \in DOMAIN points \cup {w} |-> IF v = w THEN 0 ELSE points[v]]
      /\ reached' = reached \cup Reaching(points', medal)
      /\ UNCHANGED <<event, medal, claim, nft, ledger, owner, sent, lost, work>>
  BY DEF JoinEvent, chainVars
<1>2. PointsReached' /\ reached \subseteq reached'
  BY <1>1, ReachedIsNoted
<1>3. MedalTypeOK'
  <2>1. DOMAIN points' \subseteq Wallets
    BY <1>1 DEF MedalTypeOK
  <2>2. \A v \in DOMAIN points' : points'[v] \in 0..MaxPoints
    BY <1>1 DEF MedalTypeOK, MedalAssumption
  <2>3. reached' \subseteq Tier \X Wallets
    BY <1>1, <2>1 DEF MedalTypeOK, Reaching
  <2>. QED
    BY <1>1, <2>1, <2>2, <2>3 DEF MedalTypeOK
<1>4. Forward
  BY <1>1, <1>2 DEF Forward
<1>5. HandsSound'
  BY <1>1, <1>4, AllHandsKept
<1>6. CountsBehind'
  BY <1>1, CountUntouched
<1>7. BeforeEvent' /\ EarnedOnly' /\ LandedExists' /\ AssetsExist' /\ MedalsHaveRows' /\ SentIsAnswered'
  BY <1>1 DEF BeforeEvent, EarnedOnly, LandedExists, AssetsExist, MedalsHaveRows, SentIsAnswered, Claimed
<1>. QED
  BY <1>2, <1>3, <1>5, <1>6, <1>7

LEMMA GrantReadKeeps ==
    ASSUME MedalAssumption, MedalInv, NEW r \in Requests, GrantRead(r)
    PROVE  MedalInv'
<1>1. PICK w \in DOMAIN points, delta \in Grants :
        /\ points[w] + delta <= MaxPoints
        /\ Start(r, [Idle EXCEPT !.step = "grant", !.wallet = w,
                                 !.points = Clamped(points[w] + delta)])
        /\ UNCHANGED <<rowVars, chainVars, reached, lost>>
  BY DEF GrantRead
<1>. DEFINE x == [Idle EXCEPT !.step = "grant", !.wallet = w,
                              !.points = Clamped(points[w] + delta)]
<1>2. MedalTypeOK /\ BeforeEvent
  BY DEF MedalInv
<1>3. points[w] \in Int /\ delta \in Int /\ MaxPoints \in Nat /\ w \in Wallets
  BY <1>2 DEF MedalTypeOK, MedalAssumption
<1>4. Clamped(points[w] + delta) \in 0..MaxPoints
  BY <1>1, <1>3 DEF Clamped
<1>5. x \in Hand /\ x.step = "grant" /\ x.tx = 0
  <2>1. Idle \in Hand /\ Idle.tx = 0
    BY IdleIsAHand DEF Idle, None
  <2>2. "grant" \in Steps
    BY DEF Steps
  <2>. QED
    BY <1>3, <1>4, <2>1, <2>2 DEF Hand
<1>6. work[r] = Idle /\ work' = [work EXCEPT ![r] = x]
  BY <1>1 DEF Start
<1>. HIDE DEF x
<1>7. HandSound(x)
  BY <1>5 DEF HandSound, MintSteps, ClaimSteps, RowSteps
<1>8. event # "none"
  BY <1>2 DEF BeforeEvent
<1>9. work[r].step # "claimCount" /\ \A i \in DOMAIN sent : work[r].tx # i
  BY <1>6, <1>2 DEF Idle, None, MedalTypeOK
<1>. QED
  BY <1>1, <1>5, <1>6, <1>7, <1>8, <1>9, OnlyWork

LEMMA GrantWriteKeeps ==
    ASSUME MedalAssumption, MedalInv, NEW r \in Requests, GrantWrite(r)
    PROVE  MedalInv'
<1>. USE DEF MedalInv
<1>1. /\ work[r].step = "grant" /\ work[r].wallet \in DOMAIN points
      /\ points' = [points EXCEPT ![work[r].wallet] = work[r].points]
      /\ reached' = reached \cup Reaching(points', medal)
      /\ work' = [work EXCEPT ![r] = Idle]
      /\ UNCHANGED <<event, medal, claim, nft, ledger, owner, sent, lost>>
  BY DEF GrantWrite, Ends, chainVars
<1>2. PointsReached' /\ reached \subseteq reached'
  BY <1>1, ReachedIsNoted
<1>3. /\ work' \in [Requests -> Hand] /\ work'[r] = Idle /\ work[r] \in Hand
      /\ \A q \in Requests \ {r} : work'[q] = work[q]
  BY <1>1, IdleIsAHand, HandsTyped
<1>4. event # "none"
  BY <1>1 DEF BeforeEvent, Idle
<1>5. MedalTypeOK'
  <2>1. DOMAIN points' = DOMAIN points /\ \A v \in DOMAIN points' : points'[v] \in 0..MaxPoints
    BY <1>1, <1>3 DEF MedalTypeOK, Hand
  <2>2. reached' \subseteq Tier \X Wallets
    BY <1>1, <2>1 DEF MedalTypeOK, Reaching
  <2>. QED
    BY <1>1, <1>3, <2>1, <2>2 DEF MedalTypeOK, Hand
<1>6. Forward
  BY <1>1, <1>2 DEF Forward
<1>7. HandSound(work[r])'
  BY <1>3 DEF HandSound, Idle, MintSteps, ClaimSteps, RowSteps, None
<1>8. HandsSound'
  BY <1>3, <1>6, <1>7, HandsKept
<1>9. CountsBehind'
  BY <1>1, <1>3, CountKept DEF Idle
<1>10. SentIsAnswered'
  <2>1. work[r].tx = 0
    BY <1>1 DEF HandsSound, HandSound
  <2>2. \A i \in DOMAIN sent : i # 0
    BY DEF MedalTypeOK
  <2>. QED
    BY <1>1, <1>3, <2>1, <2>2, AnswersKept
<1>11. BeforeEvent' /\ EarnedOnly' /\ LandedExists' /\ AssetsExist' /\ MedalsHaveRows'
  BY <1>1, <1>2, <1>4 DEF BeforeEvent, EarnedOnly, LandedExists, AssetsExist, MedalsHaveRows
<1>. QED
  BY <1>2, <1>5, <1>8, <1>9, <1>10, <1>11
-----------------------------------------------------------------------------
(* The chain.                                                                *)

LEMMA LandsKeeps ==
    ASSUME MedalAssumption, MedalInv, Lands
    PROVE  MedalInv'
<1>. USE DEF MedalInv
<1>1. UNCHANGED <<event, medal, points, claim, nft, ledger, reached, lost, work>>
  BY DEF Lands, rowVars
<1>2. PICK i \in DOMAIN sent :
        \/ /\ sent' = [sent EXCEPT ![i].state = "landed"]
           /\ owner' = [owner EXCEPT ![sent[i].asset] = sent[i].to]
        \/ sent' = [sent EXCEPT ![i].state = "dropped"] /\ owner' = owner
  BY DEF Lands, Executes, Drops
<1>13. /\ sent \in Seq(Sending) /\ \A j \in DOMAIN sent : sent[j] \in Sending
       /\ owner \in [Assets -> Wallets \cup {Vault, NoOne}]
  BY RowsTyped DEF MedalTypeOK
<1>14. /\ \A j \in DOMAIN sent : sent[j].asset \in Assets
       /\ sent[i].to \in Wallets \cup {Vault} /\ sent[i].to # NoOne
  BY <1>13 DEF MedalAssumption, Sending
<1>3. \A a \in Assets : owner[a] # NoOne => owner'[a] # NoOne
  BY <1>2, <1>13, <1>14
<1>16. PICK s \in {"landed", "dropped"} :
         /\ sent' = [sent EXCEPT ![i] = [sent[i] EXCEPT !.state = s]]
         /\ s = "landed" => owner' = [owner EXCEPT ![sent[i].asset] = sent[i].to]
  BY <1>2
<1>. DEFINE x == [sent[i] EXCEPT !.state = s]
<1>17. x \in Sending /\ x.asset = sent[i].asset /\ x.to = sent[i].to /\ x.tier = sent[i].tier
       /\ x.state = s
  BY <1>13 DEF Sending
<1>. HIDE DEF x
<1>18. sent' = [sent EXCEPT ![i] = x]
  BY <1>16 DEF x
<1>19. /\ sent' \in Seq(Sending) /\ Len(sent') = Len(sent) /\ DOMAIN sent' = DOMAIN sent
       /\ \A j \in DOMAIN sent : sent'[j] = IF j = i THEN x ELSE sent[j]
  BY <1>13, <1>17, <1>18
<1>4. /\ DOMAIN sent' = DOMAIN sent
      /\ \A j \in DOMAIN sent : /\ sent'[j].asset = sent[j].asset /\ sent'[j].to = sent[j].to
                                /\ sent'[j].tier = sent[j].tier
  BY <1>17, <1>19
<1>5. MedalTypeOK'
  <2>1. owner' \in [Assets -> Wallets \cup {Vault, NoOne}]
    BY <1>2, <1>13, <1>14
  <2>. QED
    BY <1>1, <1>19, <2>1 DEF MedalTypeOK, Sending
<1>6. Forward
  BY <1>1, <1>3, <1>4 DEF Forward
<1>7. HandsSound'
  BY <1>1, <1>6, AllHandsKept
<1>8. CountsBehind'
  BY <1>1, CountUntouched
<1>9. event # "none"
  BY <1>2 DEF BeforeEvent
<1>10. BeforeEvent' /\ PointsReached' /\ EarnedOnly' /\ MedalsHaveRows'
  BY <1>1, <1>4, <1>9 DEF BeforeEvent, PointsReached, EarnedOnly, MedalsHaveRows
<1>11. AssetsExist'
  BY <1>1, <1>3 DEF AssetsExist
<1>12. SentIsAnswered'
  BY <1>1, <1>4 DEF SentIsAnswered, Claimed
<1>15. LandedExists'
  <2>1. SUFFICES ASSUME NEW j \in DOMAIN sent, sent'[j].state = "landed"
                 PROVE  owner'[sent[j].asset] # NoOne
    BY <1>4 DEF LandedExists
  <2>2. sent[j].asset \in Assets
    BY <1>14
  <2>3. CASE sent[j].state = "landed"
    BY <1>3, <2>2, <2>3 DEF LandedExists
  <2>4. CASE sent[j].state # "landed"
    <3>1. j = i /\ owner' = [owner EXCEPT ![sent[i].asset] = sent[i].to]
      BY <1>16, <1>17, <1>19, <2>1, <2>4
    <3>. QED
      BY <1>13, <1>14, <2>2, <3>1
  <2>. QED
    BY <2>3, <2>4
<1>. QED
  BY <1>5, <1>7, <1>8, <1>10, <1>11, <1>12, <1>15

LEMMA GivesBackKeeps ==
    ASSUME MedalAssumption, MedalInv, NEW a \in Assets, GivesBack(a)
    PROVE  MedalInv'
<1>. USE DEF MedalInv
<1>1. /\ owner' = [owner EXCEPT ![a] = Vault]
      /\ UNCHANGED <<event, medal, points, claim, nft, ledger, sent, reached, lost, work>>
  BY DEF GivesBack, rowVars
<1>2. \A b \in Assets : owner[b] # NoOne => owner'[b] # NoOne
  BY <1>1 DEF MedalTypeOK, MedalAssumption
<1>3. MedalTypeOK'
  BY <1>1 DEF MedalTypeOK
<1>4. Forward
  BY <1>1, <1>2 DEF Forward
<1>5. HandsSound'
  BY <1>1, <1>4, AllHandsKept
<1>6. CountsBehind'
  BY <1>1, CountUntouched
<1>7. BeforeEvent' /\ PointsReached' /\ EarnedOnly' /\ MedalsHaveRows' /\ SentIsAnswered'
  BY <1>1 DEF BeforeEvent, PointsReached, EarnedOnly, MedalsHaveRows, SentIsAnswered, Claimed
<1>8. AssetsExist' /\ LandedExists'
  BY <1>1, <1>2 DEF AssetsExist, LandedExists, MedalTypeOK
<1>. QED
  BY <1>3, <1>5, <1>6, <1>7, <1>8

\* A transaction more: the others keep their places.
LEMMA SendsTyped ==
    ASSUME MedalAssumption, MedalTypeOK, NEW a \in Assets, NEW t \in Tier,
           NEW w \in Wallets \cup {Vault}, Sends(a, t, w)
    PROVE  /\ sent' \in Seq([asset : Assets, tier : Tier, to : Wallets \cup {Vault},
                             state : {"flying", "landed", "dropped"}])
           /\ Len(sent') <= MaxSent
           /\ Len(sent) + 1 \in 1..MaxSent
           /\ DOMAIN sent' = DOMAIN sent \cup {Len(sent) + 1}
           /\ Len(sent) + 1 \notin DOMAIN sent
           /\ \A i \in DOMAIN sent : sent'[i] = sent[i]
           /\ sent'[Len(sent) + 1] = [asset |-> a, tier |-> t, to |-> w, state |-> "flying"]
<1>. DEFINE x == [asset |-> a, tier |-> t, to |-> w, state |-> "flying"]
            T == [asset : Assets, tier : Tier, to : Wallets \cup {Vault},
                  state : {"flying", "landed", "dropped"}]
<1>1. x \in T
  OBVIOUS
<1>2. sent \in Seq(T) /\ Len(sent) <= MaxSent
  BY DEF MedalTypeOK
<1>3. sent' = Append(sent, x) /\ Len(sent) < MaxSent
  BY DEF Sends
<1>4. MaxSent \in Nat
  BY DEF MedalAssumption
<1>. HIDE DEF x, T
<1>5. /\ sent' \in Seq(T) /\ Len(sent') = Len(sent) + 1 /\ Len(sent) \in Nat
      /\ sent'[Len(sent) + 1] = x
      /\ \A i \in DOMAIN sent : sent'[i] = sent[i]
      /\ DOMAIN sent' = DOMAIN sent \cup {Len(sent) + 1}
      /\ Len(sent) + 1 \notin DOMAIN sent
  BY <1>1, <1>2, <1>3
<1>. QED
  BY <1>3, <1>4, <1>5 DEF x, T
-----------------------------------------------------------------------------
(* mintMedals.                                                               *)

LEMMA MintSendKeeps ==
    ASSUME MedalAssumption, MedalInv, NEW r \in Requests, MintSend(r)
    PROVE  MedalInv'
<1>. USE DEF MedalInv
<1>1. PICK t \in Unminted, a \in Assets :
        /\ Sends(a, t, Vault)
        /\ Start(r, [Idle EXCEPT !.step = "mint", !.tier = t, !.asset = a, !.tx = Len(sent) + 1])
  BY DEF MintSend
<1>2. /\ event = "ACTIVE"
      /\ UNCHANGED <<event, medal, points, claim, nft, ledger, owner, reached, lost>>
  BY DEF MintSend, rowVars
<1>3. t \in Tier
  BY DEF Unminted
<1>4. /\ Len(sent') <= MaxSent /\ Len(sent) + 1 \in 1..MaxSent
      /\ sent' \in Seq([asset : Assets, tier : Tier, to : Wallets \cup {Vault},
                        state : {"flying", "landed", "dropped"}])
      /\ DOMAIN sent' = DOMAIN sent \cup {Len(sent) + 1} /\ Len(sent) + 1 \notin DOMAIN sent
      /\ \A i \in DOMAIN sent : sent'[i] = sent[i]
      /\ sent'[Len(sent) + 1] = [asset |-> a, tier |-> t, to |-> Vault, state |-> "flying"]
  BY <1>1, <1>3, SendsTyped
<1>. DEFINE x == [Idle EXCEPT !.step = "mint", !.tier = t, !.asset = a, !.tx = Len(sent) + 1]
<1>5. work[r] = Idle /\ work' = [work EXCEPT ![r] = x]
  BY <1>1 DEF Start
<1>6. x \in Hand
  <2>1. Len(sent) + 1 \in 0..MaxSent
    BY <1>4 DEF MedalAssumption
  <2>2. "mint" \in Steps
    BY DEF Steps
  <2>. QED
    BY <1>3, <2>1, <2>2, IdleIsAHand DEF Hand
<1>7. x.step = "mint" /\ x.tier = t /\ x.asset = a /\ x.tx = Len(sent) + 1
  BY <1>3, <1>4, IdleIsAHand DEF Hand
<1>. HIDE DEF x
<1>8. /\ work' \in [Requests -> Hand] /\ work'[r] = x
      /\ \A q \in Requests \ {r} : work'[q] = work[q]
  BY <1>5, <1>6, HandsTyped
<1>9. MedalTypeOK'
  BY <1>2, <1>4, <1>8 DEF MedalTypeOK, Hand
<1>10. Forward
  BY <1>2, <1>4 DEF Forward
<1>11. HandSound(work[r])'
  BY <1>3, <1>4, <1>7, <1>8 DEF HandSound, MintSteps, ClaimSteps, RowSteps
<1>12. HandsSound'
  BY <1>8, <1>10, <1>11, HandsKept
<1>13. CountsBehind'
  BY <1>2, <1>5, <1>7, <1>8, CountKept DEF Idle
<1>14. SentIsAnswered'
  <2>1. \A i \in DOMAIN sent : work[r].tx # i
    BY <1>5 DEF Idle, None, MedalTypeOK
  <2>2. \A i \in DOMAIN sent' : i \in DOMAIN sent \/ work'[r].tx = i
    BY <1>4, <1>7, <1>8
  <2>. QED
    BY <1>2, <1>4, <1>8, <2>1, <2>2, AnswersKept
<1>15. EarnedOnly' /\ LandedExists'
  BY <1>2, <1>4 DEF EarnedOnly, LandedExists
<1>16. BeforeEvent' /\ PointsReached' /\ AssetsExist' /\ MedalsHaveRows'
  BY <1>2 DEF BeforeEvent, PointsReached, AssetsExist, MedalsHaveRows
<1>. QED
  BY <1>9, <1>12, <1>13, <1>14, <1>15, <1>16

\* A handler at a mint's step knows its own transaction.
LEMMA AtMint ==
    ASSUME MedalInv, NEW r \in Requests, work[r].step \in MintSteps
    PROVE  /\ work[r].tier \in Tier /\ work[r].asset \in Assets /\ work[r].tx \in DOMAIN sent
           /\ sent[work[r].tx].asset = work[r].asset /\ sent[work[r].tx].to = Vault
           /\ work[r].step = "mintRow" => owner[work[r].asset] # NoOne
           /\ work[r].step = "mintLink" => nft[work[r].asset] # NoOne
           /\ event # "none"
<1>1. HandSound(work[r]) /\ (event = "none" => work[r] = Idle)
  BY DEF MedalInv, HandsSound, BeforeEvent
<1>2. Idle.step \notin MintSteps
  BY DEF Idle, MintSteps
<1>. QED
  BY <1>1, <1>2 DEF HandSound

LEMMA MintConfirmKeeps ==
    ASSUME MedalAssumption, MedalInv, NEW r \in Requests, MintConfirm(r)
    PROVE  MedalInv'
<1>1. work[r].step = "mint" /\ UNCHANGED <<rowVars, chainVars, reached, lost>>
  BY DEF MintConfirm
<1>2. /\ work[r].tier \in Tier /\ work[r].asset \in Assets /\ work[r].tx \in DOMAIN sent
      /\ sent[work[r].tx].asset = work[r].asset /\ sent[work[r].tx].to = Vault
      /\ event # "none"
  BY <1>1, AtMint DEF MintSteps
<1>3. MedalTypeOK /\ work[r] \in Hand
  BY HandsTyped DEF MedalInv
<1>4. CASE Ends(r)
  <2>1. Idle \in Hand /\ HandSound(Idle) /\ Idle.step # "claimCount"
    BY IdleIsAHand DEF HandSound, Idle, None, MintSteps, ClaimSteps, RowSteps
  <2>. QED
    BY <1>1, <1>2, <1>4, <2>1, OnlyWork DEF Ends
<1>5. CASE sent[work[r].tx].state = "landed" /\ Goes(r, "mintRow")
  <2>. DEFINE x == [work[r] EXCEPT !.step = "mintRow"]
  <2>1. "mintRow" \in Steps
    BY DEF Steps
  <2>2. /\ x \in Hand /\ x.step = "mintRow" /\ x.tier = work[r].tier /\ x.asset = work[r].asset
        /\ x.tx = work[r].tx
    BY <1>3, <2>1 DEF Hand
  <2>3. work' = [work EXCEPT ![r] = x]
    BY <1>5 DEF Goes
  <2>. HIDE DEF x
  <2>4. owner[x.asset] # NoOne
    BY <1>2, <1>5, <2>2 DEF MedalInv, LandedExists
  <2>5. HandSound(x)
    BY <1>2, <2>2, <2>4 DEF HandSound, MintSteps, ClaimSteps, RowSteps
  <2>. QED
    BY <1>1, <1>2, <2>2, <2>3, <2>5, OnlyWork
<1>. QED
  BY <1>4, <1>5 DEF MintConfirm

\* A row for an asset that has landed.
LEMMA MintRowKeeps ==
    ASSUME MedalAssumption, MedalInv, NEW r \in Requests, MintRow(r)
    PROVE  MedalInv'
<1>. USE DEF MedalInv
<1>1. /\ work[r].step = "mintRow"
      /\ nft' = [nft EXCEPT ![work[r].asset] = Vault]
      /\ UNCHANGED <<event, medal, points, claim, ledger, owner, sent, reached, lost>>
  BY DEF MintRow, chainVars
<1>. DEFINE x == [work[r] EXCEPT !.step = "mintLink"]
<1>2. work' = [work EXCEPT ![r] = x]
  BY DEF MintRow, Goes
<1>3. /\ work[r].tier \in Tier /\ work[r].asset \in Assets /\ work[r].tx \in DOMAIN sent
      /\ sent[work[r].tx].asset = work[r].asset /\ sent[work[r].tx].to = Vault
      /\ owner[work[r].asset] # NoOne /\ event # "none"
  BY <1>1, AtMint DEF MintSteps
<1>4. work[r] \in Hand /\ "mintLink" \in Steps
  BY HandsTyped DEF Steps
<1>5. /\ x \in Hand /\ x.step = "mintLink" /\ x.tier = work[r].tier /\ x.asset = work[r].asset
      /\ x.tx = work[r].tx
  BY <1>4 DEF Hand
<1>. HIDE DEF x
<1>6. /\ work' \in [Requests -> Hand] /\ work'[r] = x
      /\ \A q \in Requests \ {r} : work'[q] = work[q]
  BY <1>2, <1>5, HandsTyped
<1>7. nft' \in [Assets -> Wallets \cup {Vault, NoOne}] /\ nft'[work[r].asset] # NoOne
      /\ \A a \in Assets : a # work[r].asset => nft'[a] = nft[a]
  BY <1>1, <1>3 DEF MedalTypeOK, MedalAssumption
<1>8. MedalTypeOK'
  BY <1>1, <1>6, <1>7 DEF MedalTypeOK, Hand
<1>9. Forward
  BY <1>1, <1>7 DEF Forward
<1>10. HandSound(work[r])'
  BY <1>1, <1>3, <1>5, <1>6, <1>7 DEF HandSound, MintSteps, ClaimSteps, RowSteps
<1>11. HandsSound'
  BY <1>6, <1>9, <1>10, HandsKept
<1>12. CountsBehind'
  BY <1>1, <1>5, <1>6, CountKept
<1>13. SentIsAnswered'
  BY <1>1, <1>5, <1>6, AnswersKept
<1>14. AssetsExist' /\ MedalsHaveRows'
  BY <1>1, <1>3, <1>7 DEF AssetsExist, MedalsHaveRows, MedalTypeOK
<1>15. BeforeEvent' /\ PointsReached' /\ EarnedOnly' /\ LandedExists'
  BY <1>1, <1>3 DEF BeforeEvent, PointsReached, EarnedOnly, LandedExists
<1>. QED
  BY <1>8, <1>11, <1>12, <1>13, <1>14, <1>15

\* What ending does to a handler's record.
LEMMA Ended ==
    ASSUME MedalAssumption, MedalInv, NEW r \in Requests, Ends(r)
    PROVE  /\ work' \in [Requests -> Hand] /\ work'[r] = Idle /\ Idle.step # "claimCount"
           /\ \A q \in Requests \ {r} : work'[q] = work[q]
           /\ HandSound(work[r])'
<1>1. /\ work' \in [Requests -> Hand] /\ work'[r] = Idle
      /\ \A q \in Requests \ {r} : work'[q] = work[q]
  BY IdleIsAHand, HandsTyped DEF Ends, MedalInv
<1>. QED
  BY <1>1 DEF HandSound, Idle, None, MintSteps, ClaimSteps, RowSteps

LEMMA MintLinkKeeps ==
    ASSUME MedalAssumption, MedalInv, NEW r \in Requests, MintLink(r)
    PROVE  MedalInv'
<1>. USE DEF MedalInv
<1>1. /\ work[r].step = "mintLink" /\ event = "ACTIVE"
      /\ medal' = [medal EXCEPT ![work[r].tier].nft = work[r].asset]
      /\ UNCHANGED <<event, points, claim, nft, ledger, owner, sent, reached, lost>>
  BY DEF MintLink, chainVars
<1>2. /\ work[r].tier \in Tier /\ work[r].asset \in Assets /\ work[r].tx \in DOMAIN sent
      /\ sent[work[r].tx].to = Vault /\ nft[work[r].asset] # NoOne
  BY <1>1, AtMint DEF MintSteps
<1>3. /\ work' \in [Requests -> Hand] /\ work'[r] = Idle /\ Idle.step # "claimCount"
      /\ \A q \in Requests \ {r} : work'[q] = work[q]
      /\ HandSound(work[r])'
  BY Ended DEF MintLink
<1>. DEFINE m == [medal[work[r].tier] EXCEPT !.nft = work[r].asset]
<1>13. medal \in [Tier -> MedalRow] /\ medal[work[r].tier] \in MedalRow
  BY <1>2, RowsTyped
<1>14. /\ m \in MedalRow /\ m.required = medal[work[r].tier].required
       /\ m.claimed = medal[work[r].tier].claimed /\ m.nft = work[r].asset
  BY <1>2, <1>13 DEF MedalRow
<1>15. medal' = [medal EXCEPT ![work[r].tier] = m]
  BY <1>1
<1>. HIDE DEF m
<1>4. /\ medal' \in [Tier -> MedalRow]
      /\ \A t \in Tier : /\ medal'[t].required = medal[t].required
                         /\ medal'[t].claimed = medal[t].claimed
                         /\ medal'[t].nft = IF t = work[r].tier THEN work[r].asset ELSE medal[t].nft
  BY <1>2, <1>13, <1>14, <1>15
<1>5. MedalTypeOK'
  BY <1>1, <1>3, <1>4 DEF MedalTypeOK, Hand, MedalRow
<1>6. Forward
  BY <1>1 DEF Forward
<1>7. HandsSound'
  BY <1>3, <1>6, HandsKept
<1>8. CountsBehind'
  BY <1>1, <1>3, <1>4, CountKept
<1>9. SentIsAnswered'
  BY <1>1, <1>2, <1>3, AnswersKept
<1>10. MedalsHaveRows'
  BY <1>1, <1>2, <1>4 DEF MedalsHaveRows
<1>11. PointsReached'
  BY <1>1, <1>4 DEF PointsReached
<1>12. BeforeEvent' /\ EarnedOnly' /\ LandedExists' /\ AssetsExist'
  BY <1>1 DEF BeforeEvent, EarnedOnly, LandedExists, AssetsExist
<1>. QED
  BY <1>5, <1>7, <1>8, <1>9, <1>10, <1>11, <1>12
-----------------------------------------------------------------------------
(* claimMedal.                                                               *)

\* A claim under way: its medal exists, and its wallet has earned it.
LEMMA ClaimReadKeeps ==
    ASSUME MedalAssumption, MedalInv, NEW r \in Requests, ClaimRead(r)
    PROVE  MedalInv'
<1>1. PICK t \in Tier, w \in Wallets :
        /\ MayClaim(t, w)
        /\ Start(r, [Idle EXCEPT !.step = "send", !.tier = t, !.wallet = w,
                                 !.asset = medal[t].nft, !.points = points[w]])
        /\ UNCHANGED <<rowVars, chainVars, reached, lost>>
  BY DEF ClaimRead
<1>. DEFINE x == [Idle EXCEPT !.step = "send", !.tier = t, !.wallet = w,
                              !.asset = medal[t].nft, !.points = points[w]]
<1>2. MedalTypeOK /\ medal[t] \in MedalRow
  BY RowsTyped DEF MedalInv
<1>3. /\ event = "ACTIVE" /\ medal[t].nft # NoOne /\ medal[t].nft \in Assets
      /\ w \in DOMAIN points /\ points[w] \in 0..MaxPoints /\ points[w] >= medal[t].required
  BY <1>1, <1>2 DEF MayClaim, MedalRow, MedalTypeOK
<1>4. <<t, w>> \in reached /\ owner[medal[t].nft] # NoOne
  BY <1>3 DEF MedalInv, PointsReached, MedalsHaveRows, AssetsExist
<1>5. "send" \in Steps
  BY DEF Steps
<1>6. /\ x \in Hand /\ x.step = "send" /\ x.tier = t /\ x.wallet = w /\ x.asset = medal[t].nft
      /\ x.tx = Idle.tx
  BY <1>3, <1>5, IdleIsAHand DEF Hand
<1>7. work[r] = Idle /\ work' = [work EXCEPT ![r] = x]
  BY <1>1 DEF Start
<1>8. Idle.tx = 0 /\ Idle.step = "idle"
  BY DEF Idle, None
<1>. HIDE DEF x
<1>9. HandSound(x)
  BY <1>3, <1>4, <1>6, <1>8 DEF HandSound, MintSteps, ClaimSteps, RowSteps
<1>10. work[r].step # "claimCount" /\ \A i \in DOMAIN sent : work[r].tx # i
  BY <1>2, <1>7, <1>8 DEF MedalTypeOK
<1>. QED
  BY <1>1, <1>3, <1>6, <1>7, <1>9, <1>10, OnlyWork

\* What a handler at a claim's step knows.
LEMMA AtClaim ==
    ASSUME MedalInv, NEW r \in Requests, work[r].step \in {"send"} \cup ClaimSteps
    PROVE  /\ work[r] \in Hand /\ event # "none"
           /\ work[r].tier \in Tier /\ work[r].asset \in Assets /\ work[r].wallet \in Wallets
           /\ owner[work[r].asset] # NoOne
           /\ work[r].step = "send" =>
                 work[r].tx = 0 /\ <<work[r].tier, work[r].wallet>> \in reached
           /\ work[r].step # "send" =>
                 /\ work[r].tx \in DOMAIN sent
                 /\ sent[work[r].tx].to = work[r].wallet /\ sent[work[r].tx].tier = work[r].tier
           /\ (work[r].step \in RowSteps /\ event = "ACTIVE") =>
                 Claimed(work[r].tier, work[r].wallet)
<1>1. HandSound(work[r]) /\ (event = "none" => work[r] = Idle) /\ work[r] \in Hand
  BY HandsTyped DEF MedalInv, HandsSound, BeforeEvent
<1>2. Idle.step \notin {"send"} \cup ClaimSteps
  BY DEF Idle, ClaimSteps, RowSteps
<1>. QED
  BY <1>1, <1>2 DEF HandSound

LEMMA ClaimSendKeeps ==
    ASSUME MedalAssumption, MedalInv, NEW r \in Requests, ClaimSend(r)
    PROVE  MedalInv'
<1>. USE DEF MedalInv
<1>. DEFINE h == work[r]
<1>1. /\ h.step = "send"
      /\ UNCHANGED <<event, medal, points, claim, nft, ledger, owner, reached, lost>>
  BY DEF ClaimSend, rowVars
<1>2. /\ h \in Hand /\ event # "none" /\ h.tier \in Tier /\ h.asset \in Assets
      /\ h.wallet \in Wallets /\ owner[h.asset] # NoOne
      /\ h.tx = 0 /\ <<h.tier, h.wallet>> \in reached
  BY <1>1, AtClaim
<1>3. \A i \in DOMAIN sent : h.tx # i
  BY <1>2 DEF MedalTypeOK
<1>4. CASE Ends(r) /\ UNCHANGED sent
  <2>1. Idle \in Hand /\ HandSound(Idle) /\ Idle.step # "claimCount"
    BY IdleIsAHand DEF HandSound, Idle, None, MintSteps, ClaimSteps, RowSteps
  <2>2. UNCHANGED <<rowVars, chainVars, reached, lost>>
    BY <1>1, <1>4 DEF rowVars, chainVars
  <2>. QED
    BY <1>1, <1>2, <1>3, <1>4, <2>1, <2>2, OnlyWork DEF Ends
<1>5. CASE /\ Sends(h.asset, h.tier, h.wallet)
           /\ work' = [work EXCEPT ![r].step = "claim", ![r].tx = Len(sent) + 1]
  <2>. DEFINE x == [h EXCEPT !.step = "claim", !.tx = Len(sent) + 1]
  <2>1. /\ Len(sent') <= MaxSent /\ Len(sent) + 1 \in 1..MaxSent
        /\ sent' \in Seq([asset : Assets, tier : Tier, to : Wallets \cup {Vault},
                          state : {"flying", "landed", "dropped"}])
        /\ DOMAIN sent' = DOMAIN sent \cup {Len(sent) + 1} /\ Len(sent) + 1 \notin DOMAIN sent
        /\ \A i \in DOMAIN sent : sent'[i] = sent[i]
        /\ sent'[Len(sent) + 1]
              = [asset |-> h.asset, tier |-> h.tier, to |-> h.wallet, state |-> "flying"]
    BY <1>2, <1>5, SendsTyped
  <2>2. "claim" \in Steps /\ Len(sent) + 1 \in 0..MaxSent
    BY <2>1 DEF Steps, MedalAssumption
  <2>3. /\ x \in Hand /\ x.step = "claim" /\ x.tier = h.tier /\ x.asset = h.asset
        /\ x.wallet = h.wallet /\ x.tx = Len(sent) + 1
    BY <1>2, <2>2 DEF Hand
  <2>4. work' = [work EXCEPT ![r] = x]
    BY <1>5
  <2>. HIDE DEF x
  <2>5. /\ work' \in [Requests -> Hand] /\ work'[r] = x
        /\ \A q \in Requests \ {r} : work'[q] = work[q]
    BY <2>3, <2>4, HandsTyped
  <2>6. MedalTypeOK'
    BY <1>1, <2>1, <2>5 DEF MedalTypeOK, Hand
  <2>7. Forward
    BY <1>1, <2>1 DEF Forward
  <2>8. HandSound(work[r])'
    BY <1>1, <1>2, <2>1, <2>3, <2>5 DEF HandSound, MintSteps, ClaimSteps, RowSteps
  <2>9. HandsSound'
    BY <2>5, <2>7, <2>8, HandsKept
  <2>10. CountsBehind'
    BY <1>1, <2>3, <2>5, CountKept
  <2>11. SentIsAnswered'
    <3>1. \A i \in DOMAIN sent' : i \in DOMAIN sent \/ work'[r].tx = i
      BY <2>1, <2>3, <2>5
    <3>. QED
      BY <1>1, <1>3, <2>1, <2>5, <3>1, AnswersKept
  <2>12. EarnedOnly' /\ LandedExists'
    BY <1>1, <1>2, <2>1 DEF EarnedOnly, LandedExists
  <2>13. BeforeEvent' /\ PointsReached' /\ AssetsExist' /\ MedalsHaveRows'
    BY <1>1, <1>2 DEF BeforeEvent, PointsReached, AssetsExist, MedalsHaveRows
  <2>. QED
    BY <2>6, <2>9, <2>10, <2>11, <2>12, <2>13
<1>. QED
  BY <1>4, <1>5 DEF ClaimSend

LEMMA ClaimConfirmKeeps ==
    ASSUME MedalAssumption, MedalInv, NEW r \in Requests, ClaimConfirm(r)
    PROVE  MedalInv'
<1>1. PICK seen \in BOOLEAN :
         work' = [work EXCEPT ![r].step = "claimRow", ![r].confirmed = seen]
  BY DEF ClaimConfirm
<1>2. work[r].step = "claim" /\ UNCHANGED <<rowVars, chainVars, reached, lost>>
  BY DEF ClaimConfirm
<1>3. /\ work[r] \in Hand /\ event # "none" /\ work[r].tier \in Tier /\ work[r].asset \in Assets
      /\ work[r].wallet \in Wallets /\ owner[work[r].asset] # NoOne /\ work[r].tx \in DOMAIN sent
      /\ sent[work[r].tx].to = work[r].wallet /\ sent[work[r].tx].tier = work[r].tier
  BY <1>2, AtClaim DEF ClaimSteps
<1>. DEFINE x == [work[r] EXCEPT !.step = "claimRow", !.confirmed = seen]
<1>4. "claimRow" \in Steps
  BY DEF Steps
<1>5. /\ x \in Hand /\ x.step = "claimRow" /\ x.tier = work[r].tier /\ x.asset = work[r].asset
      /\ x.wallet = work[r].wallet /\ x.tx = work[r].tx
  BY <1>3, <1>4 DEF Hand
<1>6. work' = [work EXCEPT ![r] = x]
  BY <1>1
<1>. HIDE DEF x
<1>7. HandSound(x)
  BY <1>3, <1>5 DEF HandSound, MintSteps, ClaimSteps, RowSteps
<1>. QED
  BY <1>2, <1>3, <1>5, <1>6, <1>7, OnlyWork

\* Unique on (medal, user): a claim is counted once among a tier's claims.
LEMMA ClaimRowKeeps ==
    ASSUME MedalAssumption, MedalInv, NEW r \in Requests, ClaimRow(r)
    PROVE  MedalInv'
<1>. USE DEF MedalInv
<1>. DEFINE h == work[r]
<1>1. /\ h.step = "claimRow" /\ event = "ACTIVE"
      /\ UNCHANGED <<event, medal, points, nft, ledger, owner, sent, reached, lost>>
  BY DEF ClaimRow, chainVars
<1>2. /\ h \in Hand /\ h.tier \in Tier /\ h.asset \in Assets
      /\ h.wallet \in Wallets /\ owner[h.asset] # NoOne /\ h.tx \in DOMAIN sent
      /\ sent[h.tx].to = h.wallet /\ sent[h.tx].tier = h.tier
  BY <1>1, AtClaim DEF ClaimSteps
<1>3. CASE Claimed(h.tier, h.wallet) /\ Ends(r) /\ UNCHANGED claim
  <2>1. /\ work' \in [Requests -> Hand] /\ work'[r] = Idle /\ Idle.step # "claimCount"
        /\ \A q \in Requests \ {r} : work'[q] = work[q]
        /\ HandSound(work[r])'
    BY <1>3, Ended
  <2>2. MedalTypeOK'
    BY <1>1, <1>3, <2>1 DEF MedalTypeOK, Hand
  <2>3. Forward
    BY <1>1, <1>3 DEF Forward
  <2>4. HandsSound'
    BY <2>1, <2>3, HandsKept
  <2>5. CountsBehind'
    BY <1>1, <1>3, <2>1, CountKept
  <2>6. SentIsAnswered'
    BY <1>1, <1>2, <1>3, <2>1, AnswersKept
  <2>7. BeforeEvent' /\ PointsReached' /\ EarnedOnly' /\ LandedExists' /\ AssetsExist' /\ MedalsHaveRows'
    BY <1>1 DEF BeforeEvent, PointsReached, EarnedOnly, LandedExists, AssetsExist, MedalsHaveRows
  <2>. QED
    BY <2>2, <2>4, <2>5, <2>6, <2>7
<1>4. CASE /\ ~Claimed(h.tier, h.wallet)
           /\ claim' = claim \cup {[tier |-> h.tier, wallet |-> h.wallet,
                                    points |-> h.points, tx |-> h.tx]}
           /\ Goes(r, "claimCount")
  <2>. DEFINE x == [h EXCEPT !.step = "claimCount"]
              c == [tier |-> h.tier, wallet |-> h.wallet, points |-> h.points, tx |-> h.tx]
  <2>1. "claimCount" \in Steps
    BY DEF Steps
  <2>2. /\ x \in Hand /\ x.step = "claimCount" /\ x.tier = h.tier /\ x.asset = h.asset
        /\ x.wallet = h.wallet /\ x.tx = h.tx
    BY <1>2, <2>1 DEF Hand
  <2>3. work' = [work EXCEPT ![r] = x]
    BY <1>4 DEF Goes
  <2>4. h.points \in Nat /\ h.tx \in 1..MaxSent
    BY <1>2 DEF Hand, MedalTypeOK, MedalAssumption
  <2>5. /\ c \in [tier : Tier, wallet : Wallets, points : Nat, tx : 1..MaxSent]
        /\ c.tier = h.tier /\ c.wallet = h.wallet /\ claim' = claim \cup {c} /\ c \notin claim
    BY <1>2, <1>4, <2>4 DEF Claimed
  <2>. HIDE DEF x, c
  <2>6. /\ work' \in [Requests -> Hand] /\ work'[r] = x
        /\ \A q \in Requests \ {r} : work'[q] = work[q]
    BY <2>2, <2>3, HandsTyped
  <2>7. MedalTypeOK'
    BY <1>1, <2>5, <2>6 DEF MedalTypeOK, Hand
  <2>8. Forward
    BY <1>1, <2>5 DEF Forward
  <2>9. Claimed(h.tier, h.wallet)'
    BY <1>1, <2>2, <2>5, <2>6 DEF Claimed
  <2>10. HandSound(work[r])'
    <3>1. \E d \in claim' : d.tier = x.tier /\ d.wallet = x.wallet
      BY <2>2, <2>5
    <3>. QED
      BY <1>1, <1>2, <2>2, <2>6, <3>1 DEF HandSound, Claimed, MintSteps, ClaimSteps, RowSteps
  <2>11. HandsSound'
    BY <2>6, <2>8, <2>10, HandsKept
  <2>12. CountsBehind'
    <3>1. IsFiniteSet(claim) /\ IsFiniteSet(claim')
      BY <2>5, FS_AddElement DEF CountsBehind
    <3>2. SUFFICES ASSUME NEW t \in Tier
                   PROVE  medal'[t].claimed + Cardinality(Uncounted(t)') <= Cardinality(ClaimsOf(t)')
      BY <3>1 DEF CountsBehind
    <3>3. medal[t].claimed + Cardinality(Uncounted(t)) <= Cardinality(ClaimsOf(t)) /\ medal' = medal
      BY <1>1 DEF CountsBehind
    <3>4. /\ Uncounted(t) \subseteq Requests /\ IsFiniteSet(Requests)
          /\ ClaimsOf(t) \subseteq claim
      BY DEF Uncounted, ClaimsOf, MedalAssumption
    <3>5. IsFiniteSet(Uncounted(t)) /\ IsFiniteSet(ClaimsOf(t))
      BY <3>1, <3>4, FS_Subset
    <3>6. CASE t # h.tier
      <4>1. Uncounted(t)' = Uncounted(t)
        BY <1>1, <2>2, <2>6, <3>6 DEF Uncounted
      <4>2. ClaimsOf(t)' = ClaimsOf(t)
        BY <2>5, <3>6 DEF ClaimsOf
      <4>. QED
        BY <3>3, <4>1, <4>2
    <3>7. CASE t = h.tier
      <4>1. Uncounted(t)' = Uncounted(t) \cup {r} /\ r \notin Uncounted(t)
        BY <1>1, <2>2, <2>6, <3>7 DEF Uncounted
      <4>2. ClaimsOf(t)' = ClaimsOf(t) \cup {c} /\ c \notin ClaimsOf(t)
        BY <2>5, <3>7 DEF ClaimsOf
      <4>3. /\ Cardinality(Uncounted(t)') = Cardinality(Uncounted(t)) + 1
            /\ Cardinality(ClaimsOf(t)') = Cardinality(ClaimsOf(t)) + 1
        BY <3>5, <4>1, <4>2, FS_AddElement
      <4>4. Cardinality(Uncounted(t)) \in Nat /\ Cardinality(ClaimsOf(t)) \in Nat
        BY <3>5, FS_CardinalityType
      <4>5. medal[t].claimed \in Nat
        BY RowsTyped DEF MedalRow
      <4>. QED
        BY <3>3, <4>3, <4>4, <4>5
    <3>. QED
      BY <3>6, <3>7
  <2>13. SentIsAnswered'
    BY <1>1, <2>2, <2>5, <2>6, AnswersKept
  <2>14. BeforeEvent' /\ PointsReached' /\ EarnedOnly' /\ LandedExists' /\ AssetsExist' /\ MedalsHaveRows'
    BY <1>1 DEF BeforeEvent, PointsReached, EarnedOnly, LandedExists, AssetsExist, MedalsHaveRows
  <2>. QED
    BY <2>7, <2>11, <2>12, <2>13, <2>14
<1>. QED
  BY <1>3, <1>4 DEF ClaimRow

\* The count goes up by one and the handlers still to count go down by one.
LEMMA ClaimCountKeeps ==
    ASSUME MedalAssumption, MedalInv, NEW r \in Requests, ClaimCount(r)
    PROVE  MedalInv'
<1>. USE DEF MedalInv
<1>. DEFINE h == work[r]
            x == [h EXCEPT !.step = "claimOwner"]
            m == [medal[h.tier] EXCEPT !.claimed = @ + 1]
<1>1. /\ h.step = "claimCount" /\ event = "ACTIVE"
      /\ UNCHANGED <<event, points, claim, nft, ledger, owner, sent, reached, lost>>
  BY DEF ClaimCount, chainVars
<1>2. /\ h \in Hand /\ h.tier \in Tier /\ h.asset \in Assets
      /\ h.wallet \in Wallets /\ owner[h.asset] # NoOne /\ h.tx \in DOMAIN sent
      /\ sent[h.tx].to = h.wallet /\ sent[h.tx].tier = h.tier
      /\ Claimed(h.tier, h.wallet)
  BY <1>1, AtClaim DEF ClaimSteps, RowSteps
<1>3. "claimOwner" \in Steps
  BY DEF Steps
<1>4. /\ x \in Hand /\ x.step = "claimOwner" /\ x.tier = h.tier /\ x.asset = h.asset
      /\ x.wallet = h.wallet /\ x.tx = h.tx
  BY <1>2, <1>3 DEF Hand
<1>5. work' = [work EXCEPT ![r] = x] /\ medal' = [medal EXCEPT ![h.tier] = m]
  BY DEF ClaimCount, Goes
<1>6. medal \in [Tier -> MedalRow] /\ \A t \in Tier : medal[t] \in MedalRow
  BY RowsTyped
<1>7. /\ m \in MedalRow /\ m.required = medal[h.tier].required /\ m.nft = medal[h.tier].nft
      /\ m.claimed = medal[h.tier].claimed + 1
  BY <1>2, <1>6 DEF MedalRow
<1>. HIDE DEF x, m
<1>8. /\ work' \in [Requests -> Hand] /\ work'[r] = x
      /\ \A q \in Requests \ {r} : work'[q] = work[q]
  BY <1>4, <1>5, HandsTyped
<1>9. /\ medal' \in [Tier -> MedalRow]
      /\ \A t \in Tier : /\ medal'[t].required = medal[t].required
                         /\ medal'[t].nft = medal[t].nft
                         /\ medal'[t].claimed =
                               IF t = h.tier THEN medal[t].claimed + 1 ELSE medal[t].claimed
  BY <1>2, <1>5, <1>6, <1>7
<1>10. MedalTypeOK'
  BY <1>1, <1>8, <1>9 DEF MedalTypeOK, Hand, MedalRow
<1>11. Forward
  BY <1>1 DEF Forward
<1>12. HandSound(work[r])'
  BY <1>1, <1>2, <1>4, <1>8 DEF HandSound, Claimed, MintSteps, ClaimSteps, RowSteps
<1>13. HandsSound'
  BY <1>8, <1>11, <1>12, HandsKept
<1>14. CountsBehind'
  <2>1. SUFFICES ASSUME NEW t \in Tier
                 PROVE  medal'[t].claimed + Cardinality(Uncounted(t)') <= Cardinality(ClaimsOf(t)')
    BY <1>1 DEF CountsBehind
  <2>2. medal[t].claimed + Cardinality(Uncounted(t)) <= Cardinality(ClaimsOf(t))
    BY <1>1 DEF CountsBehind
  <2>3. Uncounted(t) \subseteq Requests /\ IsFiniteSet(Requests)
    BY DEF Uncounted, MedalAssumption
  <2>4. IsFiniteSet(Uncounted(t)) /\ Cardinality(Uncounted(t)) \in Nat
    BY <2>3, FS_Subset, FS_CardinalityType
  <2>5. ClaimsOf(t)' = ClaimsOf(t)
    BY <1>1 DEF ClaimsOf
  <2>6. CASE t # h.tier
    <3>1. Uncounted(t)' = Uncounted(t)
      BY <1>1, <1>4, <1>8, <2>6 DEF Uncounted
    <3>. QED
      BY <1>9, <2>2, <2>5, <2>6, <3>1
  <2>7. CASE t = h.tier
    <3>1. Uncounted(t)' = Uncounted(t) \ {r} /\ r \in Uncounted(t)
      BY <1>1, <1>4, <1>8, <2>7 DEF Uncounted
    <3>2. Cardinality(Uncounted(t)') = Cardinality(Uncounted(t)) - 1
      BY <2>4, <3>1, FS_RemoveElement
    <3>3. medal[t].claimed \in Nat
      BY <1>6 DEF MedalRow
    <3>. QED
      BY <1>9, <2>2, <2>4, <2>5, <2>7, <3>2, <3>3
  <2>. QED
    BY <2>6, <2>7
<1>15. SentIsAnswered'
  BY <1>1, <1>4, <1>8, AnswersKept
<1>16. PointsReached' /\ MedalsHaveRows'
  BY <1>1, <1>9 DEF PointsReached, MedalsHaveRows
<1>17. BeforeEvent' /\ EarnedOnly' /\ LandedExists' /\ AssetsExist'
  BY <1>1 DEF BeforeEvent, EarnedOnly, LandedExists, AssetsExist
<1>. QED
  BY <1>10, <1>13, <1>14, <1>15, <1>16, <1>17

LEMMA ClaimOwnerKeeps ==
    ASSUME MedalAssumption, MedalInv, NEW r \in Requests, ClaimOwner(r)
    PROVE  MedalInv'
<1>. USE DEF MedalInv
<1>. DEFINE h == work[r]
            x == [h EXCEPT !.step = "claimLedger"]
<1>1. /\ h.step = "claimOwner"
      /\ nft' = [nft EXCEPT ![h.asset] = h.wallet]
      /\ UNCHANGED <<event, medal, points, claim, ledger, owner, sent, reached, lost>>
  BY DEF ClaimOwner, chainVars
<1>2. /\ h \in Hand /\ event # "none" /\ h.tier \in Tier /\ h.asset \in Assets
      /\ h.wallet \in Wallets /\ owner[h.asset] # NoOne /\ h.tx \in DOMAIN sent
      /\ sent[h.tx].to = h.wallet /\ sent[h.tx].tier = h.tier
      /\ event = "ACTIVE" => Claimed(h.tier, h.wallet)
  BY <1>1, AtClaim DEF ClaimSteps, RowSteps
<1>3. "claimLedger" \in Steps
  BY DEF Steps
<1>4. /\ x \in Hand /\ x.step = "claimLedger" /\ x.tier = h.tier /\ x.asset = h.asset
      /\ x.wallet = h.wallet /\ x.tx = h.tx
  BY <1>2, <1>3 DEF Hand
<1>5. work' = [work EXCEPT ![r] = x]
  BY DEF ClaimOwner, Goes
<1>. HIDE DEF x
<1>6. /\ work' \in [Requests -> Hand] /\ work'[r] = x
      /\ \A q \in Requests \ {r} : work'[q] = work[q]
  BY <1>4, <1>5, HandsTyped
<1>7. /\ nft' \in [Assets -> Wallets \cup {Vault, NoOne}] /\ nft'[h.asset] # NoOne
      /\ \A a \in Assets : a # h.asset => nft'[a] = nft[a]
  BY <1>1, <1>2 DEF MedalTypeOK, MedalAssumption
<1>8. MedalTypeOK'
  BY <1>1, <1>6, <1>7 DEF MedalTypeOK, Hand
<1>9. Forward
  BY <1>1, <1>7 DEF Forward
<1>10. HandSound(work[r])'
  BY <1>1, <1>2, <1>4, <1>6 DEF HandSound, Claimed, MintSteps, ClaimSteps, RowSteps
<1>11. HandsSound'
  BY <1>6, <1>9, <1>10, HandsKept
<1>12. CountsBehind'
  BY <1>1, <1>4, <1>6, CountKept
<1>13. SentIsAnswered'
  BY <1>1, <1>4, <1>6, AnswersKept
<1>14. AssetsExist' /\ MedalsHaveRows'
  BY <1>1, <1>2, <1>7 DEF AssetsExist, MedalsHaveRows, MedalTypeOK
<1>15. BeforeEvent' /\ PointsReached' /\ EarnedOnly' /\ LandedExists'
  BY <1>1, <1>2 DEF BeforeEvent, PointsReached, EarnedOnly, LandedExists
<1>. QED
  BY <1>8, <1>11, <1>12, <1>13, <1>14, <1>15

LEMMA ClaimLedgerKeeps ==
    ASSUME MedalAssumption, MedalInv, NEW r \in Requests, ClaimLedger(r)
    PROVE  MedalInv'
<1>. USE DEF MedalInv
<1>. DEFINE h == work[r]
<1>1. /\ h.step = "claimLedger"
      /\ ledger' = ledger \cup {[tx |-> h.tx, wallet |-> h.wallet,
                                 status |-> IF h.confirmed THEN "CONFIRMED" ELSE "PENDING"]}
      /\ UNCHANGED <<event, medal, points, claim, nft, owner, sent, reached, lost>>
  BY DEF ClaimLedger, chainVars
<1>2. /\ event # "none" /\ h.wallet \in Wallets /\ h.tx \in DOMAIN sent
      /\ sent[h.tx].to = h.wallet /\ sent[h.tx].tier = h.tier
      /\ event = "ACTIVE" => Claimed(h.tier, h.wallet)
  BY <1>1, AtClaim DEF ClaimSteps, RowSteps
<1>3. /\ work' \in [Requests -> Hand] /\ work'[r] = Idle /\ Idle.step # "claimCount"
      /\ \A q \in Requests \ {r} : work'[q] = work[q]
      /\ HandSound(work[r])'
  BY Ended DEF ClaimLedger
<1>4. h.tx \in 1..MaxSent
  BY <1>2 DEF MedalTypeOK, MedalAssumption
<1>5. MedalTypeOK'
  <2>1. (IF h.confirmed THEN "CONFIRMED" ELSE "PENDING") \in {"PENDING", "CONFIRMED"}
    BY Zenon
  <2>2. ledger' \subseteq [tx : 1..MaxSent, wallet : Wallets, status : {"PENDING", "CONFIRMED"}]
    BY <1>1, <1>2, <1>4, <2>1 DEF MedalTypeOK
  <2>. QED
    BY <1>1, <1>3, <2>2 DEF MedalTypeOK, Hand
<1>6. Forward
  BY <1>1 DEF Forward
<1>7. HandsSound'
  BY <1>3, <1>6, HandsKept
<1>8. CountsBehind'
  BY <1>1, <1>3, CountKept
<1>9. SentIsAnswered'
  BY <1>1, <1>2, <1>3, AnswersKept
<1>10. BeforeEvent' /\ PointsReached' /\ EarnedOnly' /\ LandedExists' /\ AssetsExist' /\ MedalsHaveRows'
  BY <1>1, <1>2 DEF BeforeEvent, PointsReached, EarnedOnly, LandedExists, AssetsExist, MedalsHaveRows
<1>. QED
  BY <1>5, <1>7, <1>8, <1>9, <1>10

\* A handler that dies loses what it sent, and leaves its count uncounted.
LEMMA FailKeeps ==
    ASSUME MedalAssumption, MedalInv, NEW r \in Requests, Fail(r)
    PROVE  MedalInv'
<1>. USE DEF MedalInv
<1>1. /\ work[r] # Idle
      /\ lost' = lost \cup ({work[r].tx} \ {0})
      /\ UNCHANGED <<event, medal, points, claim, nft, ledger, owner, sent, reached>>
  BY DEF Fail, rowVars, chainVars, None
<1>2. /\ work' \in [Requests -> Hand] /\ work'[r] = Idle /\ Idle.step # "claimCount"
      /\ \A q \in Requests \ {r} : work'[q] = work[q]
      /\ HandSound(work[r])'
  BY Ended DEF Fail
<1>3. event # "none" /\ work[r] \in Hand
  BY <1>1, HandsTyped DEF BeforeEvent
<1>4. MedalTypeOK'
  <2>1. work[r].tx \in 0..MaxSent /\ MaxSent \in Nat
    BY <1>3 DEF Hand, MedalAssumption
  <2>2. lost' \subseteq 1..MaxSent
    <3>1. {work[r].tx} \ {0} \subseteq 1..MaxSent
      BY <2>1
    <3>. QED
      BY <1>1, <3>1 DEF MedalTypeOK
  <2>. QED
    BY <1>1, <1>2, <2>2 DEF MedalTypeOK, Hand
<1>5. Forward
  BY <1>1 DEF Forward
<1>6. HandsSound'
  BY <1>2, <1>5, HandsKept
<1>7. CountsBehind'
  <2>1. SUFFICES ASSUME event = "ACTIVE", NEW t \in Tier
                 PROVE  medal[t].claimed + Cardinality(Uncounted(t)') <= Cardinality(ClaimsOf(t))
    BY <1>1 DEF CountsBehind, ClaimsOf
  <2>2. medal[t].claimed + Cardinality(Uncounted(t)) <= Cardinality(ClaimsOf(t))
    BY <2>1 DEF CountsBehind
  <2>3. Uncounted(t) \subseteq Requests /\ IsFiniteSet(Requests)
    BY DEF Uncounted, MedalAssumption
  <2>4. IsFiniteSet(Uncounted(t)) /\ Cardinality(Uncounted(t)) \in Nat
    BY <2>3, FS_Subset, FS_CardinalityType
  <2>5. Uncounted(t)' \subseteq Uncounted(t)
    BY <1>2 DEF Uncounted
  <2>6. Cardinality(Uncounted(t)') <= Cardinality(Uncounted(t))
    BY <2>4, <2>5, FS_Subset
  <2>7. Cardinality(Uncounted(t)') \in Nat
    BY <2>4, <2>5, FS_Subset, FS_CardinalityType
  <2>8. medal[t].claimed \in Nat
    BY RowsTyped DEF MedalRow
  <2>9. IsFiniteSet(ClaimsOf(t)) /\ Cardinality(ClaimsOf(t)) \in Nat
    <3>1. IsFiniteSet(claim) /\ ClaimsOf(t) \subseteq claim
      BY DEF CountsBehind, ClaimsOf
    <3>. QED
      BY <3>1, FS_Subset, FS_CardinalityType
  <2>. QED
    BY <2>2, <2>4, <2>6, <2>7, <2>8, <2>9
<1>8. SentIsAnswered'
  <2>1. \A i \in DOMAIN sent : work[r].tx = i => i \in lost'
    BY <1>1 DEF MedalTypeOK
  <2>. QED
    BY <1>1, <1>2, <2>1, AnswersKept
<1>9. BeforeEvent' /\ PointsReached' /\ EarnedOnly' /\ LandedExists' /\ AssetsExist' /\ MedalsHaveRows'
  BY <1>1, <1>3 DEF BeforeEvent, PointsReached, EarnedOnly, LandedExists, AssetsExist, MedalsHaveRows
<1>. QED
  BY <1>4, <1>6, <1>7, <1>8, <1>9

LEMMA StutterKeeps ==
    ASSUME MedalInv, UNCHANGED medalVars
    PROVE  MedalInv'
<1>. USE DEF MedalInv
<1>1. UNCHANGED <<event, medal, points, claim, nft, ledger, owner, sent, reached, lost, work>>
  BY DEF medalVars, rowVars, chainVars
<1>2. MedalTypeOK'
  BY <1>1 DEF MedalTypeOK
<1>3. HandsSound'
  BY <1>1 DEF HandsSound, HandSound, Claimed
<1>4. CountsBehind'
  BY <1>1, CountUntouched
<1>5. SentIsAnswered'
  BY <1>1 DEF SentIsAnswered, Claimed
<1>6. BeforeEvent' /\ PointsReached' /\ EarnedOnly' /\ LandedExists' /\ AssetsExist' /\ MedalsHaveRows'
  BY <1>1 DEF BeforeEvent, PointsReached, EarnedOnly, LandedExists, AssetsExist, MedalsHaveRows
<1>. QED
  BY <1>2, <1>3, <1>4, <1>5, <1>6

LEMMA HandlerKeeps ==
    ASSUME MedalAssumption, MedalInv, NEW r \in Requests, Handler(r)
    PROVE  MedalInv'
<1>1. CASE GrantRead(r) \/ GrantWrite(r)
  BY <1>1, GrantReadKeeps, GrantWriteKeeps
<1>2. CASE MintSend(r) \/ MintConfirm(r) \/ MintRow(r) \/ MintLink(r)
  BY <1>2, MintSendKeeps, MintConfirmKeeps, MintRowKeeps, MintLinkKeeps
<1>3. CASE ClaimRead(r) \/ ClaimSend(r) \/ ClaimConfirm(r)
  BY <1>3, ClaimReadKeeps, ClaimSendKeeps, ClaimConfirmKeeps
<1>4. CASE ClaimRow(r) \/ ClaimCount(r) \/ ClaimOwner(r) \/ ClaimLedger(r)
  BY <1>4, ClaimRowKeeps, ClaimCountKeeps, ClaimOwnerKeeps, ClaimLedgerKeeps
<1>5. CASE Fail(r)
  BY <1>5, FailKeeps
<1>. QED
  BY <1>1, <1>2, <1>3, <1>4, <1>5 DEF Handler

LEMMA MedalStepKeeps ==
    ASSUME MedalAssumption, MedalInv, [MedalNext]_medalVars
    PROVE  MedalInv'
<1>1. CASE \E config \in Configs : CreateEvent(config)
  BY <1>1, CreateEventKeeps
<1>2. CASE DeleteEvent
  BY <1>2, DeleteEventKeeps
<1>3. CASE \E w \in Wallets : JoinEvent(w)
  BY <1>3, JoinEventKeeps
<1>4. CASE \E r \in Requests : Handler(r)
  BY <1>4, HandlerKeeps
<1>5. CASE Lands
  BY <1>5, LandsKeeps
<1>6. CASE \E a \in Assets : GivesBack(a)
  BY <1>6, GivesBackKeeps
<1>7. CASE UNCHANGED medalVars
  BY <1>7, StutterKeeps
<1>. QED
  BY <1>1, <1>2, <1>3, <1>4, <1>5, <1>6, <1>7 DEF MedalNext

LEMMA MedalInvHolds == MedalSpec => []MedalInv
<1>1. MedalInit => MedalInv
  BY MedalAssumption, MedalInitSound
<1>2. MedalInv /\ [MedalNext]_medalVars => MedalInv'
  BY MedalAssumption, MedalStepKeeps
<1>. QED
  BY <1>1, <1>2, PTL DEF MedalSpec
-----------------------------------------------------------------------------
(* What it gives.                                                            *)

\* Every variable keeps its shape.
THEOREM MedalTypeCorrect == MedalSpec => []MedalTypeOK
<1>1. MedalInv => MedalTypeOK
  BY DEF MedalInv
<1>. QED
  BY <1>1, MedalInvHolds, PTL

\* The vault signs a medal away only to a wallet that has had the points for
\* it, whichever grants overwrote or corrected them meanwhile (claimMedal's
\* checks are on rows read before the transfer is sent).
THEOREM MedalsAreEarned == MedalSpec => []EarnedOnly
<1>1. MedalInv => EarnedOnly
  BY DEF MedalInv
<1>. QED
  BY <1>1, MedalInvHolds, PTL

\* The rows claim no asset the chain does not have, no medal without its row,
\* and no claim more than there are (mintMedals and claimMedal write row after
\* row, with no transaction round them).
THEOREM MedalRowsAreReal == MedalSpec => []RowsAreReal
<1>1. ASSUME MedalInv PROVE RowsAreReal
  <2>1. ASSUME event = "ACTIVE", NEW t \in Tier
        PROVE  medal[t].claimed <= Cardinality({c \in claim : c.tier = t})
    <3>1. medal[t].claimed + Cardinality(Uncounted(t)) <= Cardinality(ClaimsOf(t))
      BY <1>1, <2>1 DEF MedalInv, CountsBehind
    <3>2. Uncounted(t) \subseteq Requests /\ IsFiniteSet(Requests)
      BY MedalAssumption DEF Uncounted, MedalAssumption
    <3>3. Cardinality(Uncounted(t)) \in Nat
      BY <3>2, FS_Subset, FS_CardinalityType
    <3>4. IsFiniteSet(claim) /\ ClaimsOf(t) \subseteq claim
      BY <1>1 DEF MedalInv, CountsBehind, ClaimsOf
    <3>5. Cardinality(ClaimsOf(t)) \in Nat
      BY <3>4, FS_Subset, FS_CardinalityType
    <3>6. medal[t].claimed \in Nat
      BY <1>1, RowsTyped DEF MedalInv, MedalRow
    <3>7. medal[t].claimed <= Cardinality(ClaimsOf(t))
      BY <3>1, <3>3, <3>5, <3>6
    <3>. QED
      BY <3>7 DEF ClaimsOf
  <2>. QED
    BY <1>1, <2>1 DEF RowsAreReal, MedalInv, AssetsExist, MedalsHaveRows
<1>. QED
  BY <1>1, MedalInvHolds, PTL

\* No medal leaves the vault unrecorded unless its handler died or the event
\* was deleted, however long its transfer takes to land.
THEOREM NoMedalGoesUnrecorded == MedalSpec => []LeavingIsRecorded
<1>1. MedalInv => LeavingIsRecorded
  BY DEF MedalInv, SentIsAnswered, LeavingIsRecorded
<1>. QED
  BY <1>1, MedalInvHolds, PTL

\* The button the page draws from getEvent's status and claimMedal's own checks
\* are two pieces of code that agree on every state of the rows.
THEOREM OfferIsTheGuard == MedalSpec => []OfferMatchesGuard
<1>1. ASSUME MedalInv PROVE OfferMatchesGuard
  <2>1. SUFFICES ASSUME event = "ACTIVE", NEW t \in Tier, NEW w \in Wallets
                 PROVE  ClaimOffered(t, w) <=> MayClaim(t, w)
    BY DEF OfferMatchesGuard
  <2>2. medal[t].required \in Nat /\ medal[t].supply \in Nat /\ medal[t].claimed \in Nat
    BY <1>1, RowsTyped DEF MedalInv, MedalRow
  <2>3. CASE w \in DOMAIN points
    <3>1. points[w] \in Nat
      BY <1>1, <2>3 DEF MedalInv, MedalTypeOK
    <3>2. ClaimOffered(t, w) <=> /\ ~Claimed(t, w)
                                /\ MedalStatus(medal[t], points[w], Claimed(t, w)) = "claimable"
      BY <2>3, Zenon DEF ClaimOffered, EventAnswer
    <3>3. CASE Claimed(t, w)
      BY <3>2, <3>3 DEF MayClaim
    <3>4. CASE ~Claimed(t, w)
      <4>1. MedalStatus(medal[t], points[w], Claimed(t, w)) = "claimable"
               <=> /\ ~(points[w] < medal[t].required) /\ medal[t].nft # NoOne
                   /\ ~(medal[t].claimed >= medal[t].supply)
        BY <3>4 DEF MedalStatus
      <4>. QED
        BY <2>1, <2>2, <2>3, <3>1, <3>2, <3>4, <4>1 DEF MayClaim
    <3>. QED
      BY <3>3, <3>4
  <2>4. CASE w \notin DOMAIN points
    <3>1. ~ClaimOffered(t, w)
      BY <2>4, Zenon DEF ClaimOffered, EventAnswer
    <3>. QED
      BY <2>4, <3>1 DEF MayClaim
  <2>. QED
    BY <2>3, <2>4
<1>. QED
  BY <1>1, MedalInvHolds, PTL

-----------------------------------------------------------------------------
(* Fee quotes.                                                             *)
(*                                                                         *)
(* A rate travels: from a source to a memo, to a row, to another isolate's *)
(* hint, to its memo.  The invariant follows it all the way: what is       *)
(* carried as a live rate at any of these places has been heard.           *)

(* Sets of numbers have least elements, and bounded ones greatest.          *)

LEMMA LeastExists ==
    ASSUME NEW S \in SUBSET Nat, S # {}
    PROVE  \E x \in S : \A y \in S : x <= y
<1>. DEFINE R == {p \in Nat \X Nat : p[1] < p[2]}
<1>1. IsWellFoundedOn(R, Nat)
  BY NatLessThanWellFounded DEF OpToRel
<1>. HIDE DEF R
<1>2. PICK x \in S : \A y \in S : ~(<<y, x>> \in R)
  BY <1>1, WFMin
<1>3. \A y \in S : ~(y < x)
  BY <1>2 DEF R
<1>. QED
  BY <1>3

LEMMA GreatestExists ==
    ASSUME NEW n \in Nat, NEW S \in SUBSET (1..n), S # {}
    PROVE  Max(S) \in S /\ \A y \in S : y <= Max(S)
<1>. DEFINE T == {k \in Nat : n - k \in S}
<1>1. T # {}
  <2>1. PICK y \in S : TRUE
    OBVIOUS
  <2>2. n - y \in Nat /\ n - (n - y) = y
    BY <2>1
  <2>. QED
    BY <2>1, <2>2
<1>2. PICK k \in T : \A j \in T : k <= j
  BY <1>1, LeastExists
<1>3. ASSUME NEW y \in S
      PROVE  n - k >= y
  <2>1. n - y \in Nat /\ n - (n - y) = y
    OBVIOUS
  <2>2. k <= n - y
    BY <1>2, <2>1
  <2>. QED
    BY <2>2
<1>. QED
  BY <1>2, <1>3 DEF Max

(* Arithmetic: rounding up never loses, and products respect order.          *)

LEMMA RoundsUp ==
    ASSUME NEW a \in Nat, NEW b \in Nat \ {0}
    PROVE  CeilDiv(a, b) \in Nat /\ CeilDiv(a, b) * b >= a
<1>. DEFINE q == (a + b - 1) \div b
            r == (a + b - 1) % b
<1>1. a + b - 1 \in Nat
  OBVIOUS
<1>2. q \in Nat /\ r \in 0..(b - 1) /\ a + b - 1 = b * q + r
  BY <1>1, SMT
<1>. HIDE DEF q, r
<1>3. q * b = b * q
  BY <1>2
<1>4. q * b >= a
  BY <1>2, <1>3
<1>. QED
  BY <1>2, <1>4 DEF CeilDiv, q

LEMMA ProductsGrow ==
    ASSUME NEW x \in Nat, NEW y \in Nat, NEW k \in Nat, x <= y
    PROVE  x * k <= y * k /\ k * x <= k * y
  OBVIOUS

LEMMA QuotientsAreNatural ==
    ASSUME NEW a \in Nat, NEW b \in Nat \ {0}
    PROVE  a \div b \in Nat
  OBVIOUS
-----------------------------------------------------------------------------
(* The figures of a quote.                                                   *)

LEMMA SizesAreNatural ==
    ASSUME FeeAssumption
    PROVE  Sizes \subseteq Nat /\ WorstSize \in Nat
  BY DEF FeeAssumption, Sizes, WorstSize, AssetBytes

LEMMA LamportsAreNatural ==
    ASSUME FeeAssumption, NEW priority \in Nat, NEW bytes \in Nat
    PROVE  MintLamports(priority, bytes) \in Nat
<1>1. (RentOverhead + bytes) * RentPerByte \in Nat
  BY DEF FeeAssumption
<1>. QED
  BY <1>1 DEF FeeAssumption, MintLamports, Rent

\* A larger asset and a higher priority cost no less.
LEMMA LamportsGrow ==
    ASSUME FeeAssumption, NEW p \in Nat, NEW q \in Nat, NEW b \in Nat, NEW c \in Nat,
           p <= q, b <= c
    PROVE  MintLamports(p, b) <= MintLamports(q, c)
<1>1. RentOverhead + b \in Nat /\ RentOverhead + c \in Nat /\ RentOverhead + b <= RentOverhead + c
  BY DEF FeeAssumption
<1>2. (RentOverhead + b) * RentPerByte <= (RentOverhead + c) * RentPerByte
  BY <1>1, ProductsGrow DEF FeeAssumption
<1>3. (RentOverhead + b) * RentPerByte \in Nat /\ (RentOverhead + c) * RentPerByte \in Nat
  BY <1>1 DEF FeeAssumption
<1>. QED
  BY <1>2, <1>3 DEF FeeAssumption, MintLamports, Rent

\* The fee is worth the lamports it was computed from.
LEMMA FeeCovers ==
    ASSUME FeeAssumption, NEW lamports \in Nat, NEW rate \in Nat
    PROVE  /\ FeeFor(lamports, rate) \in Nat
           /\ FeeFor(lamports, rate) * Scale >= lamports * rate
<1>1. lamports * rate \in Nat /\ Scale \in Nat \ {0}
  BY DEF FeeAssumption
<1>. DEFINE c == CeilDiv(lamports * rate, Scale)
<1>2. c \in Nat /\ c * Scale >= lamports * rate
  BY <1>1, RoundsUp
<1>. HIDE DEF c
<1>3. AtLeast(FeeFloor, c) \in Nat /\ AtLeast(FeeFloor, c) >= c
  BY <1>2 DEF AtLeast, FeeAssumption
<1>4. AtLeast(FeeFloor, c) * Scale >= c * Scale
  BY <1>1, <1>2, <1>3, ProductsGrow
<1>5. AtLeast(FeeFloor, c) * Scale \in Nat /\ c * Scale \in Nat
  BY <1>1, <1>2, <1>3
<1>6. AtLeast(FeeFloor, c) * Scale >= lamports * rate
  BY <1>1, <1>2, <1>4, <1>5
<1>7. FeeFor(lamports, rate) = AtLeast(FeeFloor, c)
  BY DEF FeeFor, LamportsToMinor, c
<1>. QED
  BY <1>3, <1>6, <1>7

LEMMA TotalsAreNatural ==
    ASSUME FeeAssumption, NEW q, q.fee \in Nat
    PROVE  Total(q) \in Nat
<1>1. BasePrice * TaxBps \in Nat
  BY DEF FeeAssumption
<1>2. TaxOn(BasePrice) \in Nat
  BY <1>1, RoundsUp DEF TaxOn
<1>. QED
  BY <1>2 DEF Total, FeeAssumption
-----------------------------------------------------------------------------
(* The invariant.                                                            *)

\* A hint that was read is a rate that was heard.
HintsHeard ==
    \A i \in Isolates : pricing[i].hint # NoRate => pricing[i].hint.rate \in heard

\* A quote's lamports are what its mints take at least, and its fee is worth
\* them at its rate.
QuotesCover ==
    \A n \in DOMAIN quotes :
       /\ quotes[n].fee * Scale >= quotes[n].lamports * quotes[n].rate
       /\ quotes[n].lamports >= quotes[n].quantity * MintLamports(Attached, quotes[n].bytes)

\* An order holds a quote for one mint, of an asset no larger than its own.
OrdersFit ==
    \A o \in orders :
       /\ o.quote \in Rows
       /\ quotes[o.quote].quantity = 1
       /\ o.fee = quotes[o.quote].fee
       /\ o.bytes <= quotes[o.quote].bytes

FeeInv == FeeTypeOK /\ FallbackStaysFallback /\ HintsHeard /\ QuotesCover /\ OrdersFit

LEMMA FeeInitSound == ASSUME FeeAssumption, FeeInit PROVE FeeInv
<1> USE DEF FeeInit, NoRate, Unpriced
<1>1. FeeTypeOK
  <2>1. quotes \in Seq(QuoteRow) /\ Len(quotes) <= MaxQuotes
    BY DEF FeeAssumption
  <2>. QED
    BY <2>1 DEF FeeTypeOK, RateAt, FeeAssumption
<1>2. FallbackStaysFallback /\ HintsHeard /\ QuotesCover /\ OrdersFit
  BY DEF FallbackStaysFallback, HintsHeard, QuotesCover, OrdersFit
<1>. QED
  BY <1>1, <1>2 DEF FeeInv

\* A hint is nothing, or a row that was live.
LEMMA HintsAreHeard ==
    ASSUME FeeTypeOK, FallbackStaysFallback, NEW hint \in Hints
    PROVE  hint \in RateAt /\ (hint # NoRate => hint.rate \in heard)
<1>. DEFINE m == Max(Borrowable)
<1>1. CASE hint = NoRate
  BY <1>1 DEF NoRate, RateAt
<1>2. CASE hint # NoRate
  <2>1. Borrowable # {} /\ hint = [rate |-> quotes[m].rate, at |-> quotes[m].createdAt]
    BY <1>2 DEF Hints
  <2>2. Len(quotes) \in Nat /\ Borrowable \subseteq 1..Len(quotes)
    BY DEF Borrowable, Rows, FeeTypeOK
  <2>3. m \in Borrowable
    BY <2>1, <2>2, GreatestExists
  <2>4. m \in DOMAIN quotes /\ quotes[m].confidence = "estimated" /\ quotes[m] \in QuoteRow
    BY <2>3 DEF Borrowable, Rows, FeeTypeOK
  <2>. HIDE DEF m
  <2>. QED
    BY <2>1, <2>4 DEF RateAt, QuoteRow, FallbackStaysFallback
<1>. QED
  BY <1>1, <1>2

LEMMA SourcesAnswerNumbers ==
    ASSUME FeeAssumption
    PROVE  SourceAnswers \subseteq Nat \ {0}
<1>1. \A f \in Figures : f \div Finer \in Nat
  BY QuotientsAreNatural DEF FeeAssumption
<1>. QED
  BY <1>1 DEF SourceAnswers, ToScaled

\* What an isolate prices with as live, and what it remembers, has been heard.
LEMMA RatesAreHeard ==
    ASSUME FeeAssumption, FeeTypeOK, FallbackStaysFallback, NEW i \in Isolates,
           NEW hint \in RateAt, hint # NoRate => hint.rate \in heard,
           NEW x \in RateAnswers(i, hint)
    PROVE  /\ x.rate \in Nat /\ x.memo \in RateAt /\ x.new \subseteq Nat \ {0}
           /\ x.live => x.rate \in heard \cup x.new
           /\ x.memo # NoRate => x.memo.rate \in heard \cup x.new
<1>1. memo[i] \in RateAt /\ (memo[i] # NoRate => memo[i].rate \in heard)
  BY DEF FeeTypeOK, FallbackStaysFallback
<1>2. now \in Nat /\ FallbackRate \in Nat
  BY DEF FeeTypeOK, FeeAssumption
<1>3. CASE RateFresh(memo[i])
  <2>1. x = [rate |-> memo[i].rate, live |-> TRUE, memo |-> memo[i], new |-> {}]
    BY <1>3 DEF RateAnswers
  <2>. QED
    BY <2>1, <1>1, <1>3 DEF RateFresh, RateAt
<1>4. CASE ~RateFresh(memo[i]) /\ RateFresh(hint)
  <2>1. x = [rate |-> hint.rate, live |-> TRUE, memo |-> hint, new |-> {}]
    BY <1>4 DEF RateAnswers
  <2>. QED
    BY <2>1, <1>4 DEF RateFresh, RateAt
<1>5. CASE ~RateFresh(memo[i]) /\ ~RateFresh(hint)
  <2>1. CASE \E r \in SourceAnswers :
               x = [rate |-> r, live |-> TRUE, memo |-> [rate |-> r, at |-> now], new |-> {r}]
    BY <2>1, <1>2, SourcesAnswerNumbers DEF RateAt
  <2>2. CASE x = [rate |-> IF memo[i] # NoRate THEN memo[i].rate
                           ELSE IF hint # NoRate THEN hint.rate ELSE FallbackRate,
                  live |-> FALSE, memo |-> memo[i], new |-> {}]
    BY <2>2, <1>1, <1>2 DEF RateAt
  <2>. QED
    BY <1>5, <2>1, <2>2 DEF RateAnswers
<1>. QED
  BY <1>3, <1>4, <1>5

LEMMA PrioritiesAreEnough ==
    ASSUME FeeAssumption, FeeTypeOK, NEW i \in Isolates, NEW p \in PriorityAnswers(i)
    PROVE  p.lamports \in Nat /\ p.lamports >= Attached /\ p.asks \in BOOLEAN
<1>1. Attached \in Nat /\ Estimates \subseteq Nat
  BY DEF FeeAssumption
<1>2. \/ \E e \in Estimates : p = [lamports |-> AtLeast(e, Attached), asks |-> TRUE]
      \/ \E asks \in BOOLEAN : p = [lamports |-> Attached, asks |-> asks]
  BY Zenon DEF PriorityAnswers
<1>3. ASSUME NEW e \in Estimates, p = [lamports |-> AtLeast(e, Attached), asks |-> TRUE]
      PROVE  p.lamports \in Nat /\ p.lamports >= Attached /\ p.asks \in BOOLEAN
  BY <1>1, <1>3 DEF AtLeast
<1>4. ASSUME NEW asks \in BOOLEAN, p = [lamports |-> Attached, asks |-> asks]
      PROVE  p.lamports \in Nat /\ p.lamports >= Attached /\ p.asks \in BOOLEAN
  BY <1>1, <1>4
<1>. QED
  BY <1>2, <1>3, <1>4
-----------------------------------------------------------------------------
(* One lemma per action.                                                     *)

\* Reading a row touches no figure: the hint it leaves has been heard.
LEMMA QuoteReadKeeps ==
    ASSUME FeeAssumption, FeeInv, NEW i \in Isolates, QuoteRead(i)
    PROVE  FeeInv'
<1>. USE DEF FeeInv
<1>1. PICK hint \in Hints : pricing' = [pricing EXCEPT ![i] = [busy |-> TRUE, hint |-> hint]]
  BY DEF QuoteRead
<1>2. hint \in RateAt /\ (hint # NoRate => hint.rate \in heard)
  BY HintsAreHeard
<1>3. UNCHANGED <<now, memo, estimator, quotes, pruned, orders, heard>>
  BY DEF QuoteRead
<1>4. FeeTypeOK'
  BY <1>1, <1>2, <1>3 DEF FeeTypeOK
<1>5. HintsHeard'
  BY <1>1, <1>2, <1>3 DEF HintsHeard, FeeTypeOK
<1>6. FallbackStaysFallback' /\ QuotesCover' /\ OrdersFit'
  BY <1>3 DEF FallbackStaysFallback, QuotesCover, OrdersFit, Rows
<1>. QED
  BY <1>4, <1>5, <1>6

\* A new row is labelled live only when its rate has been heard, and its fee
\* is worth its lamports.
LEMMA QuoteWriteKeeps ==
    ASSUME FeeAssumption, FeeInv, NEW i \in Isolates, QuoteWrite(i)
    PROVE  FeeInv'
<1>1. PICK bytes \in Sizes \cup {WorstSize}, quantity \in Quantities,
           rate \in RateAnswers(i, pricing[i].hint), priority \in PriorityAnswers(i),
           rentAnswered \in BOOLEAN :
        /\ memo' = [memo EXCEPT ![i] = rate.memo]
        /\ estimator' = [estimator EXCEPT ![i] = priority.asks]
        /\ heard' = heard \cup rate.new
        /\ quotes' = Append(quotes,
              [bytes |-> bytes, quantity |-> quantity,
               lamports |-> quantity * MintLamports(priority.lamports, bytes),
               rate |-> rate.rate,
               fee |-> FeeFor(quantity * MintLamports(priority.lamports, bytes), rate.rate),
               confidence |-> IF rate.live /\ rentAnswered THEN "estimated" ELSE "fallback",
               expiresAt |-> now + QuoteTtl, createdAt |-> now])
  BY Zenon DEF QuoteWrite
<1>. DEFINE lamports == quantity * MintLamports(priority.lamports, bytes)
            fee == FeeFor(lamports, rate.rate)
            row == [bytes |-> bytes, quantity |-> quantity, lamports |-> lamports,
                    rate |-> rate.rate, fee |-> fee,
                    confidence |-> IF rate.live /\ rentAnswered THEN "estimated" ELSE "fallback",
                    expiresAt |-> now + QuoteTtl, createdAt |-> now]
<1>2. /\ pricing' = [pricing EXCEPT ![i] = Unpriced]
      /\ now' = now /\ pruned' = pruned /\ orders' = orders
      /\ Len(quotes) < MaxQuotes
  BY DEF QuoteWrite
<1>3. FeeTypeOK /\ FallbackStaysFallback /\ HintsHeard /\ QuotesCover /\ OrdersFit
  BY DEF FeeInv
<1>4. bytes \in Nat /\ quantity \in Nat
  BY SizesAreNatural DEF FeeAssumption
<1>5. pricing[i].hint \in RateAt /\ (pricing[i].hint # NoRate => pricing[i].hint.rate \in heard)
  BY <1>3 DEF FeeTypeOK, HintsHeard
<1>6. /\ rate.rate \in Nat /\ rate.memo \in RateAt /\ rate.new \subseteq Nat \ {0}
      /\ rate.live => rate.rate \in heard \cup rate.new
      /\ rate.memo # NoRate => rate.memo.rate \in heard \cup rate.new
  BY <1>3, <1>5, RatesAreHeard
<1>7. priority.lamports \in Nat /\ priority.lamports >= Attached /\ priority.asks \in BOOLEAN
  BY <1>3, PrioritiesAreEnough
<1>8. Attached \in Nat
  BY DEF FeeAssumption
<1>9. /\ MintLamports(Attached, bytes) \in Nat
      /\ MintLamports(priority.lamports, bytes) \in Nat
      /\ MintLamports(Attached, bytes) <= MintLamports(priority.lamports, bytes)
  <2>1. MintLamports(Attached, bytes) \in Nat
    BY <1>4, <1>8, LamportsAreNatural
  <2>2. MintLamports(priority.lamports, bytes) \in Nat
    BY <1>4, <1>7, LamportsAreNatural
  <2>3. Attached <= priority.lamports /\ bytes <= bytes
    BY <1>4, <1>7, <1>8
  <2>4. MintLamports(Attached, bytes) <= MintLamports(priority.lamports, bytes)
    BY <1>4, <1>7, <1>8, <2>3, LamportsGrow
  <2>. QED
    BY <2>1, <2>2, <2>4
<1>10. lamports \in Nat /\ lamports >= quantity * MintLamports(Attached, bytes)
  BY <1>4, <1>9, ProductsGrow
<1>. HIDE DEF lamports
<1>11. fee \in Nat /\ fee * Scale >= lamports * rate.rate
  BY <1>6, <1>10, FeeCovers
<1>. HIDE DEF fee
<1>12. now \in Nat /\ now + QuoteTtl \in Nat
  BY <1>3 DEF FeeTypeOK, FeeAssumption
<1>13. row \in QuoteRow
  BY <1>4, <1>6, <1>10, <1>11, <1>12 DEF QuoteRow
<1>14. quotes' = Append(quotes, row)
  BY <1>1 DEF lamports, fee
<1>15. /\ row.fee = fee /\ row.lamports = lamports /\ row.rate = rate.rate
       /\ row.bytes = bytes /\ row.quantity = quantity
       /\ row.confidence = "estimated" => rate.live
  OBVIOUS
<1>. HIDE DEF row
<1>16. /\ quotes \in Seq(QuoteRow) /\ quotes' \in Seq(QuoteRow)
       /\ Len(quotes') = Len(quotes) + 1
       /\ quotes'[Len(quotes) + 1] = row
       /\ DOMAIN quotes' = DOMAIN quotes \cup {Len(quotes) + 1}
       /\ \A n \in DOMAIN quotes : quotes'[n] = quotes[n]
  BY <1>3, <1>13, <1>14 DEF FeeTypeOK
<1>17. FeeTypeOK'
  <2>1. Len(quotes') <= MaxQuotes
    BY <1>2, <1>3, <1>16 DEF FeeTypeOK, FeeAssumption
  <2>2. memo' \in [Isolates -> RateAt] /\ estimator' \in [Isolates -> BOOLEAN]
    BY <1>1, <1>3, <1>6, <1>7 DEF FeeTypeOK
  <2>3. pruned' \subseteq DOMAIN quotes'
    BY <1>2, <1>3, <1>16 DEF FeeTypeOK
  <2>4. orders' \subseteq [quote : DOMAIN quotes', bytes : Sizes, fee : Nat, total : Nat]
    BY <1>2, <1>3, <1>16 DEF FeeTypeOK
  <2>5. heard' \subseteq Nat \ {0}
    BY <1>1, <1>3, <1>6 DEF FeeTypeOK
  <2>6. pricing' \in [Isolates -> [busy : BOOLEAN, hint : RateAt]]
    BY <1>2, <1>3 DEF FeeTypeOK, Unpriced, NoRate, RateAt
  <2>7. now' \in 0..MaxTime
    BY <1>2, <1>3 DEF FeeTypeOK
  <2>. QED
    BY <1>16, <2>1, <2>2, <2>3, <2>4, <2>5, <2>6, <2>7 DEF FeeTypeOK
<1>18. FallbackStaysFallback'
  <2>1. heard' = heard \cup rate.new
    BY <1>1
  <2>2. ASSUME NEW n \in DOMAIN quotes', quotes'[n].confidence = "estimated"
        PROVE  quotes'[n].rate \in heard'
    <3>1. CASE n \in DOMAIN quotes
      BY <1>3, <1>16, <2>1, <2>2, <3>1 DEF FallbackStaysFallback
    <3>2. CASE n = Len(quotes) + 1
      BY <1>6, <1>15, <1>16, <2>1, <2>2, <3>2
    <3>. QED
      BY <1>16, <3>1, <3>2
  <2>3. ASSUME NEW j \in Isolates, memo'[j] # NoRate
        PROVE  memo'[j].rate \in heard'
    <3>1. memo'[j] = IF j = i THEN rate.memo ELSE memo[j]
      BY <1>1, <1>3 DEF FeeTypeOK
    <3>. QED
      BY <1>3, <1>6, <2>1, <2>3, <3>1 DEF FallbackStaysFallback
  <2>. QED
    BY <2>2, <2>3 DEF FallbackStaysFallback
<1>19. HintsHeard'
  <2>1. ASSUME NEW j \in Isolates, pricing'[j].hint # NoRate
        PROVE  pricing'[j].hint.rate \in heard'
    <3>1. j # i /\ pricing'[j] = pricing[j]
      BY <1>2, <1>3, <2>1 DEF FeeTypeOK, Unpriced
    <3>. QED
      BY <1>1, <1>3, <2>1, <3>1 DEF HintsHeard
  <2>. QED
    BY <2>1 DEF HintsHeard
<1>20. QuotesCover'
  <2>1. ASSUME NEW n \in DOMAIN quotes'
        PROVE  /\ quotes'[n].fee * Scale >= quotes'[n].lamports * quotes'[n].rate
               /\ quotes'[n].lamports
                     >= quotes'[n].quantity * MintLamports(Attached, quotes'[n].bytes)
    <3>1. CASE n \in DOMAIN quotes
      BY <1>3, <1>16, <3>1 DEF QuotesCover
    <3>2. CASE n = Len(quotes) + 1
      BY <1>10, <1>11, <1>15, <1>16, <3>2
    <3>. QED
      BY <1>16, <3>1, <3>2
  <2>. QED
    BY <2>1 DEF QuotesCover, MintLamports, Rent
<1>21. OrdersFit'
  <2>1. \A o \in orders : o.quote \in DOMAIN quotes
    BY <1>3 DEF OrdersFit, Rows
  <2>2. Rows \subseteq Rows'
    BY <1>2, <1>16 DEF Rows
  <2>. QED
    BY <1>2, <1>3, <1>16, <2>1, <2>2 DEF OrdersFit
<1>. QED
  BY <1>17, <1>18, <1>19, <1>20, <1>21 DEF FeeInv

\* Forgetting a rate forgets what was heard of it, and nothing else.
LEMMA EvictKeeps ==
    ASSUME FeeAssumption, FeeInv, NEW i \in Isolates, Evict(i)
    PROVE  FeeInv'
<1>. USE DEF FeeInv
<1>1. /\ memo' = [memo EXCEPT ![i] = NoRate]
      /\ estimator' = [estimator EXCEPT ![i] = TRUE]
      /\ pricing' = [pricing EXCEPT ![i] = Unpriced]
      /\ UNCHANGED <<now, quotes, pruned, orders, heard>>
  BY DEF Evict
<1>2. NoRate \in RateAt /\ Unpriced.hint = NoRate /\ Unpriced \in [busy : BOOLEAN, hint : RateAt]
  BY DEF NoRate, RateAt, Unpriced
<1>3. FeeTypeOK'
  BY <1>1, <1>2 DEF FeeTypeOK
<1>4. \A j \in Isolates : memo'[j] = NoRate \/ memo'[j] = memo[j]
  BY <1>1 DEF FeeTypeOK
<1>5. \A j \in Isolates : pricing'[j].hint = NoRate \/ pricing'[j] = pricing[j]
  BY <1>1, <1>2 DEF FeeTypeOK
<1>6. FallbackStaysFallback'
  BY <1>1, <1>4 DEF FallbackStaysFallback
<1>7. HintsHeard'
  BY <1>1, <1>5 DEF HintsHeard
<1>8. QuotesCover' /\ OrdersFit'
  BY <1>1 DEF QuotesCover, OrdersFit, Rows
<1>. QED
  BY <1>3, <1>6, <1>7, <1>8

\* An order is taken on a row that fits it.
LEMMA CreateIntentKeeps ==
    ASSUME FeeAssumption, FeeInv, CreateIntent
    PROVE  FeeInv'
<1>. USE DEF FeeInv
<1>1. PICK n \in Rows, bytes \in Sizes :
        /\ quotes[n].quantity = 1
        /\ Fits(bytes, quotes[n])
        /\ orders' = orders \cup {[quote |-> n, bytes |-> bytes, fee |-> quotes[n].fee,
                                   total |-> Total(quotes[n])]}
  BY DEF CreateIntent
<1>2. UNCHANGED <<now, memo, estimator, quotes, pruned, heard, pricing>>
  BY DEF CreateIntent
<1>3. n \in DOMAIN quotes /\ quotes[n] \in QuoteRow
  BY DEF Rows, FeeTypeOK
<1>4. quotes[n].fee \in Nat /\ Total(quotes[n]) \in Nat
  BY <1>3, TotalsAreNatural DEF QuoteRow
<1>5. FeeTypeOK'
  BY <1>1, <1>2, <1>3, <1>4 DEF FeeTypeOK
<1>6. OrdersFit'
  BY <1>1, <1>2 DEF OrdersFit, Fits, Rows
<1>7. FallbackStaysFallback' /\ HintsHeard' /\ QuotesCover'
  BY <1>2 DEF FallbackStaysFallback, HintsHeard, QuotesCover
<1>. QED
  BY <1>5, <1>6, <1>7

\* Only rows no order holds are pruned.
LEMMA PruneKeeps ==
    ASSUME FeeAssumption, FeeInv, PruneAbandonedQuotes
    PROVE  FeeInv'
<1>. USE DEF FeeInv
<1>1. /\ pruned' = pruned \cup {n \in Rows : Abandoned(n)}
      /\ UNCHANGED <<now, memo, estimator, quotes, orders, heard, pricing>>
  BY DEF PruneAbandonedQuotes
<1>2. FeeTypeOK'
  BY <1>1 DEF FeeTypeOK, Rows
<1>3. \A o \in orders : o.quote \in Rows'
  BY <1>1 DEF OrdersFit, Rows, Abandoned, Unspent
<1>4. OrdersFit'
  BY <1>1, <1>3 DEF OrdersFit
<1>5. FallbackStaysFallback' /\ HintsHeard' /\ QuotesCover'
  BY <1>1 DEF FallbackStaysFallback, HintsHeard, QuotesCover
<1>. QED
  BY <1>2, <1>4, <1>5

LEMMA FeeStepKeeps ==
    ASSUME FeeAssumption, FeeInv, [FeeNext]_feeVars
    PROVE  FeeInv'
<1>1. CASE \E i \in Isolates : QuoteRead(i) \/ QuoteWrite(i) \/ Evict(i)
  BY <1>1, QuoteReadKeeps, QuoteWriteKeeps, EvictKeeps
<1>2. CASE CreateIntent
  BY <1>2, CreateIntentKeeps
<1>3. CASE PruneAbandonedQuotes
  BY <1>3, PruneKeeps
<1>4. CASE Tick
  <2>1. now' \in 0..MaxTime
    BY <1>4 DEF Tick, FeeInv, FeeTypeOK, FeeAssumption
  <2>2. UNCHANGED <<memo, estimator, quotes, pruned, orders, heard, pricing>>
    BY <1>4 DEF Tick
  <2>3. FeeTypeOK'
    BY <2>1, <2>2 DEF FeeInv, FeeTypeOK
  <2>4. FallbackStaysFallback' /\ HintsHeard' /\ QuotesCover' /\ OrdersFit'
    BY <2>2 DEF FeeInv, FallbackStaysFallback, HintsHeard, QuotesCover, OrdersFit, Rows
  <2>. QED
    BY <2>3, <2>4 DEF FeeInv
<1>5. CASE UNCHANGED feeVars
  BY <1>5 DEF feeVars, FeeInv, FeeTypeOK, FallbackStaysFallback, HintsHeard, QuotesCover,
       OrdersFit, Rows
<1>. QED
  BY <1>1, <1>2, <1>3, <1>4, <1>5 DEF FeeNext

LEMMA FeeInvHolds == FeeSpec => []FeeInv
<1>1. FeeInit => FeeInv
  BY FeeAssumption, FeeInitSound
<1>2. FeeInv /\ [FeeNext]_feeVars => FeeInv'
  BY FeeAssumption, FeeStepKeeps
<1>. QED
  BY <1>1, <1>2, PTL DEF FeeSpec
-----------------------------------------------------------------------------
(* What it gives.                                                            *)

\* An order's quote covers the mint of the very asset the order names: its
\* lamports are those of an asset no smaller, at the priority a mint attaches.
LEMMA CoveredOrders == ASSUME FeeAssumption, FeeInv PROVE FeeCoversMint
<1>. SUFFICES ASSUME NEW o \in orders
              PROVE  o.quote \in Rows /\ o.fee * Scale >= SpentOn(o.bytes) * quotes[o.quote].rate
  BY DEF FeeCoversMint
<1>. DEFINE q == quotes[o.quote]
<1>1. o.quote \in Rows /\ q.quantity = 1 /\ o.fee = q.fee /\ o.bytes <= q.bytes
  BY DEF FeeInv, OrdersFit
<1>2. o.quote \in DOMAIN quotes /\ o.bytes \in Nat
  BY <1>1, SizesAreNatural DEF Rows, FeeInv, FeeTypeOK
<1>3. q \in QuoteRow
  BY <1>2 DEF FeeInv, FeeTypeOK
<1>4. q.fee * Scale >= q.lamports * q.rate /\ q.lamports >= q.quantity * MintLamports(Attached, q.bytes)
  BY <1>2 DEF FeeInv, QuotesCover
<1>. HIDE DEF q
<1>5. q.bytes \in Nat /\ q.lamports \in Nat /\ q.rate \in Nat /\ q.fee \in Nat
  BY <1>3 DEF QuoteRow
<1>6. Attached \in Nat /\ Scale \in Nat
  BY DEF FeeAssumption
<1>7. MintLamports(Attached, o.bytes) \in Nat /\ MintLamports(Attached, q.bytes) \in Nat
      /\ MintLamports(Attached, o.bytes) <= MintLamports(Attached, q.bytes)
  <2>1. MintLamports(Attached, o.bytes) \in Nat
    BY <1>2, <1>6, LamportsAreNatural
  <2>2. MintLamports(Attached, q.bytes) \in Nat
    BY <1>5, <1>6, LamportsAreNatural
  <2>3. Attached <= Attached /\ o.bytes <= q.bytes
    BY <1>1, <1>6 DEF q
  <2>4. MintLamports(Attached, o.bytes) <= MintLamports(Attached, q.bytes)
    BY <1>2, <1>5, <1>6, <2>3, LamportsGrow
  <2>. QED
    BY <2>1, <2>2, <2>4
<1>8. SpentOn(o.bytes) \in Nat /\ SpentOn(o.bytes) <= q.lamports
  BY <1>1, <1>4, <1>5, <1>7 DEF SpentOn
<1>9. SpentOn(o.bytes) * q.rate <= q.lamports * q.rate
  BY <1>5, <1>8, ProductsGrow
<1>10. o.fee * Scale >= SpentOn(o.bytes) * q.rate
  <2>1. SpentOn(o.bytes) * q.rate \in Nat /\ q.lamports * q.rate \in Nat /\ q.fee * Scale \in Nat
    BY <1>5, <1>6, <1>8
  <2>. QED
    BY <1>1, <1>4, <1>9, <2>1
<1>. QED
  BY <1>1, <1>10 DEF q

\* Every variable keeps its shape, and no order or pruning names a row that
\* was never written.
THEOREM FeeTypeCorrect == FeeSpec => []FeeTypeOK
<1>1. FeeInv => FeeTypeOK
  BY DEF FeeInv
<1>. QED
  BY <1>1, FeeInvHolds, PTL

\* However isolates, evictions and the database's answers interleave, a rate
\* that is remembered or stored as live was once answered by a price source:
\* the fallback constant never passes for one (pricing.ts, getFeeQuote).
THEOREM FallbackNeverLaunders == FeeSpec => []FallbackStaysFallback
<1>1. FeeInv => FallbackStaysFallback
  BY DEF FeeInv
<1>. QED
  BY <1>1, FeeInvHolds, PTL

\* Whatever the magnitudes, an order's fee is worth what its mint takes out of
\* the vault at the rate it was quoted (fees.ts, createIntent).
THEOREM OrdersPayTheirMint == FeeSpec => []FeeCoversMint
<1>1. FeeInv => FeeCoversMint
  BY FeeAssumption, CoveredOrders
<1>. QED
  BY <1>1, FeeInvHolds, PTL

-----------------------------------------------------------------------------
(* The wallet-signed mint: what its rows may hold, what the audit of one   *)
(* says, and who was handed a mint.                                        *)

EntryRow == [asset : Minted, amount : Spellings, status : {"PENDING", "CONFIRMED"},
             sig : Signatures \cup {Unsigned}, sum : Minted \X Spellings]

Asking == [step : {"none", "guard", "verify", "build", "nftRow", "txRow", "answer"},
           sig : Signatures \cup {Unsigned}, asset : Minted \cup {Unsigned},
           again : BOOLEAN, lost : BOOLEAN]

\* A handler that writes has an asset to write about.
AssetsDrawn ==
    \A m \in Minters : mint[m].step \in {"nftRow", "txRow", "answer"} => mint[m].asset \in Minted

WalletInv == WalletTypeOK /\ AssetsDrawn /\ AuditTellsTruth

LEMMA WalletInitSound == ASSUME WalletInit PROVE WalletInv
<1>. USE DEF WalletInit, NoMint
<1>1. WalletTypeOK
  BY DEF WalletTypeOK
<1>2. AssetsDrawn /\ AuditTellsTruth
  BY DEF AssetsDrawn, AuditTellsTruth
<1>. QED
  BY <1>1, <1>2 DEF WalletInv

\* A step that writes no row of transactions need only keep the types.
LEMMA RowsUntouched ==
    ASSUME WalletInv, UNCHANGED <<entry, edited>>
    PROVE  AuditTellsTruth'
  BY DEF WalletInv, AuditTellsTruth, Verified, Checksum

\* A handler moves on, or ends, and keeps its record sound.
LEMMA HandlerMoves ==
    ASSUME WalletInv, NEW m \in Minters, NEW x \in Asking, mint' = [mint EXCEPT ![m] = x],
           x.step \in {"nftRow", "txRow", "answer"} => x.asset \in Minted
    PROVE  mint' \in [Minters -> Asking] /\ AssetsDrawn'
<1>1. mint \in [Minters -> Asking] /\ AssetsDrawn
  BY DEF WalletInv, WalletTypeOK, Asking
<1>. QED
  BY <1>1 DEF AssetsDrawn

\* A request begins at the guard, or past it when no fee is due.
LEMMA RequestBegins ==
    ASSUME NEW m \in Minters, MintAsks(m)
    PROVE  \E x \in Asking :
              /\ mint' = [mint EXCEPT ![m] = x]
              /\ x.step \in {"guard", "build"} /\ (MintFee > 0 => x.step = "guard")
              /\ x.again => \E h \in handed : h.sig = x.sig /\ ~h.lost
<1>1. PICK s \in Signatures \cup {Unsigned} :
        mint' = [mint EXCEPT ![m] = [NoMint EXCEPT
           !.sig = s, !.step = IF MintFee > 0 THEN "guard" ELSE "build",
           !.again = \E h \in handed : h.sig = s /\ ~h.lost]]
  BY DEF MintAsks
<1>. DEFINE y == IF MintFee > 0 THEN "guard" ELSE "build"
            z == \E h \in handed : h.sig = s /\ ~h.lost
<1>2. y \in {"guard", "build"} /\ (MintFee > 0 => y = "guard")
  OBVIOUS
<1>3. PICK b \in BOOLEAN : b = z
  BY Zenon
<1>. DEFINE x == [NoMint EXCEPT !.sig = s, !.step = y, !.again = b]
<1>4. mint' = [mint EXCEPT ![m] = x]
  BY <1>1, <1>3, Zenon
<1>5. b => z
  BY <1>3, Zenon
<1>. HIDE DEF y
<1>6. /\ DOMAIN x = {"step", "sig", "asset", "again", "lost"}
      /\ x = [f \in {"step", "sig", "asset", "again", "lost"} |-> x[f]]
  BY DEF NoMint
<1>7. x.sig = s /\ x.step = y /\ x.again = b /\ x.asset = Unsigned /\ x.lost = FALSE
  BY DEF NoMint
<1>. HIDE DEF x
<1>8. x \in Asking
  BY <1>2, <1>6, <1>7 DEF Asking
<1>. QED
  BY <1>2, <1>4, <1>5, <1>7, <1>8

\* The steps of a mint that end, or go on to the step named.
LEMMA StepsMove ==
    ASSUME WalletInv, NEW m \in Minters
    PROVE  /\ Leaves(m) => mint' \in [Minters -> Asking] /\ AssetsDrawn'
           /\ Proceeds(m, "verify") => mint' \in [Minters -> Asking] /\ AssetsDrawn'
           /\ Proceeds(m, "build") => mint' \in [Minters -> Asking] /\ AssetsDrawn'
           /\ \A s \in {"txRow", "answer"} :
                 (mint[m].asset \in Minted /\ Proceeds(m, s)) =>
                    mint' \in [Minters -> Asking] /\ AssetsDrawn'
<1>1. mint[m] \in Asking
  BY DEF WalletInv, WalletTypeOK, Asking
<1>2. NoMint \in Asking /\ NoMint.step = "none"
  BY DEF NoMint, Asking
<1>3. Leaves(m) => mint' \in [Minters -> Asking] /\ AssetsDrawn'
  BY <1>2, HandlerMoves DEF Leaves
<1>4. ASSUME NEW s \in {"verify", "build", "txRow", "answer"}, Proceeds(m, s),
             s \in {"verify", "build"} \/ mint[m].asset \in Minted
      PROVE  mint' \in [Minters -> Asking] /\ AssetsDrawn'
  <2>. DEFINE x == [mint[m] EXCEPT !.step = s]
  <2>1. x \in Asking /\ x.step = s /\ x.asset = mint[m].asset
    BY <1>1 DEF Asking
  <2>2. mint' = [mint EXCEPT ![m] = x]
    BY <1>4 DEF Proceeds
  <2>. HIDE DEF x
  <2>3. x.step \in {"nftRow", "txRow", "answer"} => x.asset \in Minted
    BY <1>4, <2>1
  <2>. QED
    BY <2>1, <2>2, <2>3, HandlerMoves
<1>. QED
  BY <1>3, <1>4

LEMMA MintAsksKeeps ==
    ASSUME WalletInv, NEW m \in Minters, MintAsks(m)
    PROVE  WalletInv'
<1>1. PICK x \in Asking :
        mint' = [mint EXCEPT ![m] = x] /\ x.step \in {"guard", "build"}
  BY RequestBegins
<1>2. UNCHANGED <<landed, record, entry, handed, refused, edited>>
  BY DEF MintAsks
<1>3. mint' \in [Minters -> Asking] /\ AssetsDrawn'
  BY <1>1, HandlerMoves
<1>. QED
  BY <1>2, <1>3, RowsUntouched DEF WalletInv, WalletTypeOK, Asking

\* The guard, the verdict and every failure before the rows.
LEMMA DecisionsKeep ==
    ASSUME WalletInv, NEW m \in Minters, FeeGuard(m) \/ FeeVerify(m) \/ MintFails(m)
    PROVE  WalletInv'
<1>1. UNCHANGED <<landed, record, entry, handed, edited>>
  BY DEF FeeGuard, FeeVerify, MintFails
<1>2. Leaves(m) \/ Proceeds(m, "verify") \/ Proceeds(m, "build")
  BY DEF FeeGuard, FeeVerify, MintFails
<1>3. mint' \in [Minters -> Asking] /\ AssetsDrawn'
  BY <1>2, StepsMove
<1>4. refused' \subseteq Signatures
  <2>1. refused \subseteq Signatures /\ landed \subseteq Signatures
    BY DEF WalletInv, WalletTypeOK
  <2>2. refused' = refused \/ (mint[m].sig \in landed /\ refused' = refused \cup {mint[m].sig})
    BY DEF FeeGuard, FeeVerify, MintFails
  <2>. QED
    BY <2>1, <2>2
<1>. QED
  BY <1>1, <1>3, <1>4, RowsUntouched DEF WalletInv, WalletTypeOK, Asking

LEMMA MintBuildsKeeps ==
    ASSUME WalletInv, NEW m \in Minters, MintBuilds(m)
    PROVE  WalletInv'
<1>1. PICK a \in Minted : mint' = [mint EXCEPT ![m].step = "nftRow", ![m].asset = a]
  BY DEF MintBuilds
<1>2. UNCHANGED <<landed, record, entry, handed, refused, edited>>
  BY DEF MintBuilds
<1>. DEFINE x == [mint[m] EXCEPT !.step = "nftRow", !.asset = a]
<1>3. mint[m] \in Asking
  BY DEF WalletInv, WalletTypeOK, Asking
<1>4. x \in Asking /\ x.asset = a
  BY <1>3 DEF Asking
<1>5. mint' = [mint EXCEPT ![m] = x]
  BY <1>1
<1>. HIDE DEF x
<1>6. mint' \in [Minters -> Asking] /\ AssetsDrawn'
  BY <1>4, <1>5, HandlerMoves
<1>. QED
  BY <1>2, <1>6, RowsUntouched DEF WalletInv, WalletTypeOK, Asking

LEMMA NftRowKeeps ==
    ASSUME WalletInv, NEW m \in Minters, NftRow(m)
    PROVE  WalletInv'
<1>1. mint[m].asset \in Minted
  BY DEF NftRow, AtStep, WalletInv, AssetsDrawn
<1>2. mint' \in [Minters -> Asking] /\ AssetsDrawn'
  BY <1>1, StepsMove DEF NftRow
<1>3. /\ record' = record \cup {mint[m].asset}
      /\ UNCHANGED <<landed, entry, handed, refused, edited>>
  BY DEF NftRow
<1>. QED
  BY <1>1, <1>2, <1>3, RowsUntouched DEF WalletInv, WalletTypeOK, Asking

\* What is hashed is what the column gives back, whatever the caller wrote.
LEMMA TxRowKeeps ==
    ASSUME WalletAssumption, WalletInv, NEW m \in Minters, TxRow(m)
    PROVE  WalletInv'
<1>1. mint[m].step = "txRow" /\ mint[m].asset \in Minted
  BY DEF TxRow, AtStep, WalletInv, AssetsDrawn
<1>2. mint' \in [Minters -> Asking] /\ AssetsDrawn'
  BY <1>1, StepsMove DEF TxRow
<1>3. UNCHANGED <<landed, record, handed, refused, edited>>
  BY DEF TxRow
<1>4. CASE UNCHANGED entry
  BY <1>2, <1>3, <1>4, RowsUntouched DEF WalletInv, WalletTypeOK, Asking
<1>5. CASE \E amount \in Spellings :
              entry' = Append(entry, Audited(mint[m].asset, amount, mint[m].sig))
  <2>1. PICK amount \in Spellings :
               entry' = Append(entry, Audited(mint[m].asset, amount, mint[m].sig))
    BY <1>5
  <2>. DEFINE x == Audited(mint[m].asset, amount, mint[m].sig)
  <2>2. Decimal[amount] \in Spellings /\ mint[m].sig \in Signatures \cup {Unsigned}
    BY DEF WalletAssumption, WalletInv, WalletTypeOK
  <2>3. x \in EntryRow /\ Verified(x)
    BY <1>1, <2>2 DEF Audited, EntryRow, Checksum, Hashed, Verified
  <2>. HIDE DEF x
  <2>4. entry \in Seq(EntryRow) /\ edited \subseteq DOMAIN entry
    BY DEF WalletInv, WalletTypeOK, EntryRow
  <2>5. entry' = Append(entry, x)
    BY <2>1 DEF x
  <2>6. /\ entry' \in Seq(EntryRow) /\ DOMAIN entry' = DOMAIN entry \cup {Len(entry) + 1}
        /\ entry'[Len(entry) + 1] = x /\ Len(entry) + 1 \notin DOMAIN entry
        /\ \A n \in DOMAIN entry : entry'[n] = entry[n]
    BY <2>3, <2>4, <2>5
  <2>7. WalletTypeOK'
    BY <1>2, <1>3, <2>4, <2>6 DEF WalletInv, WalletTypeOK, Asking, EntryRow
  <2>8. AuditTellsTruth'
    <3>1. SUFFICES ASSUME NEW n \in DOMAIN entry'
                   PROVE  Verified(entry'[n]) <=> n \notin edited
      BY <1>3 DEF AuditTellsTruth, Verified, Checksum
    <3>2. CASE n \in DOMAIN entry
      BY <2>6, <3>2 DEF WalletInv, AuditTellsTruth
    <3>3. CASE n = Len(entry) + 1
      BY <2>3, <2>4, <2>6, <3>3
    <3>. QED
      BY <2>6, <3>2, <3>3
  <2>. QED
    BY <1>2, <2>7, <2>8 DEF WalletInv
<1>. QED
  BY <1>4, <1>5 DEF TxRow

LEMMA RowsFailKeeps ==
    ASSUME WalletInv, NEW m \in Minters, RowsFail(m)
    PROVE  WalletInv'
<1>. DEFINE x == [mint[m] EXCEPT !.step = "answer", !.lost = TRUE]
<1>1. mint[m] \in Asking /\ mint[m].asset \in Minted
  BY DEF RowsFail, WalletInv, WalletTypeOK, Asking, AssetsDrawn
<1>2. x \in Asking /\ x.asset \in Minted
  BY <1>1 DEF Asking
<1>3. mint' = [mint EXCEPT ![m] = x]
  BY DEF RowsFail
<1>. HIDE DEF x
<1>4. mint' \in [Minters -> Asking] /\ AssetsDrawn'
  BY <1>2, <1>3, HandlerMoves
<1>5. UNCHANGED <<landed, record, entry, handed, refused, edited>>
  BY DEF RowsFail
<1>. QED
  BY <1>4, <1>5, RowsUntouched DEF WalletInv, WalletTypeOK, Asking

LEMMA MintAnswersKeeps ==
    ASSUME WalletInv, NEW m \in Minters, MintAnswers(m)
    PROVE  WalletInv'
<1>1. mint[m].asset \in Minted /\ mint[m] \in Asking
  BY DEF MintAnswers, AtStep, WalletInv, AssetsDrawn, WalletTypeOK, Asking
<1>2. mint' \in [Minters -> Asking] /\ AssetsDrawn'
  BY StepsMove DEF MintAnswers
<1>3. /\ handed' = handed \cup {[asset |-> mint[m].asset, sig |-> mint[m].sig,
                                  again |-> mint[m].again, lost |-> mint[m].lost]}
      /\ UNCHANGED <<landed, record, entry, refused, edited>>
  BY DEF MintAnswers
<1>. QED
  BY <1>1, <1>2, <1>3, RowsUntouched DEF WalletInv, WalletTypeOK, Asking

LEMMA FeeLandsKeeps ==
    ASSUME WalletInv, FeeLands
    PROVE  WalletInv'
<1>1. landed' \subseteq Signatures /\ UNCHANGED <<record, entry, mint, handed, refused, edited>>
  BY DEF FeeLands, WalletInv, WalletTypeOK
<1>. QED
  BY <1>1, RowsUntouched DEF WalletInv, WalletTypeOK, AssetsDrawn

\* Confirming a row changes nothing the checksum covers.
LEMMA EntryConfirmsKeeps ==
    ASSUME WalletInv, EntryConfirms
    PROVE  WalletInv'
<1>1. PICK n \in DOMAIN entry : entry' = [entry EXCEPT ![n].status = "CONFIRMED"]
  BY DEF EntryConfirms
<1>2. UNCHANGED <<landed, record, mint, handed, refused, edited>>
  BY DEF EntryConfirms
<1>. DEFINE x == [entry[n] EXCEPT !.status = "CONFIRMED"]
<1>3. entry \in Seq(EntryRow) /\ entry[n] \in EntryRow
  <2>1. entry \in Seq(EntryRow)
    BY DEF WalletInv, WalletTypeOK, EntryRow
  <2>. QED
    BY <2>1
<1>4. x \in EntryRow /\ x.asset = entry[n].asset /\ x.amount = entry[n].amount /\ x.sum = entry[n].sum
  BY <1>3 DEF EntryRow
<1>5. entry' = [entry EXCEPT ![n] = x]
  BY <1>1
<1>. HIDE DEF x
<1>6. /\ entry' \in Seq(EntryRow) /\ DOMAIN entry' = DOMAIN entry
      /\ \A k \in DOMAIN entry : entry'[k] = IF k = n THEN x ELSE entry[k]
  BY <1>3, <1>4, <1>5
<1>7. WalletTypeOK'
  BY <1>2, <1>6 DEF WalletInv, WalletTypeOK, EntryRow
<1>8. AuditTellsTruth'
  BY <1>2, <1>4, <1>6 DEF WalletInv, AuditTellsTruth, Verified, Checksum
<1>9. AssetsDrawn'
  BY <1>2 DEF WalletInv, AssetsDrawn
<1>. QED
  BY <1>7, <1>8, <1>9 DEF WalletInv

\* Altering an amount moves it from under its checksum.
LEMMA EntryAlteredKeeps ==
    ASSUME WalletAssumption, WalletInv, EntryAltered
    PROVE  WalletInv'
<1>1. PICK n \in DOMAIN entry \ edited, amount \in {Decimal[a] : a \in Spellings} :
         /\ amount # entry[n].amount
         /\ entry' = [entry EXCEPT ![n].amount = amount]
         /\ edited' = edited \cup {n}
  BY DEF EntryAltered
<1>2. UNCHANGED <<landed, record, mint, handed, refused>>
  BY DEF EntryAltered
<1>. DEFINE x == [entry[n] EXCEPT !.amount = amount]
<1>3. entry \in Seq(EntryRow) /\ entry[n] \in EntryRow
  <2>1. entry \in Seq(EntryRow)
    BY DEF WalletInv, WalletTypeOK, EntryRow
  <2>. QED
    BY <2>1
<1>4. amount \in Spellings
  BY DEF WalletAssumption
<1>5. x \in EntryRow /\ x.asset = entry[n].asset /\ x.amount = amount /\ x.sum = entry[n].sum
  BY <1>3, <1>4 DEF EntryRow
<1>6. entry' = [entry EXCEPT ![n] = x]
  BY <1>1
<1>. HIDE DEF x
<1>7. /\ entry' \in Seq(EntryRow) /\ DOMAIN entry' = DOMAIN entry
      /\ \A k \in DOMAIN entry : entry'[k] = IF k = n THEN x ELSE entry[k]
  BY <1>3, <1>5, <1>6
<1>8. WalletTypeOK'
  BY <1>1, <1>2, <1>7 DEF WalletInv, WalletTypeOK, EntryRow
<1>9. ~Verified(x)
  <2>1. Verified(entry[n])
    BY <1>1 DEF WalletInv, AuditTellsTruth
  <2>. QED
    BY <1>1, <1>5, <2>1 DEF Verified, Checksum
<1>10. AuditTellsTruth'
  <2>1. SUFFICES ASSUME NEW k \in DOMAIN entry
                 PROVE  Verified(entry'[k]) <=> k \notin edited'
    BY <1>7 DEF AuditTellsTruth, Verified, Checksum
  <2>2. CASE k = n
    BY <1>1, <1>7, <1>9, <2>2
  <2>3. CASE k # n
    BY <1>1, <1>7, <2>3 DEF WalletInv, AuditTellsTruth
  <2>. QED
    BY <2>2, <2>3
<1>11. AssetsDrawn'
  BY <1>2 DEF WalletInv, AssetsDrawn
<1>. QED
  BY <1>8, <1>10, <1>11 DEF WalletInv

LEMMA WalletStepKeeps ==
    ASSUME WalletAssumption, WalletInv, [WalletNext]_walletVars
    PROVE  WalletInv'
<1>1. ASSUME NEW m \in Minters,
             \/ MintAsks(m) \/ FeeGuard(m) \/ FeeVerify(m) \/ MintBuilds(m)
             \/ NftRow(m) \/ TxRow(m) \/ RowsFail(m) \/ MintAnswers(m) \/ MintFails(m)
      PROVE  WalletInv'
  BY <1>1, MintAsksKeeps, DecisionsKeep, MintBuildsKeeps, NftRowKeeps, TxRowKeeps, RowsFailKeeps,
     MintAnswersKeeps
<1>2. CASE FeeLands \/ EntryConfirms \/ EntryAltered
  BY <1>2, FeeLandsKeeps, EntryConfirmsKeeps, EntryAlteredKeeps
<1>3. CASE UNCHANGED walletVars
  BY <1>3 DEF walletVars, WalletInv, WalletTypeOK, AssetsDrawn, AuditTellsTruth, Verified, Checksum
<1>. QED
  BY <1>1, <1>2, <1>3 DEF WalletNext

LEMMA WalletInvHolds == WalletSpec => []WalletInv
<1>1. WalletInit => WalletInv
  BY WalletInitSound
<1>2. WalletInv /\ [WalletNext]_walletVars => WalletInv'
  BY WalletAssumption, WalletStepKeeps
<1>. QED
  BY <1>1, <1>2, PTL DEF WalletSpec

\* Every variable keeps its shape; an altered row is a row that was written.
THEOREM WalletTypeCorrect == WalletSpec => []WalletTypeOK
<1>1. WalletInv => WalletTypeOK
  BY DEF WalletInv
<1>. QED
  BY <1>1, WalletInvHolds, PTL

\* verifyTransactionChecksum fails on a row exactly when its amount has been
\* altered since: no spelling a caller chose and no confirmation breaks it.
THEOREM AuditsTellTruth == WalletSpec => []AuditTellsTruth
<1>1. WalletInv => AuditTellsTruth
  BY DEF WalletInv
<1>. QED
  BY <1>1, WalletInvHolds, PTL

(* Who is handed a mint.  What the chain said of the fee when it was asked   *)
(* stays so: a landed transaction keeps its balances.                        *)

LEMMA IntGreatest ==
    ASSUME NEW b \in Int, NEW S \in SUBSET Int, S # {}, \A y \in S : y <= b
    PROVE  \E x \in S : \A y \in S : y <= x
<1>. DEFINE T == {k \in Nat : b - k \in S}
<1>1. T # {}
  <2>1. PICK y \in S : TRUE
    OBVIOUS
  <2>2. b - y \in Nat /\ b - (b - y) = y
    BY <2>1
  <2>. QED
    BY <2>1, <2>2
<1>2. PICK k \in T : \A j \in T : k <= j
  BY <1>1, LeastExists
<1>3. ASSUME NEW y \in S
      PROVE  y <= b - k
  <2>1. b - y \in Nat /\ b - (b - y) = y
    OBVIOUS
  <2>2. k <= b - y
    BY <1>2, <2>1
  <2>. QED
    BY <2>2
<1>. QED
  BY <1>2, <1>3

LEMMA Covers ==
    ASSUME NEW b \in Nat, NEW n \in Int
    PROVE  \E c \in Nat : c >= b /\ n <= c /\ -n <= c
<1>1. n >= 0 => b + n \in Nat /\ b + n >= b /\ n <= b + n /\ -n <= b + n
  OBVIOUS
<1>2. ~(n >= 0) => b - n \in Nat /\ b - n >= b /\ n <= b - n /\ -n <= b - n
  OBVIOUS
<1>. QED
  BY <1>1, <1>2

LEMMA Climbs ==
    ASSUME NEW b \in Nat, NEW c \in Nat, NEW n \in Int, c >= b, n <= b, -n <= b
    PROVE  n <= c /\ -n <= c
  OBVIOUS

LEMMA BalancesBounded ==
    ASSUME NEW s \in Seq(Int)
    PROVE  \E b \in Nat : \A i \in DOMAIN s : s[i] <= b /\ -s[i] <= b
<1>. DEFINE Within(k) == \E b \in Nat : \A i \in 1..k : s[i] <= b /\ -s[i] <= b
            Bad == {k \in Nat : k <= Len(s) /\ ~Within(k)}
<1>0. Len(s) \in Nat /\ DOMAIN s = 1..Len(s) /\ \A i \in DOMAIN s : s[i] \in Int
  OBVIOUS
<1>1. ASSUME Bad # {}
      PROVE  FALSE
  <2>1. Bad \in SUBSET Nat
    OBVIOUS
  <2>2. PICK k \in Bad : \A j \in Bad : k <= j
    <3>. HIDE DEF Bad
    <3>. QED
      BY <1>1, <2>1, LeastExists
  <2>3. k # 0
    <3>1. 0 \in Nat /\ \A i \in 1..0 : s[i] <= 0 /\ -s[i] <= 0
      OBVIOUS
    <3>2. Within(0)
      BY <3>1
    <3>. QED
      BY <2>2, <3>2
  <2>4. k \in Nat /\ k <= Len(s) /\ ~Within(k)
    BY <2>2
  <2>5. k \in DOMAIN s /\ k - 1 \in Nat /\ k - 1 <= Len(s) /\ ~(k <= k - 1)
    BY <1>0, <2>3, <2>4
  <2>6. Within(k - 1)
    <3>. HIDE DEF Within
    <3>. QED
      BY <2>2, <2>5
  <2>7. PICK b \in Nat : \A i \in 1..(k - 1) : s[i] <= b /\ -s[i] <= b
    BY <2>6
  <2>8. s[k] \in Int
    BY <1>0, <2>5
  <2>9. PICK c \in Nat : c >= b /\ s[k] <= c /\ -s[k] <= c
    BY <2>7, <2>8, Covers
  <2>10. ASSUME NEW i \in 1..k
         PROVE  s[i] <= c /\ -s[i] <= c
    <3>1. CASE i = k
      BY <2>9, <3>1
    <3>2. CASE i # k
      <4>1. i \in 1..(k - 1) /\ i \in DOMAIN s
        BY <1>0, <2>4, <3>2
      <4>2. s[i] \in Int /\ s[i] <= b /\ -s[i] <= b
        BY <1>0, <2>7, <4>1
      <4>. QED
        BY <2>7, <2>9, <4>2, Climbs
    <3>. QED
      BY <3>1, <3>2
  <2>. QED
    BY <2>4, <2>10
<1>2. Within(Len(s))
  <2>1. Len(s) <= Len(s)
    BY <1>0
  <2>. HIDE DEF Within
  <2>. QED
    BY <1>0, <1>1, <2>1
<1>. QED
  BY <1>0, <1>2

\* The one PaysFee takes for the recipient has gained, and nobody gained more.
LEMMA RecipientGained ==
    ASSUME NEW tx \in Transfers, Gained(tx) # {}
    PROVE  /\ Recipient(tx) \in Gained(tx)
           /\ \A j \in Gained(tx) : tx.delta[j] <= tx.delta[Recipient(tx)]
<1>1. tx.delta \in Seq(Int) /\ tx.fee \in Nat
  BY DEF Transfers
<1>2. Gained(tx) \subseteq DOMAIN tx.delta /\ \A i \in DOMAIN tx.delta : tx.delta[i] \in Int
  BY <1>1 DEF Gained
<1>3. PICK b \in Nat : \A i \in DOMAIN tx.delta : tx.delta[i] <= b
  BY <1>1, BalancesBounded
<1>. DEFINE S == {tx.delta[i] : i \in Gained(tx)}
            R == {i \in Gained(tx) : \A j \in Gained(tx) : tx.delta[j] <= tx.delta[i]}
<1>4. S # {} /\ S \in SUBSET Int /\ b \in Int /\ \A y \in S : y <= b
  BY <1>2, <1>3
<1>5. PICK x \in S : \A y \in S : y <= x
  <2>. HIDE DEF S
  <2>. QED
    BY <1>4, IntGreatest
<1>6. R # {} /\ R \subseteq Nat
  BY <1>1, <1>2, <1>5
<1>7. PICK r \in R : \A q \in R : r <= q
  BY <1>6, LeastExists
<1>8. Min(R) \in R
  BY <1>7 DEF Min
<1>. QED
  BY <1>8 DEF Recipient

\* What moved is one of the losses, or zero, and no loss exceeds it.
LEMMA MovedIsLargest ==
    ASSUME NEW tx \in Transfers
    PROVE  /\ Moved(tx) = 0 \/ \E i \in DOMAIN tx.delta : Moved(tx) = -Adjusted(tx, i)
           /\ Moved(tx) \in Int
           /\ \A i \in DOMAIN tx.delta : -Adjusted(tx, i) <= Moved(tx)
<1>1. tx.delta \in Seq(Int) /\ tx.fee \in Nat /\ \A i \in DOMAIN tx.delta : tx.delta[i] \in Int
  BY DEF Transfers
<1>2. \A i \in DOMAIN tx.delta : Adjusted(tx, i) \in Int
  BY <1>1 DEF Adjusted
<1>. DEFINE L == {0} \cup {-Adjusted(tx, i) : i \in DOMAIN tx.delta}
<1>3. L # {} /\ L \in SUBSET Int
  BY <1>2
<1>4. PICK b \in Nat : \A i \in DOMAIN tx.delta : tx.delta[i] <= b /\ -tx.delta[i] <= b
  BY <1>1, BalancesBounded
<1>5. b + tx.fee \in Int /\ \A y \in L : y <= b + tx.fee
  <2>1. b + tx.fee \in Nat
    BY <1>1
  <2>2. ASSUME NEW i \in DOMAIN tx.delta
        PROVE  -Adjusted(tx, i) <= b + tx.fee
    <3>1. tx.delta[i] \in Int /\ -tx.delta[i] <= b
      BY <1>1, <1>4
    <3>2. CASE i = 1
      BY <1>1, <3>1, <3>2 DEF Adjusted
    <3>3. CASE i # 1
      BY <1>1, <3>1, <3>3 DEF Adjusted
    <3>. QED
      BY <3>2, <3>3
  <2>. QED
    BY <2>1, <2>2
<1>6. PICK x \in L : \A y \in L : y <= x
  <2>. HIDE DEF L
  <2>. QED
    BY <1>3, <1>5, IntGreatest
<1>7. Max(L) \in L /\ \A y \in L : y <= Max(L)
  BY <1>6 DEF Max
<1>8. Moved(tx) = Max(L)
  BY DEF Moved
<1>. QED
  BY <1>3, <1>7, <1>8

\* A payment that passes succeeded, and nobody was given more than the treasury
\* but for the network fee.
LEMMA PaysMeansGained ==
    ASSUME NEW tx \in Transfers, Treasury \in DOMAIN tx.delta, PaysFee(tx)
    PROVE  /\ ~tx.failed
           /\ Adjusted(tx, Treasury) > 0
           /\ \A i \in DOMAIN tx.delta : Received(tx, i) <= Received(tx, Treasury) + 2 * tx.fee
<1>1. ~tx.failed /\ Gained(tx) # {} /\ Recipient(tx) = Treasury
  BY DEF PaysFee, MovesSol
<1>2. Treasury \in Gained(tx) /\ \A j \in Gained(tx) : tx.delta[j] <= tx.delta[Treasury]
  BY <1>1, RecipientGained
<1>3. tx.fee \in Nat /\ \A i \in DOMAIN tx.delta : tx.delta[i] \in Int
  BY DEF Transfers
<1>4. Adjusted(tx, Treasury) > 0
  BY <1>2 DEF Gained
<1>5. ASSUME NEW i \in DOMAIN tx.delta
      PROVE  Received(tx, i) <= Received(tx, Treasury) + 2 * tx.fee
  <2>1. CASE i \in Gained(tx)
    BY <1>2, <1>3, <2>1 DEF Received
  <2>2. CASE i \notin Gained(tx)
    <3>1. ~(Adjusted(tx, i) > 0)
      BY <2>2 DEF Gained
    <3>. QED
      BY <1>3, <1>4, <3>1 DEF Received, Adjusted
  <2>. QED
    BY <2>1, <2>2
<1>. QED
  BY <1>1, <1>4, <1>5

\* Of a plain transfer that passes, the treasury has the fee, or the fee less
\* twice the network fee its payer paid.
LEMMA PlainPaysFee ==
    ASSUME NEW tx \in Transfers, Treasury \in DOMAIN tx.delta, PaysFee(tx),
           MintFee \in Nat, MintFee > 0, NEW p \in DOMAIN tx.delta, Transfer(tx, p)
    PROVE  /\ Received(tx, Treasury) + 2 * tx.fee >= MintFee
           /\ (p # 1 /\ MintFee > 2 * tx.fee) => Received(tx, Treasury) >= MintFee
<1>1. tx.fee \in Nat /\ \A i \in DOMAIN tx.delta : tx.delta[i] \in Int
  BY DEF Transfers
<1>2. Moved(tx) >= MintFee /\ Moved(tx) \in Int
  BY MovedIsLargest DEF PaysFee
<1>3. Adjusted(tx, Treasury) > 0
  BY PaysMeansGained
<1>4. PICK i \in DOMAIN tx.delta : Moved(tx) = -Adjusted(tx, i)
  BY <1>2, MovedIsLargest
<1>5. i # Treasury
  BY <1>1, <1>2, <1>3, <1>4 DEF Adjusted
<1>6. CASE i = p
  <2>1. Received(tx, p) = -Received(tx, Treasury)
    BY DEF Transfer
  <2>. QED
    BY <1>1, <1>2, <1>4, <1>6, <2>1 DEF Adjusted, Received
<1>7. CASE i # p
  <2>1. Received(tx, i) = 0
    BY <1>5, <1>7 DEF Transfer
  <2>2. Received(tx, Treasury) > 0 /\ Received(tx, Treasury) \in Int
    BY <1>1, <1>3 DEF Adjusted, Received
  <2>3. -Adjusted(tx, i) <= 2 * tx.fee
    BY <1>1, <2>1 DEF Adjusted, Received
  <2>4. MintFee <= 2 * tx.fee
    BY <1>1, <1>2, <1>4, <2>3
  <2>. QED
    BY <1>1, <2>2, <2>4
<1>. QED
  BY <1>6, <1>7

\* The network fee only makes a payment look larger, so the whole fee passes.
LEMMA FullMeansPaid ==
    ASSUME NEW tx \in Transfers, Treasury \in DOMAIN tx.delta, MintFee \in Nat, MintFee > 0,
           PaidInFull(tx)
    PROVE  PaysFee(tx)
<1>1. tx.fee \in Nat /\ \A i \in DOMAIN tx.delta : tx.delta[i] \in Int
  BY DEF Transfers
<1>2. \A i \in DOMAIN tx.delta : Adjusted(tx, i) \in Int /\ Adjusted(tx, i) <= tx.delta[i]
  BY <1>1 DEF Adjusted
<1>3. Gained(tx) = {Treasury}
  <2>1. Treasury \in Gained(tx)
    BY <1>2 DEF PaidInFull, Gained
  <2>2. ASSUME NEW i \in DOMAIN tx.delta, i # Treasury
        PROVE  ~(Adjusted(tx, i) > 0)
    BY <1>1, <1>2, <2>2 DEF PaidInFull
  <2>. QED
    BY <2>1, <2>2 DEF Gained
<1>4. Recipient(tx) = Treasury
  BY <1>3, RecipientGained
<1>5. PICK p \in DOMAIN tx.delta : tx.delta[p] <= -MintFee
  BY DEF PaidInFull
<1>6. -Adjusted(tx, p) >= MintFee
  BY <1>1, <1>2, <1>5
<1>7. Moved(tx) >= MintFee /\ Moved(tx) > 0
  BY <1>2, <1>5, <1>6, MovedIsLargest
<1>. QED
  BY <1>3, <1>4, <1>7 DEF PaysFee, MovesSol, PaidInFull

\* A handler past the check, and a mint handed out, have a fee on chain; what
\* the balances refused did not pay.
PaidInv ==
    MintFee > 0 =>
       /\ \A m \in Minters : mint[m].step \in {"build", "nftRow", "txRow", "answer"} =>
             mint[m].sig \in landed /\ PaysFee(Movement[mint[m].sig])
       /\ \A h \in handed : h.sig \in landed /\ PaysFee(Movement[h.sig])
       /\ \A s \in refused : ~PaysFee(Movement[s])

LEMMA PaidInitSound == ASSUME WalletInit PROVE PaidInv
  BY DEF WalletInit, NoMint, PaidInv

\* What moves a handler past the check without asking: nothing.
LEMMA PaidGoesOn ==
    ASSUME PaidInv, WalletTypeOK, NEW m \in Minters, NEW x,
           mint' = [mint EXCEPT ![m] = x], UNCHANGED <<landed, handed, refused>>,
           MintFee > 0 /\ x.step \in {"build", "nftRow", "txRow", "answer"} =>
              x.sig \in landed /\ PaysFee(Movement[x.sig])
    PROVE  PaidInv'
<1>1. \A k \in Minters : mint'[k] = IF k = m THEN x ELSE mint[k]
  BY DEF WalletTypeOK
<1>. QED
  BY <1>1 DEF PaidInv

\* Past the build, a handler keeps its signature whatever becomes of its rows.
LEMMA RowsStepOn ==
    ASSUME WalletTypeOK, NEW m \in Minters, NftRow(m) \/ TxRow(m) \/ RowsFail(m)
    PROVE  \E x : /\ mint' = [mint EXCEPT ![m] = x]
                  /\ x.sig = mint[m].sig /\ x.again = mint[m].again
                  /\ x.step \in {"txRow", "answer"}
                  /\ IF RowsFail(m) THEN x.lost = TRUE ELSE x.lost = mint[m].lost
<1>1. mint[m] \in Asking
  BY DEF WalletTypeOK, Asking
<1>2. CASE RowsFail(m)
  <2>. DEFINE x == [mint[m] EXCEPT !.step = "answer", !.lost = TRUE]
  <2>1. /\ x.sig = mint[m].sig /\ x.again = mint[m].again /\ x.step = "answer" /\ x.lost = TRUE
        /\ mint' = [mint EXCEPT ![m] = x]
    BY <1>1, <1>2 DEF RowsFail, Asking
  <2>. HIDE DEF x
  <2>. QED
    BY <1>2, <2>1
<1>3. CASE ~RowsFail(m)
  <2>1. PICK step \in {"txRow", "answer"} : mint' = [mint EXCEPT ![m].step = step]
    BY <1>3 DEF NftRow, TxRow, Proceeds
  <2>. DEFINE x == [mint[m] EXCEPT !.step = step]
  <2>2. /\ x.sig = mint[m].sig /\ x.again = mint[m].again /\ x.step = step
        /\ x.lost = mint[m].lost /\ mint' = [mint EXCEPT ![m] = x] /\ mint[m].lost \in BOOLEAN
    BY <1>1, <2>1 DEF Asking
  <2>. HIDE DEF x
  <2>. QED
    BY <1>3, <2>2
<1>. QED
  BY <1>2, <1>3

LEMMA PaidStepKeeps ==
    ASSUME WalletAssumption, WalletInv, PaidInv, [WalletNext]_walletVars
    PROVE  PaidInv'
<1>. USE DEF WalletInv
<1>1. ASSUME NEW m \in Minters, MintAsks(m)
      PROVE  PaidInv'
  <2>1. PICK x \in Asking :
           /\ mint' = [mint EXCEPT ![m] = x]
           /\ x.step \in {"guard", "build"} /\ (MintFee > 0 => x.step = "guard")
    BY <1>1, RequestBegins
  <2>2. UNCHANGED <<landed, handed, refused>>
    BY <1>1 DEF MintAsks
  <2>3. MintFee > 0 => x.step \notin {"build", "nftRow", "txRow", "answer"}
    BY <2>1
  <2>. QED
    BY <2>1, <2>2, <2>3, PaidGoesOn
<1>2. ASSUME NEW m \in Minters, FeeGuard(m) \/ MintFails(m)
      PROVE  PaidInv'
  <2>1. UNCHANGED <<landed, handed, refused>> /\ (Leaves(m) \/ Proceeds(m, "verify"))
    BY <1>2 DEF FeeGuard, MintFails
  <2>2. CASE Leaves(m)
    BY <2>1, <2>2, PaidGoesOn DEF Leaves, NoMint
  <2>3. CASE Proceeds(m, "verify")
    <3>. DEFINE x == [mint[m] EXCEPT !.step = "verify"]
    <3>1. x.step = "verify" /\ mint' = [mint EXCEPT ![m] = x]
      BY <2>3 DEF Proceeds, WalletTypeOK
    <3>. HIDE DEF x
    <3>. QED
      BY <2>1, <3>1, PaidGoesOn
  <2>. QED
    BY <2>1, <2>2, <2>3
<1>3. ASSUME NEW m \in Minters, FeeVerify(m)
      PROVE  PaidInv'
  <2>. DEFINE s == mint[m].sig
  <2>1. UNCHANGED <<landed, handed>>
    BY <1>3 DEF FeeVerify
  <2>2. CASE s \in landed /\ PaysFee(Movement[s]) /\ Proceeds(m, "build") /\ UNCHANGED refused
    <3>. DEFINE x == [mint[m] EXCEPT !.step = "build"]
    <3>1. x.sig = s /\ mint' = [mint EXCEPT ![m] = x]
      BY <2>2 DEF Proceeds, WalletTypeOK
    <3>. HIDE DEF x
    <3>. QED
      BY <2>1, <2>2, <3>1, PaidGoesOn
  <2>3. CASE Leaves(m) /\ refused' = IF s \in landed /\ ~PaysFee(Movement[s])
                                    THEN refused \cup {s} ELSE refused
    <3>1. \A k \in Minters : mint'[k] = IF k = m THEN NoMint ELSE mint[k]
      BY <2>3 DEF Leaves, WalletTypeOK
    <3>2. NoMint.step = "none"
      BY DEF NoMint
    <3>3. refused' \subseteq refused \cup {s} /\ (s \in refused' \ refused => ~PaysFee(Movement[s]))
      BY <2>3
    <3>. HIDE DEF s
    <3>4. \A q \in refused' : MintFee > 0 => ~PaysFee(Movement[q])
      BY <3>3 DEF PaidInv
    <3>. QED
      BY <2>1, <3>1, <3>2, <3>4 DEF PaidInv
  <2>4. PICK paid \in Verdicts(s) :
          IF paid THEN Proceeds(m, "build") /\ UNCHANGED refused
          ELSE /\ Leaves(m)
               /\ refused' = IF s \in landed /\ ~PaysFee(Movement[s])
                             THEN refused \cup {s} ELSE refused
    BY <1>3 DEF FeeVerify
  <2>. HIDE DEF s
  <2>5. paid = FALSE \/ (s \in landed /\ PaysFee(Movement[s]))
    BY <2>4 DEF Verdicts
  <2>. QED
    BY <2>2, <2>3, <2>4, <2>5
<1>4. ASSUME NEW m \in Minters, MintBuilds(m)
      PROVE  PaidInv'
  <2>1. PICK a \in Minted : mint' = [mint EXCEPT ![m].step = "nftRow", ![m].asset = a]
    BY <1>4 DEF MintBuilds
  <2>. DEFINE x == [mint[m] EXCEPT !.step = "nftRow", !.asset = a]
  <2>2. x.sig = mint[m].sig /\ mint' = [mint EXCEPT ![m] = x]
    BY <2>1 DEF WalletTypeOK
  <2>. HIDE DEF x
  <2>3. MintFee > 0 => mint[m].sig \in landed /\ PaysFee(Movement[mint[m].sig])
    BY <1>4 DEF MintBuilds, AtStep, PaidInv
  <2>. QED
    BY <1>4, <2>2, <2>3, PaidGoesOn DEF MintBuilds
<1>5. ASSUME NEW m \in Minters, NftRow(m) \/ TxRow(m) \/ RowsFail(m)
      PROVE  PaidInv'
  <2>1. \E x : mint' = [mint EXCEPT ![m] = x] /\ x.sig = mint[m].sig
    BY <1>5, RowsStepOn
  <2>2. PICK x : mint' = [mint EXCEPT ![m] = x] /\ x.sig = mint[m].sig
    BY <2>1
  <2>3. MintFee > 0 => mint[m].sig \in landed /\ PaysFee(Movement[mint[m].sig])
    BY <1>5 DEF NftRow, TxRow, RowsFail, AtStep, PaidInv
  <2>4. UNCHANGED <<landed, handed, refused>>
    BY <1>5 DEF NftRow, TxRow, RowsFail
  <2>. QED
    BY <2>2, <2>3, <2>4, PaidGoesOn
<1>6. ASSUME NEW m \in Minters, MintAnswers(m)
      PROVE  PaidInv'
  <2>1. \A k \in Minters : mint'[k] = IF k = m THEN NoMint ELSE mint[k]
    BY <1>6 DEF MintAnswers, Leaves, WalletTypeOK
  <2>2. NoMint.step = "none"
    BY DEF NoMint
  <2>3. /\ handed' = handed \cup {[asset |-> mint[m].asset, sig |-> mint[m].sig,
                                    again |-> mint[m].again, lost |-> mint[m].lost]}
        /\ UNCHANGED <<landed, refused>> /\ mint[m].step = "answer"
    BY <1>6 DEF MintAnswers, AtStep
  <2>. QED
    BY <2>1, <2>2, <2>3 DEF PaidInv
<1>7. CASE FeeLands
  BY <1>7 DEF FeeLands, PaidInv
<1>8. CASE EntryConfirms \/ EntryAltered
  BY <1>8 DEF EntryConfirms, EntryAltered, PaidInv
<1>9. CASE UNCHANGED walletVars
  BY <1>9 DEF walletVars, PaidInv
<1>. QED
  BY <1>1, <1>2, <1>3, <1>4, <1>5, <1>6, <1>7, <1>8, <1>9 DEF WalletNext

\* Nobody is handed a mint while a fee is due but for a transaction that landed and
\* gave nobody more than the treasury; of a plain transfer the treasury has had the
\* whole fee, or, of a payer who paid the network fee too, all but twice that; and
\* nobody who paid the whole fee is told otherwise by the balances.
THEOREM MintsArePaid == WalletSpec => []NoFreeMint
<1>1. WalletInv /\ PaidInv => NoFreeMint
  <2>. SUFFICES ASSUME WalletInv, PaidInv, MintFee > 0
                PROVE  NoFreeMint
    BY DEF NoFreeMint
  <2>1. landed \subseteq Signatures /\ refused \subseteq Signatures
    BY DEF WalletInv, WalletTypeOK
  <2>2. \A s \in Signatures : Movement[s] \in Transfers /\ Treasury \in DOMAIN Movement[s].delta
    BY WalletAssumption DEF WalletAssumption
  <2>3. MintFee \in Nat
    BY WalletAssumption DEF WalletAssumption
  <2>4. ASSUME NEW h \in handed
        PROVE  /\ h.sig \in landed
               /\ ~Movement[h.sig].failed
               /\ \A i \in DOMAIN Movement[h.sig].delta :
                     Received(Movement[h.sig], i)
                        <= Received(Movement[h.sig], Treasury) + 2 * Movement[h.sig].fee
               /\ \A p \in DOMAIN Movement[h.sig].delta : Transfer(Movement[h.sig], p) =>
                     /\ Received(Movement[h.sig], Treasury) + 2 * Movement[h.sig].fee >= MintFee
                     /\ (p # 1 /\ MintFee > 2 * Movement[h.sig].fee) =>
                           Received(Movement[h.sig], Treasury) >= MintFee
    <3>1. h.sig \in landed /\ PaysFee(Movement[h.sig])
      BY DEF PaidInv
    <3>2. Movement[h.sig] \in Transfers /\ Treasury \in DOMAIN Movement[h.sig].delta
      BY <2>1, <2>2, <3>1
    <3>. QED
      BY <2>3, <3>1, <3>2, PaysMeansGained, PlainPaysFee
  <2>5. ASSUME NEW s \in refused
        PROVE  ~PaidInFull(Movement[s])
    <3>1. ~PaysFee(Movement[s])
      BY DEF PaidInv
    <3>. QED
      BY <2>1, <2>2, <2>3, <3>1, FullMeansPaid
  <2>. QED
    BY <2>4, <2>5 DEF NoFreeMint
<1>2. WalletInit => PaidInv
  BY PaidInitSound
<1>3. WalletInv /\ PaidInv /\ [WalletNext]_walletVars => PaidInv'
  BY WalletAssumption, PaidStepKeeps
<1>. QED
  BY <1>1, <1>2, <1>3, WalletInvHolds, PTL DEF WalletSpec

(* One fee, one mint.  A handed mint whose record did not fail has a row with  *)
(* its signature, and no row of transactions ever loses its signature.         *)

OnceInv ==
    /\ \A g \in handed : ~g.lost => Spent(g.sig)
    /\ \A m \in Minters : mint[m].step = "answer" /\ ~mint[m].lost => Spent(mint[m].sig)
    /\ \A m \in Minters : mint[m].again => Spent(mint[m].sig)
    /\ MintFee > 0 =>
          /\ \A m \in Minters : mint[m].step \notin {"none", "guard"} => ~mint[m].again
          /\ \A h \in handed : ~h.again

LEMMA OnceInitSound == ASSUME WalletInit PROVE OnceInv
  BY DEF WalletInit, NoMint, OnceInv

LEMMA SpentStays ==
    ASSUME WalletInv, [WalletNext]_walletVars, NEW s, Spent(s)
    PROVE  Spent(s)'
<1>1. PICK n \in DOMAIN entry : entry[n].sig = s
  BY DEF Spent
<1>2. entry \in Seq(EntryRow)
  BY DEF WalletInv, WalletTypeOK, EntryRow
<1>3. CASE UNCHANGED entry
  BY <1>1, <1>3 DEF Spent
<1>4. CASE \E x \in EntryRow : entry' = Append(entry, x)
  <2>1. n \in DOMAIN entry' /\ entry'[n] = entry[n]
    BY <1>2, <1>4
  <2>. QED
    BY <1>1, <2>1 DEF Spent
<1>5. CASE \E k \in DOMAIN entry, x \in EntryRow :
              x.sig = entry[k].sig /\ entry' = [entry EXCEPT ![k] = x]
  <2>1. n \in DOMAIN entry' /\ entry'[n].sig = entry[n].sig
    BY <1>5
  <2>. QED
    BY <1>1, <2>1 DEF Spent
<1>6. ASSUME NEW m \in Minters, TxRow(m), ~UNCHANGED entry
      PROVE  \E x \in EntryRow : entry' = Append(entry, x)
  <2>1. PICK amount \in Spellings :
               entry' = Append(entry, Audited(mint[m].asset, amount, mint[m].sig))
    BY <1>6 DEF TxRow
  <2>2. mint[m].asset \in Minted /\ mint[m].sig \in Signatures \cup {Unsigned}
    BY <1>6 DEF TxRow, AtStep, WalletInv, AssetsDrawn, WalletTypeOK
  <2>3. Decimal[amount] \in Spellings
    BY WalletAssumption DEF WalletAssumption
  <2>4. Audited(mint[m].asset, amount, mint[m].sig) \in EntryRow
    BY <2>2, <2>3 DEF Audited, EntryRow, Checksum, Hashed
  <2>. QED
    BY <2>1, <2>4
<1>7. ASSUME EntryConfirms
      PROVE  \E k \in DOMAIN entry, x \in EntryRow :
                x.sig = entry[k].sig /\ entry' = [entry EXCEPT ![k] = x]
  <2>1. PICK k \in DOMAIN entry : entry' = [entry EXCEPT ![k].status = "CONFIRMED"]
    BY <1>7 DEF EntryConfirms
  <2>. DEFINE x == [entry[k] EXCEPT !.status = "CONFIRMED"]
  <2>2. entry[k] \in EntryRow
    BY <1>2
  <2>3. x \in EntryRow /\ x.sig = entry[k].sig /\ entry' = [entry EXCEPT ![k] = x]
    BY <2>1, <2>2 DEF EntryRow
  <2>. HIDE DEF x
  <2>. QED
    BY <2>3
<1>8. ASSUME EntryAltered
      PROVE  \E k \in DOMAIN entry, x \in EntryRow :
                x.sig = entry[k].sig /\ entry' = [entry EXCEPT ![k] = x]
  <2>1. PICK k \in DOMAIN entry, amount \in {Decimal[a] : a \in Spellings} :
           entry' = [entry EXCEPT ![k].amount = amount]
    BY <1>8 DEF EntryAltered
  <2>. DEFINE x == [entry[k] EXCEPT !.amount = amount]
  <2>2. entry[k] \in EntryRow /\ amount \in Spellings
    BY <1>2, WalletAssumption DEF WalletAssumption
  <2>3. x \in EntryRow /\ x.sig = entry[k].sig /\ entry' = [entry EXCEPT ![k] = x]
    BY <2>1, <2>2 DEF EntryRow
  <2>. HIDE DEF x
  <2>. QED
    BY <2>3
<1>9. ASSUME NEW m \in Minters,
             \/ MintAsks(m) \/ FeeGuard(m) \/ FeeVerify(m) \/ MintBuilds(m)
             \/ NftRow(m) \/ RowsFail(m) \/ MintAnswers(m) \/ MintFails(m)
      PROVE  UNCHANGED entry
  BY <1>9 DEF MintAsks, FeeGuard, FeeVerify, MintBuilds, NftRow, RowsFail, MintAnswers, MintFails
<1>10. FeeLands \/ UNCHANGED walletVars => UNCHANGED entry
  BY DEF FeeLands, walletVars
<1>. QED
  BY <1>3, <1>4, <1>5, <1>6, <1>7, <1>8, <1>9, <1>10 DEF WalletNext

\* A step of one handler: it need only answer for itself.
LEMMA OnceGoesOn ==
    ASSUME OnceInv, WalletInv, [WalletNext]_walletVars, NEW m \in Minters, NEW x,
           mint' = [mint EXCEPT ![m] = x], UNCHANGED handed,
           x.step = "answer" /\ ~x.lost => Spent(x.sig)',
           x.again => Spent(x.sig),
           MintFee > 0 /\ x.step \notin {"none", "guard"} => ~x.again
    PROVE  OnceInv'
<1>1. \A k \in Minters : mint'[k] = IF k = m THEN x ELSE mint[k]
  BY DEF WalletInv, WalletTypeOK
<1>2. \A s : Spent(s) => \E n \in DOMAIN entry' : entry'[n].sig = s
  BY SpentStays DEF Spent
<1>3. \A g \in handed : ~g.lost => \E n \in DOMAIN entry' : entry'[n].sig = g.sig
  BY <1>2 DEF OnceInv
<1>4. ASSUME NEW k \in Minters
      PROVE  /\ mint'[k].step = "answer" /\ ~mint'[k].lost =>
                   \E n \in DOMAIN entry' : entry'[n].sig = mint'[k].sig
             /\ mint'[k].again => \E n \in DOMAIN entry' : entry'[n].sig = mint'[k].sig
             /\ MintFee > 0 /\ mint'[k].step \notin {"none", "guard"} => ~mint'[k].again
  <2>1. CASE k = m
    <3>1. mint'[k] = x
      BY <1>1, <2>1
    <3>2. x.step = "answer" /\ ~x.lost => \E n \in DOMAIN entry' : entry'[n].sig = x.sig
      BY DEF Spent
    <3>3. x.again => \E n \in DOMAIN entry' : entry'[n].sig = x.sig
      BY <1>2
    <3>. QED
      BY <3>1, <3>2, <3>3
  <2>2. CASE k # m
    <3>1. mint'[k] = mint[k]
      BY <1>1, <2>2
    <3>. QED
      BY <1>2, <3>1 DEF OnceInv
  <2>. QED
    BY <2>1, <2>2
<1>5. MintFee > 0 => \A h \in handed : ~h.again
  BY DEF OnceInv
<1>. QED
  BY <1>3, <1>4, <1>5 DEF OnceInv, Spent

\* A handler that leaves has nothing to answer for.
LEMMA OnceLeaves ==
    ASSUME OnceInv, WalletInv, [WalletNext]_walletVars, NEW m \in Minters, Leaves(m),
           UNCHANGED handed
    PROVE  OnceInv'
<1>. DEFINE x == NoMint
<1>1. mint' = [mint EXCEPT ![m] = x]
  BY DEF Leaves
<1>2. x.step = "none" /\ ~x.again
  BY DEF NoMint
<1>. HIDE DEF x
<1>. QED
  BY <1>1, <1>2, OnceGoesOn

\* The handler goes on with the flags and the signature it had.
LEMMA OnceProceeds ==
    ASSUME OnceInv, WalletInv, [WalletNext]_walletVars, NEW m \in Minters, NEW x,
           mint' = [mint EXCEPT ![m] = x], UNCHANGED handed,
           x.sig = mint[m].sig, x.again = mint[m].again,
           x.step # "answer",
           MintFee > 0 => ~mint[m].again
    PROVE  OnceInv'
<1>1. x.again => Spent(x.sig)
  <2>1. mint[m].again => Spent(mint[m].sig)
    BY DEF OnceInv
  <2>. QED
    BY <2>1
<1>. QED
  BY <1>1, OnceGoesOn

LEMMA OnceStepKeeps ==
    ASSUME WalletInv, OnceInv, [WalletNext]_walletVars
    PROVE  OnceInv'
<1>0. \A m \in Minters : mint[m] \in Asking
  BY DEF WalletInv, WalletTypeOK, Asking
<1>1. ASSUME NEW m \in Minters, MintAsks(m)
      PROVE  OnceInv'
  <2>1. PICK x \in Asking :
           /\ mint' = [mint EXCEPT ![m] = x]
           /\ x.step \in {"guard", "build"} /\ (MintFee > 0 => x.step = "guard")
           /\ x.again => \E h \in handed : h.sig = x.sig /\ ~h.lost
    BY <1>1, RequestBegins
  <2>2. x.again => Spent(x.sig)
    BY <2>1 DEF OnceInv
  <2>3. UNCHANGED handed
    BY <1>1 DEF MintAsks
  <2>. QED
    BY <2>1, <2>2, <2>3, OnceGoesOn
<1>2. ASSUME NEW m \in Minters, MintFails(m)
      PROVE  OnceInv'
  BY <1>2, OnceLeaves DEF MintFails
<1>3. ASSUME NEW m \in Minters, FeeGuard(m)
      PROVE  OnceInv'
  <2>1. UNCHANGED handed
    BY <1>3 DEF FeeGuard
  <2>2. CASE Leaves(m)
    BY <2>1, <2>2, OnceLeaves
  <2>3. CASE ~Spent(mint[m].sig) /\ Proceeds(m, "verify")
    <3>. DEFINE x == [mint[m] EXCEPT !.step = "verify"]
    <3>1. /\ x.step = "verify" /\ x.sig = mint[m].sig /\ x.again = mint[m].again
          /\ mint' = [mint EXCEPT ![m] = x]
      BY <1>0, <2>3 DEF Proceeds, Asking
    <3>2. ~mint[m].again
      BY <2>3 DEF OnceInv
    <3>. HIDE DEF x
    <3>. QED
      BY <2>1, <3>1, <3>2, OnceProceeds
  <2>. QED
    BY <1>3, <2>2, <2>3 DEF FeeGuard
<1>4. ASSUME NEW m \in Minters, FeeVerify(m)
      PROVE  OnceInv'
  <2>1. UNCHANGED handed /\ (Leaves(m) \/ Proceeds(m, "build"))
    BY <1>4 DEF FeeVerify
  <2>2. CASE Leaves(m)
    BY <2>1, <2>2, OnceLeaves
  <2>3. CASE Proceeds(m, "build")
    <3>. DEFINE x == [mint[m] EXCEPT !.step = "build"]
    <3>1. /\ x.step = "build" /\ x.sig = mint[m].sig /\ x.again = mint[m].again
          /\ mint' = [mint EXCEPT ![m] = x]
      BY <1>0, <2>3 DEF Proceeds, Asking
    <3>2. MintFee > 0 => ~mint[m].again
      BY <1>4 DEF FeeVerify, AtStep, OnceInv
    <3>. HIDE DEF x
    <3>. QED
      BY <2>1, <3>1, <3>2, OnceProceeds
  <2>. QED
    BY <2>1, <2>2, <2>3
<1>5. ASSUME NEW m \in Minters, MintBuilds(m)
      PROVE  OnceInv'
  <2>1. PICK a \in Minted : mint' = [mint EXCEPT ![m].step = "nftRow", ![m].asset = a]
    BY <1>5 DEF MintBuilds
  <2>. DEFINE x == [mint[m] EXCEPT !.step = "nftRow", !.asset = a]
  <2>2. /\ x.step = "nftRow" /\ x.sig = mint[m].sig /\ x.again = mint[m].again
        /\ mint' = [mint EXCEPT ![m] = x]
    BY <1>0, <2>1 DEF Asking
  <2>3. MintFee > 0 => ~mint[m].again
    BY <1>5 DEF MintBuilds, AtStep, OnceInv
  <2>. HIDE DEF x
  <2>. QED
    BY <1>5, <2>2, <2>3, OnceProceeds DEF MintBuilds
<1>6. ASSUME NEW m \in Minters, NftRow(m)
      PROVE  OnceInv'
  <2>. DEFINE x == [mint[m] EXCEPT !.step = "txRow"]
  <2>1. /\ x.step = "txRow" /\ x.sig = mint[m].sig /\ x.again = mint[m].again
        /\ mint' = [mint EXCEPT ![m] = x]
    BY <1>0, <1>6 DEF NftRow, Proceeds, Asking
  <2>2. MintFee > 0 => ~mint[m].again
    BY <1>6 DEF NftRow, AtStep, OnceInv
  <2>. HIDE DEF x
  <2>. QED
    BY <1>6, <2>1, <2>2, OnceProceeds DEF NftRow
<1>7. ASSUME NEW m \in Minters, TxRow(m) \/ RowsFail(m)
      PROVE  OnceInv'
  <2>1. PICK x : /\ mint' = [mint EXCEPT ![m] = x]
                 /\ x.sig = mint[m].sig /\ x.again = mint[m].again
                 /\ IF RowsFail(m) THEN x.lost = TRUE ELSE x.lost = mint[m].lost
    BY <1>7, RowsStepOn DEF WalletInv
  <2>2. UNCHANGED handed /\ mint[m].step \in {"nftRow", "txRow"}
    BY <1>7 DEF TxRow, RowsFail, AtStep
  <2>3. MintFee > 0 => ~x.again
    BY <2>1, <2>2 DEF OnceInv
  <2>4. x.again => Spent(x.sig)
    <3>1. mint[m].again => Spent(mint[m].sig)
      BY DEF OnceInv
    <3>. QED
      BY <2>1, <3>1
  <2>5. ~x.lost => Spent(x.sig)'
    <3>1. SUFFICES ASSUME TxRow(m)
                   PROVE  Spent(x.sig)'
      BY <1>7, <2>1
    <3>2. CASE mint[m].sig # Unsigned /\ Spent(mint[m].sig)
      BY <2>1, <3>2, SpentStays
    <3>3. CASE ~(mint[m].sig # Unsigned /\ Spent(mint[m].sig))
      <4>1. PICK amount \in Spellings :
                   entry' = Append(entry, Audited(mint[m].asset, amount, mint[m].sig))
        BY <3>1, <3>3 DEF TxRow
      <4>. DEFINE z == Audited(mint[m].asset, amount, mint[m].sig)
      <4>2. z.sig = mint[m].sig
        BY DEF Audited
      <4>. HIDE DEF z
      <4>3. entry \in Seq(EntryRow) /\ entry' = Append(entry, z)
        BY <4>1 DEF WalletInv, WalletTypeOK, EntryRow, z
      <4>4. Len(entry) + 1 \in DOMAIN entry' /\ entry'[Len(entry) + 1] = z
        BY <4>3
      <4>. QED
        BY <2>1, <4>2, <4>4 DEF Spent
    <3>. QED
      BY <3>2, <3>3
  <2>. QED
    BY <2>1, <2>2, <2>3, <2>4, <2>5, OnceGoesOn
<1>8. ASSUME NEW m \in Minters, MintAnswers(m)
      PROVE  OnceInv'
  <2>. DEFINE g == [asset |-> mint[m].asset, sig |-> mint[m].sig,
                    again |-> mint[m].again, lost |-> mint[m].lost]
  <2>1. /\ handed' = handed \cup {g} /\ UNCHANGED entry /\ Leaves(m) /\ mint[m].step = "answer"
    BY <1>8 DEF MintAnswers, AtStep
  <2>2. (~g.lost => Spent(g.sig)) /\ (MintFee > 0 => ~g.again)
    BY <2>1 DEF OnceInv
  <2>3. PICK q : q = g
    OBVIOUS
  <2>4. /\ handed' = handed \cup {q}
        /\ ~q.lost => Spent(q.sig)
        /\ MintFee > 0 => ~q.again
    BY <2>1, <2>2, <2>3
  <2>5. \A k \in Minters : mint'[k] = IF k = m THEN NoMint ELSE mint[k]
    BY <2>1 DEF Leaves, WalletInv, WalletTypeOK
  <2>6. NoMint.step = "none" /\ ~NoMint.again
    BY DEF NoMint
  <2>. QED
    BY <2>1, <2>4, <2>5, <2>6 DEF OnceInv, Spent
<1>9. CASE FeeLands \/ UNCHANGED walletVars
  BY <1>9 DEF FeeLands, walletVars, OnceInv, Spent
<1>10. CASE EntryConfirms \/ EntryAltered
  <2>1. UNCHANGED <<mint, handed>>
    BY <1>10 DEF EntryConfirms, EntryAltered
  <2>2. \A s : Spent(s) => \E n \in DOMAIN entry' : entry'[n].sig = s
    BY SpentStays DEF Spent
  <2>3. /\ \A g \in handed : ~g.lost => \E n \in DOMAIN entry' : entry'[n].sig = g.sig
        /\ \A m \in Minters : mint[m].step = "answer" /\ ~mint[m].lost =>
              \E n \in DOMAIN entry' : entry'[n].sig = mint[m].sig
        /\ \A m \in Minters : mint[m].again => \E n \in DOMAIN entry' : entry'[n].sig = mint[m].sig
    BY <2>2 DEF OnceInv
  <2>. QED
    BY <2>1, <2>3 DEF OnceInv, Spent
<1>. QED
  BY <1>1, <1>2, <1>3, <1>4, <1>5, <1>6, <1>7, <1>8, <1>9, <1>10 DEF WalletNext

\* Whoever asks with a signature that has bought a recorded mint is handed nothing,
\* whatever settle or anybody else has done to that mint's row since.
THEOREM FeeBuysOneMint == WalletSpec => []OneMintPerFee
<1>1. OnceInv => OneMintPerFee
  BY DEF OnceInv, OneMintPerFee
<1>2. WalletInit => OnceInv
  BY OnceInitSound
<1>3. WalletInv /\ OnceInv /\ [WalletNext]_walletVars => OnceInv'
  BY OnceStepKeeps
<1>. QED
  BY <1>1, <1>2, <1>3, WalletInvHolds, PTL DEF WalletSpec

-----------------------------------------------------------------------------
(* Likes, albums and files.                                                *)
(*                                                                         *)
(* A stored count is written from a number read some statements before.    *)
(* Why it is right when a request ran alone: the number a request carries  *)
(* is the number of rows there are, for as long as nobody has entered      *)
(* since it began (ClerkSound).                                            *)

ClerkSteps == {"free", "toggle", "count", "like", "add", "added", "deleted"}

ClerkRow == [step : ClerkSteps, fan : Fans \cup {NoFan}, n : Nat, had : BOOLEAN, alone : BOOLEAN]

\* What a request may have counted, whoever else is at work.
Countable(h) ==
    /\ h \in ClerkRow
    /\ h.step = "free" => h = Free
    /\ h.step = "toggle" => h.fan \in Fans
    /\ h.step = "like" => h.n \in 0..Cardinality(Fans)
    /\ h.step = "add" => h.n \in 0..(MaxTrack - 1)
    /\ h.step = "added" => h.n \in 0..MaxTrack

\* The same, and the number of rows there are if nobody else has been at work
\* since it began.
ClerkSound(c) ==
    LET h == clerk[c] IN
    /\ Countable(h)
    /\ h.step # "free" /\ h.alone =>
          /\ \A d \in Clerks \ {c} : clerk[d] = Free
          /\ h.step = "like" => h.n = Cardinality(likes)
          /\ h.step \in {"add", "added"} /\ album # "deleted" => h.n = Cardinality(tracks)

LibraryInv == LibraryTypeOK /\ \A c \in Clerks : ClerkSound(c)

LEMMA LikesCount ==
    ASSUME LibraryAssumption, likes \subseteq Fans
    PROVE  Cardinality(likes) \in 0..Cardinality(Fans)
<1>1. Cardinality(likes) \in Nat /\ Cardinality(Fans) \in Nat /\ Cardinality(likes) <= Cardinality(Fans)
  BY FS_Subset, FS_CardinalityType DEF LibraryAssumption
<1>. QED
  BY <1>1

LEMMA TracksCount ==
    ASSUME LibraryAssumption, tracks \subseteq 1..MaxTrack
    PROVE  IsFiniteSet(tracks) /\ Cardinality(tracks) \in 0..MaxTrack
<1>1. MaxTrack \in Nat
  BY DEF LibraryAssumption
<1>2. IsFiniteSet(1..MaxTrack) /\ Cardinality(1..MaxTrack) = MaxTrack
  BY <1>1, FS_Interval
<1>3. IsFiniteSet(tracks) /\ Cardinality(tracks) <= MaxTrack
  BY <1>2, FS_Subset
<1>. QED
  BY <1>1, <1>3, FS_CardinalityType

LEMMA LibraryInitSound == ASSUME LibraryAssumption, LibraryInit PROVE LibraryInv
<1>. USE DEF LibraryInit
<1>1. Cardinality(Fans) \in Nat /\ MaxTrack \in Nat
  BY FS_CardinalityType DEF LibraryAssumption
<1>2. Free \in ClerkRow /\ Free.step = "free"
  BY DEF Free, ClerkRow, ClerkSteps
<1>3. LibraryTypeOK
  BY <1>1, <1>2 DEF LibraryTypeOK, ClerkRow, ClerkSteps
<1>4. \A c \in Clerks : ClerkSound(c)
  BY <1>2 DEF ClerkSound, Countable
<1>. QED
  BY <1>3, <1>4 DEF LibraryInv

\* A request at work takes a step: if it is alone all others are at rest, and if
\* it is not, none of them counts as alone.
LEMMA ClerkGoesOn ==
    ASSUME LibraryInv, NEW c \in Clerks, clerk[c] # Free, NEW x,
           clerk' = [clerk EXCEPT ![c] = x], Countable(x), x.alone = clerk[c].alone \/ x = Free,
           x.step = "like" /\ x.alone => x.n = Cardinality(likes'),
           x.step \in {"add", "added"} /\ x.alone /\ album' # "deleted" => x.n = Cardinality(tracks')
    PROVE  /\ clerk' \in [Clerks -> ClerkRow]
           /\ \A d \in Clerks : ClerkSound(d)'
<1>1. clerk \in [Clerks -> ClerkRow] /\ \A d \in Clerks : ClerkSound(d)
  BY DEF LibraryInv, LibraryTypeOK, ClerkRow, ClerkSteps
<1>2. x \in ClerkRow
  BY DEF Countable
<1>3. clerk' \in [Clerks -> ClerkRow] /\ \A d \in Clerks : clerk'[d] = IF d = c THEN x ELSE clerk[d]
  BY <1>1, <1>2
<1>4. Free.step = "free"
  BY DEF Free
<1>5. clerk[c].step # "free"
  BY <1>1 DEF ClerkSound, Countable
<1>6. ASSUME NEW d \in Clerks, d # c
      PROVE  ClerkSound(d)'
  <2>1. clerk[d].step # "free" => ~clerk[d].alone
    BY <1>1, <1>4, <1>5, <1>6 DEF ClerkSound, Countable
  <2>. QED
    BY <1>1, <1>3, <1>6, <2>1 DEF ClerkSound, Countable
<1>7. ClerkSound(c)'
  <2>1. x.step # "free" /\ x.alone => \A d \in Clerks \ {c} : clerk[d] = Free
    BY <1>1, <1>4, <1>5 DEF ClerkSound, Countable
  <2>. QED
    BY <1>3, <2>1 DEF ClerkSound, Countable
<1>. QED
  BY <1>3, <1>6, <1>7

\* A request begins: it is alone if everybody rests, and those at work no longer are.
LEMMA ClerkEnters ==
    ASSUME LibraryInv, NEW c \in Clerks, NEW x, Enters(c, x), Countable(x),
           x.step \notin {"free", "like", "added"}, UNCHANGED album,
           x.step = "add" => x.n = Cardinality(tracks')
    PROVE  /\ clerk' \in [Clerks -> ClerkRow]
           /\ \A d \in Clerks : ClerkSound(d)'
<1>. DEFINE company == {d \in Clerks : clerk[d] # Free}
            y == [x EXCEPT !.alone = company = {}]
<1>1. clerk \in [Clerks -> ClerkRow] /\ \A d \in Clerks : ClerkSound(d)
  BY DEF LibraryInv, LibraryTypeOK, ClerkRow, ClerkSteps
<1>2. y \in ClerkRow /\ y.step = x.step /\ y.n = x.n /\ y.fan = x.fan /\ (y.alone <=> company = {})
  BY DEF Countable, ClerkRow
<1>3. clerk' = [d \in Clerks |-> IF d = c THEN y
                                ELSE IF d \in company THEN [clerk[d] EXCEPT !.alone = FALSE]
                                ELSE clerk[d]]
  BY DEF Enters
<1>. HIDE DEF y
<1>4. ASSUME NEW d \in Clerks
      PROVE  clerk'[d] \in ClerkRow /\ ClerkSound(d)'
  <2>1. CASE d = c
    <3>1. clerk'[d] = y
      BY <1>3, <2>1
    <3>2. y.alone => \A e \in Clerks \ {c} : clerk'[e] = Free
      BY <1>2, <1>3
    <3>. QED
      BY <1>2, <2>1, <3>1, <3>2 DEF ClerkSound, Countable
  <2>2. CASE d # c /\ clerk[d] # Free
    <3>. DEFINE z == [clerk[d] EXCEPT !.alone = FALSE]
    <3>1. clerk'[d] = z
      BY <1>3, <2>2
    <3>2. z \in ClerkRow /\ z.step = clerk[d].step /\ z.n = clerk[d].n /\ z.fan = clerk[d].fan /\ ~z.alone
      BY <1>1 DEF ClerkRow
    <3>. HIDE DEF z
    <3>3. clerk[d].step # "free"
      BY <1>1, <2>2 DEF ClerkSound, Countable
    <3>. QED
      BY <1>1, <3>1, <3>2, <3>3 DEF ClerkSound, Countable
  <2>3. CASE d # c /\ clerk[d] = Free
    <3>1. clerk'[d] = Free
      BY <1>3, <2>3
    <3>2. Free \in ClerkRow /\ Free.step = "free"
      BY DEF Free, ClerkRow, ClerkSteps
    <3>. QED
      BY <3>1, <3>2 DEF ClerkSound, Countable
  <2>. QED
    BY <2>1, <2>2, <2>3
<1>5. clerk' \in [Clerks -> ClerkRow]
  BY <1>3, <1>4
<1>. QED
  BY <1>4, <1>5

LEMMA ClerkEnds ==
    ASSUME LibraryInv, NEW c \in Clerks, clerk[c] # Free, Done(c)
    PROVE  /\ clerk' \in [Clerks -> ClerkRow]
           /\ \A d \in Clerks : ClerkSound(d)'
<1>1. Countable(Free) /\ Free.step = "free"
  BY DEF Countable, Free, ClerkRow, ClerkSteps
<1>. QED
  BY <1>1, ClerkGoesOn DEF Done

LEMMA ClerkMoves ==
    ASSUME LibraryInv, NEW c \in Clerks, clerk[c] # Free, NEW step \in ClerkSteps \ {"free"}, NEW n \in Nat,
           Moves(c, step, n),
           step # "toggle",
           step = "like" => n \in 0..Cardinality(Fans),
           step = "add" => n \in 0..(MaxTrack - 1),
           step = "added" => n \in 0..MaxTrack,
           step = "like" /\ clerk[c].alone => n = Cardinality(likes'),
           step \in {"add", "added"} /\ clerk[c].alone /\ album' # "deleted" => n = Cardinality(tracks')
    PROVE  /\ clerk' \in [Clerks -> ClerkRow]
           /\ \A d \in Clerks : ClerkSound(d)'
<1>. DEFINE x == [clerk[c] EXCEPT !.step = step, !.n = n]
<1>1. clerk[c] \in ClerkRow
  BY DEF LibraryInv, LibraryTypeOK, ClerkRow, ClerkSteps
<1>2. x \in ClerkRow /\ x.step = step /\ x.n = n /\ x.alone = clerk[c].alone
  BY <1>1 DEF ClerkRow
<1>3. clerk' = [clerk EXCEPT ![c] = x]
  BY DEF Moves
<1>. HIDE DEF x
<1>4. Countable(x)
  BY <1>2 DEF Countable
<1>. QED
  BY <1>2, <1>3, <1>4, ClerkGoesOn

LEMMA AtWork ==
    ASSUME LibraryInv, NEW c \in Clerks, NEW step \in ClerkSteps \ {"free"}, Doing(c, step)
    PROVE  clerk[c] # Free /\ clerk[c].step = step
  BY DEF Doing, Free

LEMMA LikesKeep ==
    ASSUME LibraryAssumption, LibraryInv, NEW c \in Clerks,
           LikeFind(c) \/ LikeToggle(c) \/ LikeCounts(c) \/ LikeSaves(c)
    PROVE  LibraryInv'
<1>. DEFINE Sound == clerk' \in [Clerks -> ClerkRow] /\ \A d \in Clerks : ClerkSound(d)'
<1>0. /\ likes \subseteq Fans /\ likeCount \in 0..Cardinality(Fans)
      /\ clerk \in [Clerks -> ClerkRow] /\ \A d \in Clerks : ClerkSound(d)
  BY DEF LibraryInv, LibraryTypeOK, ClerkRow, ClerkSteps
<1>1. UNCHANGED <<album, tracks, trackCount, object>>
  BY DEF LikeFind, LikeToggle, LikeCounts, LikeSaves
<1>2. CASE LikeFind(c)
  <2>1. PICK f \in Fans : Enters(c, [Free EXCEPT !.step = "toggle", !.fan = f, !.had = f \in likes])
    BY <1>2 DEF LikeFind
  <2>. DEFINE x == [Free EXCEPT !.step = "toggle", !.fan = f, !.had = f \in likes]
  <2>2. x \in ClerkRow /\ x.step = "toggle" /\ x.fan = f
    <3>1. Free \in ClerkRow /\ (f \in likes) \in BOOLEAN
      BY DEF Free, ClerkRow, ClerkSteps
    <3>. QED
      BY <3>1 DEF ClerkRow, ClerkSteps
  <2>. HIDE DEF x
  <2>3. Enters(c, x)
    BY <2>1 DEF x
  <2>4. Countable(x)
    BY <2>2 DEF Countable
  <2>5. Sound
    BY <1>1, <2>2, <2>3, <2>4, ClerkEnters
  <2>. QED
    BY <1>0, <1>1, <1>2, <2>5 DEF LikeFind, LibraryInv, LibraryTypeOK, ClerkRow, ClerkSteps
<1>3. CASE LikeToggle(c)
  <2>1. clerk[c] # Free /\ clerk[c].fan \in Fans \cup {NoFan}
    BY <1>0, <1>3, AtWork DEF LikeToggle, ClerkRow, ClerkSteps
  <2>2. CASE Moves(c, "count", 0) /\ likes' = IF clerk[c].had THEN likes \ {clerk[c].fan} ELSE likes \cup {clerk[c].fan}
    <3>1. clerk[c].fan \in Fans
      BY <1>0, <1>3 DEF LikeToggle, Doing, ClerkSound, Countable
    <3>2. likes' \subseteq Fans
      BY <1>0, <2>2, <3>1
    <3>3. Sound
      BY <2>1, <2>2, ClerkMoves DEF ClerkSteps
    <3>. QED
      BY <1>0, <1>1, <1>3, <3>2, <3>3 DEF LikeToggle, LibraryInv, LibraryTypeOK, ClerkRow, ClerkSteps
  <2>3. CASE Done(c) /\ UNCHANGED likes
    <3>1. Sound
      BY <2>1, <2>3, ClerkEnds
    <3>. QED
      BY <1>0, <1>1, <1>3, <2>3, <3>1 DEF LikeToggle, LibraryInv, LibraryTypeOK, ClerkRow, ClerkSteps
  <2>. QED
    BY <1>3, <2>2, <2>3 DEF LikeToggle
<1>4. CASE LikeCounts(c)
  <2>1. Moves(c, "like", Cardinality(likes)) /\ UNCHANGED <<likes, likeCount>> /\ Doing(c, "count")
    BY <1>4 DEF LikeCounts, CountOf
  <2>2. Cardinality(likes) \in 0..Cardinality(Fans)
    BY <1>0, LikesCount
  <2>3. Sound
    BY <1>1, <2>1, <2>2, AtWork, ClerkMoves DEF ClerkSteps
  <2>. QED
    BY <1>0, <1>1, <2>1, <2>3 DEF LibraryInv, LibraryTypeOK, ClerkRow, ClerkSteps
<1>5. CASE LikeSaves(c)
  <2>1. Doing(c, "like") /\ likeCount' = clerk[c].n /\ Done(c) /\ UNCHANGED likes
    BY <1>5 DEF LikeSaves
  <2>2. likeCount' \in 0..Cardinality(Fans)
    BY <1>0, <2>1 DEF ClerkSound, Countable, Doing
  <2>3. Sound
    BY <2>1, AtWork, ClerkEnds DEF ClerkSteps
  <2>. QED
    BY <1>0, <1>1, <2>1, <2>2, <2>3 DEF LibraryInv, LibraryTypeOK, ClerkRow, ClerkSteps
<1>. QED
  BY <1>2, <1>3, <1>4, <1>5

LEMMA AlbumsKeep ==
    ASSUME LibraryInv,
           CreateAlbum \/ DeleteAlbum \/ (\E published \in {"draft", "published"} : UpdateAlbum(published))
    PROVE  LibraryInv'
<1>1. UNCHANGED <<likes, likeCount, trackCount, object, clerk>>
  BY DEF CreateAlbum, DeleteAlbum, UpdateAlbum
<1>2. /\ album' \in {"none", "draft", "published", "deleted"} /\ tracks' \subseteq 1..MaxTrack
      /\ album' = "deleted" \/ (album # "deleted" /\ tracks' = tracks)
  BY DEF CreateAlbum, DeleteAlbum, UpdateAlbum, Shown, LibraryInv, LibraryTypeOK
<1>3. LibraryTypeOK'
  BY <1>1, <1>2 DEF LibraryInv, LibraryTypeOK
<1>4. ASSUME NEW c \in Clerks
      PROVE  ClerkSound(c)'
  BY <1>1, <1>2 DEF LibraryInv, ClerkSound, Countable
<1>. QED
  BY <1>3, <1>4 DEF LibraryInv

LEMMA TracksKeep ==
    ASSUME LibraryAssumption, LibraryInv, NEW c \in Clerks,
           TrackFind(c) \/ TrackCreate(c) \/ TrackDelete(c) \/ TrackRecount(c) \/ TrackSaves(c)
    PROVE  LibraryInv'
<1>. DEFINE Sound == clerk' \in [Clerks -> ClerkRow] /\ \A d \in Clerks : ClerkSound(d)'
<1>0. /\ tracks \subseteq 1..MaxTrack /\ trackCount \in 0..MaxTrack /\ MaxTrack \in Nat
      /\ clerk \in [Clerks -> ClerkRow] /\ \A d \in Clerks : ClerkSound(d)
  BY DEF LibraryAssumption, LibraryInv, LibraryTypeOK, ClerkRow, ClerkSteps
<1>1. UNCHANGED <<likes, likeCount, album, object>>
  BY DEF TrackFind, TrackCreate, TrackDelete, TrackRecount, TrackSaves
<1>2. IsFiniteSet(tracks) /\ Cardinality(tracks) \in 0..MaxTrack
  BY <1>0, TracksCount
<1>3. ASSUME tracks' \subseteq 1..MaxTrack, trackCount' \in 0..MaxTrack, Sound
      PROVE  LibraryInv'
  BY <1>1, <1>3 DEF LibraryInv, LibraryTypeOK, ClerkRow, ClerkSteps
<1>4. CASE TrackFind(c)
  <2>. DEFINE x == [Free EXCEPT !.step = "add", !.n = Cardinality(tracks)]
  <2>1. x \in ClerkRow /\ x.step = "add" /\ x.n = Cardinality(tracks)
    <3>1. Free \in ClerkRow
      BY DEF Free, ClerkRow, ClerkSteps
    <3>2. Cardinality(tracks) \in Nat
      BY <1>0, <1>2
    <3>. QED
      BY <3>1, <3>2 DEF ClerkRow, ClerkSteps
  <2>2. Enters(c, x) /\ Cardinality(tracks) < MaxTrack /\ UNCHANGED <<tracks, trackCount>>
    BY <1>4 DEF TrackFind
  <2>. HIDE DEF x
  <2>3. Countable(x)
    BY <1>0, <1>2, <2>1, <2>2 DEF Countable
  <2>4. Sound
    BY <1>1, <2>1, <2>2, <2>3, ClerkEnters
  <2>. QED
    BY <1>0, <1>3, <2>2, <2>4
<1>5. CASE TrackCreate(c)
  <2>1. clerk[c] # Free /\ clerk[c].step = "add" /\ UNCHANGED trackCount
    BY <1>5, AtWork DEF TrackCreate, ClerkSteps
  <2>2. clerk[c].n \in 0..(MaxTrack - 1)
    BY <1>0, <2>1 DEF ClerkSound, Countable
  <2>3. PICK number \in {clerk[c].n + 1} \cup 1..MaxTrack :
          IF Shown /\ number \notin tracks
          THEN tracks' = tracks \cup {number} /\ Moves(c, "added", clerk[c].n + 1)
          ELSE UNCHANGED tracks /\ Done(c)
    BY <1>5 DEF TrackCreate
  <2>4. number \in 1..MaxTrack
    BY <1>0, <2>2, <2>3
  <2>5. CASE UNCHANGED tracks /\ Done(c)
    <3>1. Sound
      BY <2>1, <2>5, ClerkEnds
    <3>. QED
      BY <1>0, <1>3, <2>1, <2>5, <3>1
  <2>6. CASE Shown /\ number \notin tracks /\ tracks' = tracks \cup {number} /\ Moves(c, "added", clerk[c].n + 1)
    <3>1. Cardinality(tracks') = Cardinality(tracks) + 1
      BY <1>2, <2>6, FS_AddElement
    <3>2. clerk[c].alone => clerk[c].n = Cardinality(tracks)
      BY <1>0, <2>1, <2>6 DEF ClerkSound, Shown
    <3>3. clerk[c].n + 1 \in 0..MaxTrack /\ clerk[c].n + 1 \in Nat
      BY <1>0, <2>2
    <3>4. clerk[c].alone => clerk[c].n + 1 = Cardinality(tracks')
      BY <3>1, <3>2
    <3>5. Sound
      BY <2>1, <2>6, <3>3, <3>4, ClerkMoves DEF ClerkSteps
    <3>6. tracks' \subseteq 1..MaxTrack
      BY <1>0, <2>4, <2>6
    <3>. QED
      BY <1>0, <1>3, <2>1, <3>5, <3>6
  <2>. QED
    BY <2>3, <2>5, <2>6
<1>6. CASE TrackDelete(c)
  <2>. DEFINE x == [Free EXCEPT !.step = "deleted"]
  <2>1. Countable(x) /\ x.step = "deleted"
    BY DEF Countable, Free, ClerkRow, ClerkSteps
  <2>2. Enters(c, x) /\ tracks' \subseteq tracks /\ UNCHANGED trackCount
    BY <1>6 DEF TrackDelete
  <2>. HIDE DEF x
  <2>3. Sound
    BY <1>1, <2>1, <2>2, ClerkEnters
  <2>. QED
    BY <1>0, <1>3, <2>2, <2>3
<1>7. CASE TrackRecount(c)
  <2>1. Moves(c, "added", Cardinality(tracks)) /\ UNCHANGED <<tracks, trackCount>> /\ Doing(c, "deleted")
    BY <1>7 DEF TrackRecount
  <2>2. Sound
    BY <1>2, <2>1, AtWork, ClerkMoves DEF ClerkSteps
  <2>. QED
    BY <1>0, <1>3, <2>1, <2>2
<1>8. CASE TrackSaves(c)
  <2>1. Doing(c, "added") /\ trackCount' = clerk[c].n /\ Done(c) /\ UNCHANGED tracks
    BY <1>8 DEF TrackSaves
  <2>2. trackCount' \in 0..MaxTrack
    BY <1>0, <2>1 DEF ClerkSound, Countable, Doing
  <2>3. Sound
    BY <2>1, AtWork, ClerkEnds DEF ClerkSteps
  <2>. QED
    BY <1>0, <1>3, <2>1, <2>2, <2>3
<1>. QED
  BY <1>4, <1>5, <1>6, <1>7, <1>8

LEMMA FilesKeep ==
    ASSUME LibraryInv, UploadImage \/ UploadMetadata \/ UploadAudio \/ ReplaceObject
    PROVE  LibraryInv'
<1>1. \E k \in Keys, folder \in Folders, b \in Blobs : Puts(k, folder, b)
  BY DEF UploadImage, UploadMetadata, UploadAudio, ReplaceObject, DrawnKeys, Folders
<1>2. UNCHANGED <<likes, likeCount, album, tracks, trackCount, clerk>>
  BY <1>1 DEF Puts
<1>3. object' \in [Keys -> {Missing} \cup [folder : Folders, bytes : Blobs]]
  BY <1>1 DEF Puts, LibraryInv, LibraryTypeOK
<1>. QED
  BY <1>2, <1>3 DEF LibraryInv, LibraryTypeOK, ClerkSound, Countable

LEMMA LibraryStepKeeps ==
    ASSUME LibraryAssumption, LibraryInv, [LibraryNext]_libraryVars
    PROVE  LibraryInv'
<1>1. ASSUME NEW c \in Clerks, ClerkStops(c)
      PROVE  LibraryInv'
  <2>1. clerk[c] # Free /\ Done(c) /\ UNCHANGED <<likes, likeCount, album, tracks, trackCount, object>>
    BY <1>1 DEF ClerkStops
  <2>2. clerk' \in [Clerks -> ClerkRow] /\ \A d \in Clerks : ClerkSound(d)'
    BY <2>1, ClerkEnds
  <2>. QED
    BY <2>1, <2>2 DEF LibraryInv, LibraryTypeOK, ClerkRow, ClerkSteps
<1>2. CASE UNCHANGED libraryVars
  BY <1>2 DEF libraryVars, LibraryInv, LibraryTypeOK, ClerkSound, Countable
<1>. QED
  BY <1>1, <1>2, LikesKeep, TracksKeep, AlbumsKeep, FilesKeep DEF LibraryNext

LEMMA LibraryInvHolds == LibrarySpec => []LibraryInv
<1>1. LibraryInit => LibraryInv
  BY LibraryAssumption, LibraryInitSound
<1>2. LibraryInv /\ [LibraryNext]_libraryVars => LibraryInv'
  BY LibraryAssumption, LibraryStepKeeps
<1>. QED
  BY <1>1, <1>2, PTL DEF LibrarySpec

\* Whatever races and failures left in a stored count, a request that nobody
\* disturbed stores the number of rows there are (toggleLike, addTrack,
\* deleteTrack).
THEOREM StoredCountsHeal == LibrarySpec => CountsHeal
<1>1. ASSUME LibraryInv, NEW c \in Clerks, clerk[c].alone
      PROVE  /\ LikeSaves(c) => likeCount' = Cardinality(likes')
             /\ TrackSaves(c) => trackCount' = Cardinality(tracks')
  <2>1. ClerkSound(c)
    BY <1>1 DEF LibraryInv
  <2>2. LikeSaves(c) => likeCount' = Cardinality(likes')
    BY <1>1, <2>1 DEF LikeSaves, Doing, ClerkSound
  <2>3. TrackSaves(c) => trackCount' = Cardinality(tracks')
    BY <1>1, <2>1 DEF TrackSaves, Doing, ClerkSound, Shown
  <2>. QED
    BY <2>2, <2>3
<1>2. LibraryInv /\ [LibraryNext]_libraryVars =>
        [\A c \in Clerks :
            clerk[c].alone =>
               /\ LikeSaves(c) => likeCount' = Cardinality(likes')
               /\ TrackSaves(c) => trackCount' = Cardinality(tracks')]_libraryVars
  BY <1>1
<1>. QED
  BY <1>2, LibraryInvHolds, PTL DEF LibrarySpec, CountsHeal

-----------------------------------------------------------------------------
(* The desk as a whole: a step of one part leaves the others alone.        *)

DeskInv == MedalInv /\ FeeInv /\ WalletInv /\ LibraryInv

LEMMA DeskStepKeeps == ASSUME DeskInv, [DeskNext]_deskVars PROVE DeskInv'
<1>1. /\ [MedalNext]_medalVars
      /\ [FeeNext]_feeVars
      /\ [WalletNext]_walletVars
      /\ [LibraryNext]_libraryVars
  <2>1. CASE UNCHANGED deskVars
    BY <2>1 DEF deskVars
  <2>2. CASE DeskNext
    BY <2>2 DEF DeskNext
  <2>. QED
    BY <2>1, <2>2
<1>2. MedalInv'
  BY <1>1, MedalAssumption, MedalStepKeeps DEF DeskInv
<1>3. FeeInv'
  BY <1>1, FeeAssumption, FeeStepKeeps DEF DeskInv
<1>4. WalletInv'
  BY <1>1, WalletAssumption, WalletStepKeeps DEF DeskInv
<1>5. LibraryInv'
  BY <1>1, LibraryAssumption, LibraryStepKeeps DEF DeskInv
<1>. QED
  BY <1>2, <1>3, <1>4, <1>5 DEF DeskInv

\* All four parts keep their shapes, and a step of one (medals.ts, payments.ts,
\* solana.ts, nfts.ts and album.ts) takes nothing from what is known of another.
THEOREM DeskTypeCorrect == DeskSpec => []DeskTypeOK
<1>1. DeskInit => DeskInv
  BY MedalAssumption, FeeAssumption, WalletAssumption, LibraryAssumption,
     MedalInitSound, FeeInitSound, WalletInitSound, LibraryInitSound DEF DeskInit, DeskInv
<1>2. DeskInv /\ [DeskNext]_deskVars => DeskInv'
  BY DeskStepKeeps
<1>3. DeskInv => DeskTypeOK
  BY DEF DeskInv, MedalInv, FeeInv, WalletInv, LibraryInv, DeskTypeOK
<1>. QED
  BY <1>1, <1>2, <1>3, PTL DEF DeskSpec
=============================================================================

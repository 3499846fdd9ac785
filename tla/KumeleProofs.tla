------------------------------ MODULE KumeleProofs ------------------------------
(***************************************************************************)
(* Proof that Kumele is told the truth about its orders, for any number of *)
(* jobs, batch sizes, delays, evictions and refunds pressed.               *)
(***************************************************************************)
EXTENDS KumeleMint, WellFoundedInduction, NaturalsInduction, TLAPS

-----------------------------------------------------------------------------
(* Sequences.                                                              *)

LEMMA LeastExists ==
    ASSUME NEW S \in SUBSET Nat, S # {}
    PROVE  \E x \in S : \A y \in S : x <= y
<1>. DEFINE R == {p \in Nat \X Nat : p[1] < p[2]}
<1>1. IsWellFoundedOn(R, Nat)
  BY NatLessThanWellFounded DEF OpToRel
<1>. HIDE DEF R
<1>2. PICK x \in S : \A y \in S : ~(<<y, x>> \in R)
  BY <1>1, WFMin
<1>3. \A y \in S : ~(y < x)
  BY <1>2 DEF R
<1>. QED
  BY <1>3

\* Sifting a sequence leaves members of the set, all of them from the sequence.
LEMMA SiftKeeps ==
    ASSUME NEW J, NEW s \in Seq(J), NEW S
    PROVE  Sift(s, S) \in Seq(J \cap S)
<1>. DEFINE T == J \cap S
            Next(f, n) == IF n = 0 THEN <<>>
                          ELSE IF s[n] \in S THEN Append(f[n - 1], s[n]) ELSE f[n - 1]
            Whole(f, m) == f = [n \in 0..m |-> Next(f, n)]
            Steps == {m \in 0..Len(s) : ~\E f : Whole(f, m)}
<1>0. Len(s) \in Nat /\ \A n \in 1..Len(s) : s[n] \in J
  OBVIOUS
<1>1. Steps = {}
  <2>1. SUFFICES ASSUME Steps # {} PROVE FALSE
    OBVIOUS
  <2>2. PICK m \in Steps : \A k \in Steps : m <= k
    <3>1. Steps \in SUBSET Nat
      BY <1>0
    <3>. HIDE DEF Steps
    <3>. QED
      BY <2>1, <3>1, LeastExists
  <2>3. m \in 0..Len(s) /\ ~\E f : Whole(f, m)
    BY <2>2
  <2>4. CASE m = 0
    <3>. DEFINE g == [n \in 0..0 |-> <<>>]
    <3>1. Whole(g, 0)
      OBVIOUS
    <3>. QED
      BY <2>3, <2>4, <3>1
  <2>5. CASE m > 0
    <3>1. m - 1 \in 0..Len(s) /\ ~(m <= m - 1)
      BY <1>0, <2>3, <2>5
    <3>2. m - 1 \notin Steps
      <4>. HIDE DEF Steps
      <4>. QED
        BY <2>2, <3>1
    <3>. HIDE DEF Whole
    <3>0. PICK f : Whole(f, m - 1)
      BY <3>1, <3>2
    <3>. USE DEF Whole
    <3>. DEFINE g == [n \in 0..m |-> Next(f, n)]
    <3>3. \A n \in 0..(m - 1) : g[n] = f[n]
      <4>1. f = [n \in 0..(m - 1) |-> Next(f, n)]
        BY <3>0
      <4>2. \A n \in 0..(m - 1) : f[n] = Next(f, n)
        <5>. HIDE DEF Next
        <5>. QED
          BY <4>1, Zenon
      <4>3. \A n \in 0..(m - 1) : g[n] = Next(f, n)
        <5>. HIDE DEF Next
        <5>. QED
          BY <2>3
      <4>. HIDE DEF Next, g
      <4>. QED
        BY <4>2, <4>3
    <3>4. \A n \in 0..m : Next(g, n) = Next(f, n)
      <4>. HIDE DEF g
      <4>. QED
        BY <2>3, <3>3
    <3>5. Whole(g, m)
      <4>1. g = [n \in 0..m |-> Next(f, n)]
        OBVIOUS
      <4>. HIDE DEF g, Next
      <4>. QED
        BY <3>4, <4>1
    <3>. QED
      BY <2>3, <3>5
  <2>. QED
    BY <2>3, <2>4, <2>5
<1>. DEFINE kept == CHOOSE f : Whole(f, Len(s))
<1>2. Sift(s, S) = kept[Len(s)]
  BY DEF Sift
<1>3. Whole(kept, Len(s))
  <2>. HIDE DEF Whole
  <2>1. \E f : Whole(f, Len(s))
    BY <1>0, <1>1
  <2>. QED
    BY <2>1, Zenon
<1>. HIDE DEF kept
<1>4. \A n \in 0..Len(s) : kept[n] = Next(kept, n)
  <2>1. kept = [n \in 0..Len(s) |-> Next(kept, n)]
    BY <1>3
  <2>. HIDE DEF Next
  <2>. QED
    BY <2>1, Zenon
<1>. DEFINE Bad == {n \in 0..Len(s) : kept[n] \notin Seq(T)}
<1>5. Bad = {}
  <2>1. SUFFICES ASSUME Bad # {} PROVE FALSE
    OBVIOUS
  <2>2. PICK m \in Bad : \A k \in Bad : m <= k
    <3>1. Bad \in SUBSET Nat
      BY <1>0
    <3>. HIDE DEF Bad
    <3>. QED
      BY <2>1, <3>1, LeastExists
  <2>3. m \in 0..Len(s) /\ kept[m] \notin Seq(T)
    BY <2>2
  <2>4. m # 0
    <3>1. kept[0] = <<>>
      BY <1>0, <1>4
    <3>2. <<>> \in Seq(T)
      OBVIOUS
    <3>. QED
      BY <2>3, <3>1, <3>2
  <2>5. kept[m - 1] \in Seq(T)
    BY <1>0, <2>2, <2>3, <2>4
  <2>6. kept[m] = Next(kept, m) /\ s[m] \in J
    BY <1>0, <1>4, <2>3, <2>4
  <2>7. s[m] \in S => s[m] \in T
    BY <2>6
  <2>. HIDE DEF T
  <2>. QED
    BY <2>3, <2>4, <2>5, <2>6, <2>7
<1>. QED
  BY <1>0, <1>2, <1>5

LEMMA FirstKeeps ==
    ASSUME NEW S, NEW s \in Seq(S), NEW n \in Nat
    PROVE  First(n, s) \in Seq(S)
<1>. DEFINE m == IF n < Len(s) THEN n ELSE Len(s)
<1>1. m \in 0..Len(s)
  OBVIOUS
<1>2. First(n, s) = SubSeq(s, 1, m)
  BY DEF First
<1>. HIDE DEF m
<1>. QED
  BY <1>1, <1>2

-----------------------------------------------------------------------------
(* The invariant.                                                          *)
(*                                                                         *)
(* An outcome is posted long after it was read.  It is still the outcome   *)
(* because nothing claims an ended job, and an attempt that could end one  *)
(* a second time is at a job that is MINTING: what is in the mail or has   *)
(* arrived stays true, unless an operator has tried to refund the job.     *)

JobRow == [status : {"PENDING", "MINTING", "MINTED", "BLOCKED"}, attempts : 0..Len(Delay),
           locked : BOOLEAN, told : BOOLEAN, calls : Nat]
Letter == [job : Jobs, outcome : {"minted", "mint_failed"}]
CronStates == [step : {"asleep", "sweep", "minting", "post", "record"}, work : Seq(Jobs), mail : Seq(Letter),
               ok : BOOLEAN]

KumeleTypes ==
    /\ created \in Seq(Jobs) /\ touched \in Seq(Jobs)
    /\ job \in [Jobs -> JobRow]
    /\ rest \in [Jobs -> Nat]
    /\ running \subseteq Jobs
    /\ cron \in CronStates
    /\ news \subseteq Letter
    /\ revived \subseteq Jobs

\* What has been said of jobs, or is about to be.
Said == news \cup {cron.mail[n] : n \in DOMAIN cron.mail}

KumeleInv ==
    /\ KumeleTypes
    /\ cron.step = "minting" => cron.work # <<>>
    /\ cron.step = "record" => cron.mail # <<>>
    /\ \A j \in running : job[j].status = "MINTING" /\ job[j].locked /\ job[j].attempts # 0
    /\ \A n \in Said : n.job \notin revived => Ended(n.job) /\ Outcome(n.job) = n.outcome

LEMMA DelaysAreNatural ==
    ASSUME KumeleAssumption, NEW n \in 0..Len(Delay), n # 0
    PROVE  Delay[n] \in Nat
  BY DEF KumeleAssumption

LEMMA KumeleInitSound == ASSUME KumeleAssumption, KumeleInit PROVE KumeleInv
<1>. USE DEF KumeleInit
<1>1. New \in JobRow
  <2>1. Len(Delay) \in Nat
    BY DEF KumeleAssumption
  <2>. QED
    BY <2>1 DEF New, JobRow
<1>2. Asleep \in CronStates /\ Asleep.step = "asleep" /\ Asleep.mail = <<>>
  BY DEF Asleep, CronStates
<1>3. KumeleTypes
  BY <1>1, <1>2 DEF KumeleTypes
<1>. QED
  BY <1>2, <1>3 DEF KumeleInv, Said

LEMMA Touched ==
    ASSUME KumeleTypes, NEW j \in Jobs, Touch(j)
    PROVE  touched' \in Seq(Jobs)
<1>1. Sift(touched, Jobs \ {j}) \in Seq(Jobs \cap (Jobs \ {j}))
  BY SiftKeeps DEF KumeleTypes
<1>2. Sift(touched, Jobs \ {j}) \in Seq(Jobs)
  BY <1>1
<1>. QED
  BY <1>2 DEF Touch

\* What was said stays true: an ended job stays ended, with its outcome, unless
\* it is refunded, and nothing new is said that is not so.
LEMMA StillTrue ==
    ASSUME KumeleInv,
           revived \subseteq revived',
           \A j \in Jobs \ revived' : Ended(j) => Ended(j)' /\ (Outcome(j) = "minted" <=> Outcome(j)' = "minted"),
           \A n \in Said' : n \in Said \/ (n.job \in Jobs /\ Ended(n.job)' /\ Outcome(n.job)' = n.outcome)
    PROVE  \A n \in Said' : n.job \notin revived' => Ended(n.job)' /\ Outcome(n.job)' = n.outcome
<1>1. SUFFICES ASSUME NEW n \in Said, n.job \notin revived'
               PROVE  Ended(n.job)' /\ Outcome(n.job)' = n.outcome
  OBVIOUS
<1>2. n \in Letter
  BY DEF KumeleInv, KumeleTypes, Said, CronStates
<1>3. n.job \in Jobs
  BY <1>2 DEF Letter
<1>4. Ended(n.job) /\ Outcome(n.job) = n.outcome
  BY <1>1 DEF KumeleInv
<1>. QED
  BY <1>1, <1>3, <1>4 DEF Outcome

\* One job changes, and was not ended or is refunded.
LEMMA JobChanges ==
    ASSUME KumeleInv, NEW j \in Jobs, NEW x \in JobRow, job' = [job EXCEPT ![j] = x],
           revived \subseteq revived', Said' \subseteq Said,
           ~Ended(j) \/ j \in revived' \/ x.status = job[j].status
    PROVE  /\ job' \in [Jobs -> JobRow]
           /\ \A i \in Jobs : job'[i] = IF i = j THEN x ELSE job[i]
           /\ \A n \in Said' : n.job \notin revived' => Ended(n.job)' /\ Outcome(n.job)' = n.outcome
<1>1. job' \in [Jobs -> JobRow] /\ \A i \in Jobs : job'[i] = IF i = j THEN x ELSE job[i]
  BY DEF KumeleInv, KumeleTypes
<1>2. \A i \in Jobs \ revived' : Ended(i) => Ended(i)' /\ (Outcome(i) = "minted" <=> Outcome(i)' = "minted")
  BY <1>1 DEF Ended, Outcome
<1>. QED
  BY <1>1, <1>2, StillTrue

\* A job is claimed by a kick or a sweep.
LEMMA ClaimSound ==
    ASSUME KumeleAssumption, KumeleInv, NEW j \in Jobs, Claimable(j), Claim(j), UNCHANGED <<news, revived>>,
           Said' \subseteq Said
    PROVE  /\ job' \in [Jobs -> JobRow] /\ rest' \in [Jobs -> Nat] /\ touched' \in Seq(Jobs)
           /\ running' = running \cup {j}
           /\ \A i \in running' : job'[i].status = "MINTING" /\ job'[i].locked /\ job'[i].attempts # 0
           /\ \A n \in Said' : n.job \notin revived' => Ended(n.job)' /\ Outcome(n.job)' = n.outcome
<1>. DEFINE a == IF job[j].attempts < Len(Delay) THEN job[j].attempts + 1 ELSE job[j].attempts
            x == [job[j] EXCEPT !.status = "MINTING", !.locked = TRUE, !.attempts = a]
<1>1. job[j] \in JobRow /\ Len(Delay) \in Nat /\ Len(Delay) # 0
  BY DEF KumeleInv, KumeleTypes, KumeleAssumption
<1>2. a \in 0..Len(Delay) /\ a # 0
  BY <1>1 DEF JobRow
<1>3. x \in JobRow /\ x.status = "MINTING" /\ x.locked /\ x.attempts = a
  <2>. HIDE DEF a
  <2>. QED
    BY <1>1, <1>2 DEF JobRow
<1>4. job' = [job EXCEPT ![j] = x] /\ rest' = [rest EXCEPT ![j] = Delay[job'[j].attempts]]
      /\ running' = running \cup {j} /\ Touch(j)
  BY DEF Claim
<1>5. ~Ended(j)
  BY DEF Claimable, Pending, Ended
<1>. HIDE DEF a, x
<1>6. /\ job' \in [Jobs -> JobRow]
      /\ \A i \in Jobs : job'[i] = IF i = j THEN x ELSE job[i]
      /\ \A n \in Said' : n.job \notin revived' => Ended(n.job)' /\ Outcome(n.job)' = n.outcome
  BY <1>3, <1>4, <1>5, JobChanges
<1>7. rest' \in [Jobs -> Nat]
  BY <1>2, <1>3, <1>4, <1>6, DelaysAreNatural DEF KumeleInv, KumeleTypes
<1>8. touched' \in Seq(Jobs)
  BY <1>4, Touched DEF KumeleInv
<1>9. ASSUME NEW i \in running'
      PROVE  job'[i].status = "MINTING" /\ job'[i].locked /\ job'[i].attempts # 0
  BY <1>2, <1>3, <1>4, <1>6, <1>9 DEF KumeleInv, KumeleTypes
<1>. QED
  BY <1>4, <1>6, <1>7, <1>8, <1>9

-----------------------------------------------------------------------------
(* One lemma per action.                                                   *)

LEMMA AcceptKeeps == ASSUME KumeleInv, NEW j \in Jobs, Accept(j) PROVE KumeleInv'
<1>1. UNCHANGED <<job, rest, running, cron, news, revived>> /\ created' \in Seq(Jobs) /\ touched' \in Seq(Jobs)
  BY Touched DEF Accept, KumeleInv, KumeleTypes
<1>2. KumeleTypes'
  BY <1>1 DEF KumeleInv, KumeleTypes
<1>. QED
  BY <1>1, <1>2 DEF KumeleInv, Said, Ended, Outcome

LEMMA ReplayKeeps == ASSUME KumeleInv, NEW j \in Jobs, Replay(j) PROVE KumeleInv'
<1>1. UNCHANGED <<created, touched, job, rest, running, cron, revived>> /\ news' = news \cup Response(j)
  BY DEF Replay
<1>2. \A n \in Response(j) : n \in Letter /\ n.job = j /\ Ended(j) /\ n.outcome = Outcome(j)
  BY DEF Response, Letter, Outcome
<1>3. KumeleTypes'
  BY <1>1, <1>2 DEF KumeleInv, KumeleTypes
<1>4. Said' = Said \cup Response(j)
  BY <1>1 DEF Said
<1>5. \A n \in Said' : n.job \notin revived' => Ended(n.job) /\ Outcome(n.job) = n.outcome
  BY <1>1, <1>2, <1>4 DEF KumeleInv
<1>. QED
  BY <1>1, <1>3, <1>5 DEF KumeleInv, Ended, Outcome

LEMMA KickKeeps == ASSUME KumeleAssumption, KumeleInv, NEW j \in Jobs, Kick(j) PROVE KumeleInv'
<1>1. UNCHANGED <<created, cron, news, revived>> /\ Claim(j) /\ Claimable(j)
  BY DEF Kick, Claimable
<1>2. Said' = Said
  BY <1>1 DEF Said
<1>3. /\ job' \in [Jobs -> JobRow] /\ rest' \in [Jobs -> Nat] /\ touched' \in Seq(Jobs)
      /\ running' = running \cup {j}
      /\ \A i \in running' : job'[i].status = "MINTING" /\ job'[i].locked /\ job'[i].attempts # 0
      /\ \A n \in Said' : n.job \notin revived' => Ended(n.job)' /\ Outcome(n.job)' = n.outcome
  BY <1>1, <1>2, ClaimSound
<1>4. KumeleTypes'
  BY <1>1, <1>3 DEF KumeleInv, KumeleTypes
<1>. QED
  BY <1>1, <1>3, <1>4 DEF KumeleInv

LEMMA AttemptEndsKeeps == ASSUME KumeleAssumption, KumeleInv, NEW j \in Jobs, AttemptEnds(j) PROVE KumeleInv'
<1>1. PICK outcome \in {"MINTED", "BLOCKED", "PENDING"} :
        job' = [job EXCEPT ![j].status = outcome, ![j].locked = FALSE]
  BY DEF AttemptEnds
<1>. DEFINE x == [job[j] EXCEPT !.status = outcome, !.locked = FALSE]
<1>2. job[j] \in JobRow /\ job[j].status = "MINTING" /\ job[j].attempts # 0
  BY DEF AttemptEnds, KumeleInv, KumeleTypes
<1>3. x \in JobRow
  BY <1>2 DEF JobRow
<1>4. job' = [job EXCEPT ![j] = x] /\ rest' = [rest EXCEPT ![j] = Delay[job[j].attempts]]
      /\ running' = running \ {j} /\ Touch(j) /\ UNCHANGED <<created, cron, news, revived>>
  BY <1>1 DEF AttemptEnds
<1>. HIDE DEF x
<1>5. Said' = Said /\ ~Ended(j)
  BY <1>2, <1>4 DEF Said, Ended
<1>6. /\ job' \in [Jobs -> JobRow]
      /\ \A i \in Jobs : job'[i] = IF i = j THEN x ELSE job[i]
      /\ \A n \in Said' : n.job \notin revived' => Ended(n.job)' /\ Outcome(n.job)' = n.outcome
  BY <1>3, <1>4, <1>5, JobChanges
<1>7. rest' \in [Jobs -> Nat]
  <2>1. Delay[job[j].attempts] \in Nat
    BY <1>2, DelaysAreNatural DEF JobRow
  <2>. QED
    BY <1>4, <2>1 DEF KumeleInv, KumeleTypes
<1>8. touched' \in Seq(Jobs)
  BY <1>4, Touched DEF KumeleInv
<1>9. KumeleTypes'
  BY <1>4, <1>6, <1>7, <1>8 DEF KumeleInv, KumeleTypes
<1>10. \A i \in running' : job'[i].status = "MINTING" /\ job'[i].locked /\ job'[i].attempts # 0
  BY <1>4, <1>6 DEF KumeleInv, KumeleTypes
<1>. QED
  BY <1>4, <1>6, <1>9, <1>10 DEF KumeleInv

LEMMA LeaseEndsKeeps == ASSUME KumeleInv, NEW j \in Jobs, LeaseEnds(j) PROVE KumeleInv'
<1>. DEFINE x == [job[j] EXCEPT !.locked = FALSE]
<1>1. job[j] \in JobRow
  BY DEF KumeleInv, KumeleTypes
<1>2. x \in JobRow /\ x.status = job[j].status
  BY <1>1 DEF JobRow
<1>3. job' = [job EXCEPT ![j] = x] /\ UNCHANGED <<created, touched, rest, running, cron, news, revived>> /\ j \notin running
  BY DEF LeaseEnds
<1>. HIDE DEF x
<1>4. Said' = Said
  BY <1>3 DEF Said
<1>5. /\ job' \in [Jobs -> JobRow]
      /\ \A i \in Jobs : job'[i] = IF i = j THEN x ELSE job[i]
      /\ \A n \in Said' : n.job \notin revived' => Ended(n.job)' /\ Outcome(n.job)' = n.outcome
  BY <1>2, <1>3, <1>4, JobChanges
<1>6. KumeleTypes'
  BY <1>3, <1>5 DEF KumeleInv, KumeleTypes
<1>7. \A i \in running' : job'[i].status = "MINTING" /\ job'[i].locked /\ job'[i].attempts # 0
  BY <1>3, <1>5 DEF KumeleInv, KumeleTypes
<1>. QED
  BY <1>3, <1>5, <1>6, <1>7 DEF KumeleInv

LEMMA AdminRefundsKeeps == ASSUME KumeleAssumption, KumeleInv, NEW j \in Jobs, AdminRefunds(j) PROVE KumeleInv'
<1>. DEFINE x == [job[j] EXCEPT !.status = "PENDING"]
            d == IF job[j].attempts = 0 THEN 0 ELSE Delay[job[j].attempts]
<1>1. job[j] \in JobRow /\ ~job[j].locked
  BY DEF KumeleInv, KumeleTypes, AdminRefunds
<1>2. x \in JobRow /\ d \in Nat
  BY <1>1, DelaysAreNatural DEF JobRow
<1>3. job' = [job EXCEPT ![j] = x] /\ rest' = [rest EXCEPT ![j] = d] /\ revived' = revived \cup {j} /\ Touch(j)
      /\ UNCHANGED <<created, running, cron, news>>
  BY DEF AdminRefunds
<1>. HIDE DEF x, d
<1>4. Said' = Said
  BY <1>3 DEF Said
<1>5. /\ job' \in [Jobs -> JobRow]
      /\ \A i \in Jobs : job'[i] = IF i = j THEN x ELSE job[i]
      /\ \A n \in Said' : n.job \notin revived' => Ended(n.job)' /\ Outcome(n.job)' = n.outcome
  BY <1>2, <1>3, <1>4, JobChanges
<1>6. touched' \in Seq(Jobs)
  BY <1>3, Touched DEF KumeleInv
<1>7. KumeleTypes'
  BY <1>2, <1>3, <1>5, <1>6 DEF KumeleInv, KumeleTypes
<1>8. \A i \in running' : job'[i].status = "MINTING" /\ job'[i].locked /\ job'[i].attempts # 0
  BY <1>1, <1>3, <1>5 DEF KumeleInv, KumeleTypes
<1>. QED
  BY <1>3, <1>5, <1>7, <1>8 DEF KumeleInv

\* The cron begins, goes on or dies, and no row changes.
LEMMA CronMoves ==
    ASSUME KumeleInv, cron' \in CronStates,
           UNCHANGED <<created, touched, job, news, revived>>, rest' \in [Jobs -> Nat], running' \subseteq running,
           cron'.step = "minting" => cron'.work # <<>>,
           cron'.step = "record" => cron'.mail # <<>>,
           \A n \in DOMAIN cron'.mail :
              cron'.mail[n] \in Said \/ (Ended(cron'.mail[n].job) /\ Outcome(cron'.mail[n].job) = cron'.mail[n].outcome)
    PROVE  KumeleInv'
<1>1. KumeleTypes'
  BY DEF KumeleInv, KumeleTypes
<1>2. \A n \in Said' : n.job \notin revived => Ended(n.job) /\ Outcome(n.job) = n.outcome
  BY DEF KumeleInv, Said
<1>. QED
  BY <1>1, <1>2 DEF KumeleInv, Ended, Outcome

\* An invocation that has nothing in the mail.
LEMMA AsleepIsACron ==
    /\ Asleep \in CronStates /\ Asleep.step = "asleep" /\ DOMAIN Asleep.mail = {}
    /\ \A work \in Seq(Jobs) :
          [Asleep EXCEPT !.step = "sweep", !.work = work]
             \in {c \in CronStates : c.step = "sweep" /\ DOMAIN c.mail = {}}
    /\ \A mail \in Seq(Letter) :
          [Asleep EXCEPT !.step = "post", !.mail = mail]
             \in {c \in CronStates : c.step = "post" /\ c.mail = mail}
<1>1. /\ Asleep = [step |-> "asleep", work |-> <<>>, mail |-> <<>>, ok |-> FALSE]
      /\ <<>> \in Seq(Jobs) /\ <<>> \in Seq(Letter) /\ DOMAIN <<>> = {}
  BY DEF Asleep
<1>2. Asleep \in CronStates /\ Asleep.step = "asleep" /\ DOMAIN Asleep.mail = {} /\ Asleep.work = <<>>
  BY <1>1 DEF CronStates
<1>3. ASSUME NEW work \in Seq(Jobs)
      PROVE  [Asleep EXCEPT !.step = "sweep", !.work = work]
                \in {c \in CronStates : c.step = "sweep" /\ DOMAIN c.mail = {}}
  BY <1>2 DEF CronStates
<1>4. ASSUME NEW mail \in Seq(Letter)
      PROVE  [Asleep EXCEPT !.step = "post", !.mail = mail]
                \in {c \in CronStates : c.step = "post" /\ c.mail = mail}
  BY <1>2 DEF CronStates
<1>. QED
  BY <1>2, <1>3, <1>4

LEMMA WorkerDiesKeeps == ASSUME KumeleInv, NEW j \in Jobs, WorkerDies(j) PROVE KumeleInv'
<1>1. cron' \in {cron, Asleep} /\ running' \subseteq running /\ UNCHANGED <<created, touched, job, rest, news, revived>>
  BY DEF WorkerDies
<1>2. cron \in CronStates /\ rest \in [Jobs -> Nat] /\ \A n \in DOMAIN cron.mail : cron.mail[n] \in Said
  BY DEF KumeleInv, KumeleTypes, Said
<1>3. CASE cron' = cron
  BY <1>1, <1>2, <1>3, CronMoves DEF KumeleInv
<1>4. CASE cron' = Asleep
  BY <1>1, <1>2, <1>4, CronMoves, AsleepIsACron
<1>. QED
  BY <1>1, <1>3, <1>4

LEMMA CronRestsKeeps == ASSUME KumeleInv, CronSleeps \/ CronDies PROVE KumeleInv'
<1>1. cron' = Asleep /\ UNCHANGED <<created, touched, job, rest, running, news, revived>>
  BY DEF CronSleeps, CronDies
<1>. QED
  BY <1>1, CronMoves, AsleepIsACron DEF KumeleInv, KumeleTypes

LEMMA CronWakesKeeps == ASSUME KumeleAssumption, KumeleInv, CronWakes PROVE KumeleInv'
<1>1. PICK open \in {Candidates} :
        cron' = [Asleep EXCEPT !.step = "sweep", !.work = First(Batch, Sift(open, {j \in Jobs : Rested(j)}))]
  BY DEF CronWakes
<1>2. UNCHANGED <<created, touched, job, running, news, revived>>
      /\ rest' = [j \in Jobs |-> IF rest[j] = 0 THEN 0 ELSE rest[j] - 1]
  BY DEF CronWakes
<1>. DEFINE C == {j \in Jobs : Claimable(j)}
            R == {j \in Jobs : Rested(j)}
            work == First(Batch, Sift(open, R))
<1>3. open \in Seq(Jobs)
  <2>1. Sift(created, C) \in Seq(Jobs \cap C)
    BY SiftKeeps DEF KumeleInv, KumeleTypes
  <2>2. Sift(created, C) \in Seq(Jobs)
    BY <2>1
  <2>3. open = First(Fetch, Sift(created, C))
    BY DEF Candidates, Fetched
  <2>. HIDE DEF C
  <2>. QED
    BY <2>2, <2>3, FirstKeeps DEF KumeleAssumption
<1>4. work \in Seq(Jobs)
  <2>1. Sift(open, R) \in Seq(Jobs \cap R)
    BY <1>3, SiftKeeps
  <2>2. Sift(open, R) \in Seq(Jobs)
    BY <2>1
  <2>. HIDE DEF R
  <2>. QED
    BY <2>2, FirstKeeps DEF KumeleAssumption
<1>5. rest' \in [Jobs -> Nat]
  BY <1>2 DEF KumeleInv, KumeleTypes
<1>6. cron' = [Asleep EXCEPT !.step = "sweep", !.work = work]
  BY <1>1
<1>. HIDE DEF work
<1>7. cron' \in CronStates /\ cron'.step = "sweep" /\ DOMAIN cron'.mail = {}
  BY <1>4, <1>6, AsleepIsACron
<1>. QED
  BY <1>2, <1>5, <1>7, CronMoves

\* What a sweep or a round of callbacks has still to do.
LEMMA CronGoesOn ==
    ASSUME KumeleInv
    PROVE  /\ \A step \in {"sweep", "minting"} :
                 [cron EXCEPT !.step = step]
                    \in {c \in CronStates : c.step = step /\ c.work = cron.work /\ c.mail = cron.mail}
           /\ cron.work # <<>> =>
                 /\ Head(cron.work) \in Jobs
                 /\ [cron EXCEPT !.work = Tail(@)] \in {c \in CronStates : c.step = cron.step /\ c.mail = cron.mail}
                 /\ [cron EXCEPT !.step = "sweep", !.work = Tail(@)]
                       \in {c \in CronStates : c.step = "sweep" /\ c.mail = cron.mail}
           /\ cron.mail # <<>> =>
                 /\ Head(cron.mail) \in Letter
                 /\ Head(cron.mail) \in Said
                 /\ \A n \in DOMAIN Tail(cron.mail) : Tail(cron.mail)[n] \in Said
                 /\ [cron EXCEPT !.step = "post", !.mail = Tail(@), !.ok = FALSE]
                       \in {c \in CronStates : c.step = "post" /\ c.mail = Tail(cron.mail)}
           /\ \A n \in DOMAIN cron.mail : cron.mail[n] \in Said
<1>1. cron \in CronStates /\ cron.work \in Seq(Jobs) /\ cron.mail \in Seq(Letter)
  BY DEF KumeleInv, KumeleTypes, CronStates
<1>2. \A step \in {"sweep", "minting"} :
         [cron EXCEPT !.step = step]
            \in {c \in CronStates : c.step = step /\ c.work = cron.work /\ c.mail = cron.mail}
  BY <1>1 DEF CronStates
<1>3. ASSUME cron.work # <<>>
      PROVE  /\ Head(cron.work) \in Jobs
             /\ [cron EXCEPT !.work = Tail(@)] \in {c \in CronStates : c.step = cron.step /\ c.mail = cron.mail}
             /\ [cron EXCEPT !.step = "sweep", !.work = Tail(@)]
                   \in {c \in CronStates : c.step = "sweep" /\ c.mail = cron.mail}
  <2>. DEFINE w == Tail(cron.work)
  <2>1. w \in Seq(Jobs) /\ Head(cron.work) \in Jobs
    BY <1>1, <1>3
  <2>. HIDE DEF w
  <2>2. /\ [cron EXCEPT !.work = w] \in {c \in CronStates : c.step = cron.step /\ c.mail = cron.mail}
        /\ [cron EXCEPT !.step = "sweep", !.work = w] \in {c \in CronStates : c.step = "sweep" /\ c.mail = cron.mail}
    BY <1>1, <2>1 DEF CronStates
  <2>. QED
    BY <2>1, <2>2 DEF w
<1>4. ASSUME cron.mail # <<>>
      PROVE  /\ Head(cron.mail) \in Letter
             /\ Head(cron.mail) \in Said
             /\ \A n \in DOMAIN Tail(cron.mail) : Tail(cron.mail)[n] \in Said
             /\ [cron EXCEPT !.step = "post", !.mail = Tail(@), !.ok = FALSE]
                   \in {c \in CronStates : c.step = "post" /\ c.mail = Tail(cron.mail)}
  <2>. DEFINE m == Tail(cron.mail)
  <2>1. m \in Seq(Letter) /\ Head(cron.mail) \in Letter
    BY <1>1, <1>4
  <2>2. \A n \in DOMAIN m : m[n] \in {cron.mail[k] : k \in DOMAIN cron.mail}
    BY <1>1, <1>4
  <2>3. Head(cron.mail) \in {cron.mail[k] : k \in DOMAIN cron.mail}
    BY <1>1, <1>4
  <2>. HIDE DEF m
  <2>4. [cron EXCEPT !.step = "post", !.mail = m, !.ok = FALSE]
          \in {c \in CronStates : c.step = "post" /\ c.mail = m}
    BY <1>1, <2>1 DEF CronStates
  <2>. QED
    BY <2>1, <2>2, <2>3, <2>4 DEF m, Said
<1>5. \A n \in DOMAIN cron.mail : cron.mail[n] \in Said
  BY DEF Said
<1>. QED
  BY <1>2, <1>3, <1>4, <1>5

LEMMA SweepTakesKeeps == ASSUME KumeleAssumption, KumeleInv, SweepTakes PROVE KumeleInv'
<1>. DEFINE j == Head(cron.work)
<1>1. cron.work # <<>> /\ cron.step = "sweep" /\ UNCHANGED <<created, news, revived>>
  BY DEF SweepTakes
<1>2. j \in Jobs
  BY <1>1, CronGoesOn
<1>3. CASE Claimable(j)
  <2>1. Claim(j) /\ cron' = [cron EXCEPT !.step = "minting"]
    BY <1>3 DEF SweepTakes
  <2>. HIDE DEF j
  <2>2. cron' \in CronStates /\ cron'.step = "minting" /\ cron'.work = cron.work /\ cron'.mail = cron.mail
    BY <2>1, CronGoesOn
  <2>3. Said' = Said
    BY <1>1, <2>2 DEF Said
  <2>4. /\ job' \in [Jobs -> JobRow] /\ rest' \in [Jobs -> Nat] /\ touched' \in Seq(Jobs)
        /\ running' = running \cup {j}
        /\ \A i \in running' : job'[i].status = "MINTING" /\ job'[i].locked /\ job'[i].attempts # 0
        /\ \A n \in Said' : n.job \notin revived' => Ended(n.job)' /\ Outcome(n.job)' = n.outcome
    BY <1>1, <1>2, <1>3, <2>1, <2>3, ClaimSound
  <2>5. KumeleTypes'
    BY <1>1, <1>2, <2>2, <2>4 DEF KumeleInv, KumeleTypes
  <2>. QED
    BY <1>1, <2>2, <2>4, <2>5 DEF KumeleInv
<1>4. CASE ~Claimable(j)
  <2>1. cron' = [cron EXCEPT !.work = Tail(@)] /\ UNCHANGED <<job, rest, running, touched>>
    BY <1>4 DEF SweepTakes
  <2>2. cron' \in CronStates /\ cron'.step = "sweep" /\ cron'.mail = cron.mail
    BY <1>1, <2>1, CronGoesOn
  <2>. QED
    BY <1>1, <2>1, <2>2, CronGoesOn, CronMoves DEF KumeleInv, KumeleTypes
<1>. QED
  BY <1>3, <1>4

LEMMA SweepGoesOnKeeps == ASSUME KumeleInv, SweepGoesOn PROVE KumeleInv'
<1>1. /\ cron.work # <<>>
      /\ cron' = [cron EXCEPT !.step = "sweep", !.work = Tail(@)]
      /\ UNCHANGED <<created, touched, job, rest, running, news, revived>>
  BY DEF SweepGoesOn, KumeleInv
<1>2. cron' \in CronStates /\ cron'.step = "sweep" /\ cron'.mail = cron.mail
  BY <1>1, CronGoesOn
<1>. QED
  BY <1>1, <1>2, CronGoesOn, CronMoves DEF KumeleInv, KumeleTypes

\* Only ended jobs get into the mail, with their outcomes.
LEMMA CallbacksBeginKeeps == ASSUME KumeleAssumption, KumeleInv, CallbacksBegin PROVE KumeleInv'
<1>. DEFINE D == {j \in Jobs : Due(j)}
            due == First(Letters, Sift(touched, D))
            mail == [n \in DOMAIN due |-> [job |-> due[n], outcome |-> Outcome(due[n])]]
<1>1. cron' = [Asleep EXCEPT !.step = "post", !.mail = mail]
      /\ UNCHANGED <<created, touched, job, rest, running, news, revived>>
  BY DEF CallbacksBegin
<1>2. due \in Seq(D)
  <2>1. Sift(touched, D) \in Seq(Jobs \cap D)
    BY SiftKeeps DEF KumeleInv, KumeleTypes
  <2>2. Jobs \cap D = D
    OBVIOUS
  <2>. HIDE DEF D
  <2>. QED
    BY <2>1, <2>2, FirstKeeps DEF KumeleAssumption
<1>3. DOMAIN due = 1..Len(due) /\ Len(due) \in Nat /\ \A n \in DOMAIN due : due[n] \in D
  <2>. HIDE DEF D, due
  <2>. QED
    BY <1>2
<1>. HIDE DEF due
<1>4. DOMAIN mail = 1..Len(due)
      /\ \A n \in DOMAIN mail : /\ mail[n] \in Letter
                                /\ Ended(mail[n].job) /\ Outcome(mail[n].job) = mail[n].outcome
  BY <1>3 DEF Due, Letter, Outcome
<1>5. mail \in Seq(Letter)
  BY <1>3, <1>4
<1>. HIDE DEF mail
<1>6. cron' \in CronStates /\ cron'.step = "post" /\ cron'.mail = mail
  BY <1>1, <1>5, AsleepIsACron
<1>. QED
  BY <1>1, <1>4, <1>6, CronMoves DEF KumeleInv, KumeleTypes

LEMMA CallbackPostsKeeps == ASSUME KumeleInv, CallbackPosts PROVE KumeleInv'
<1>1. PICK arrives, ok \in BOOLEAN :
        /\ news' = IF arrives THEN news \cup {Head(cron.mail)} ELSE news
        /\ cron' = [cron EXCEPT !.step = "record", !.ok = ok]
  BY DEF CallbackPosts
<1>2. cron.mail # <<>> /\ UNCHANGED <<created, touched, job, rest, running, revived>>
  BY DEF CallbackPosts
<1>3. cron' \in CronStates /\ cron'.mail = cron.mail /\ cron'.step = "record"
  BY <1>1 DEF KumeleInv, KumeleTypes, CronStates
<1>4. Head(cron.mail) \in Letter /\ Head(cron.mail) \in Said
  BY <1>2, CronGoesOn
<1>5. Said' \subseteq Said /\ news' \subseteq Letter
  BY <1>1, <1>3, <1>4 DEF Said, KumeleInv, KumeleTypes
<1>6. KumeleTypes'
  BY <1>2, <1>3, <1>5 DEF KumeleInv, KumeleTypes
<1>7. \A n \in Said' : n.job \notin revived => Ended(n.job) /\ Outcome(n.job) = n.outcome
  BY <1>5 DEF KumeleInv
<1>. QED
  BY <1>2, <1>3, <1>6, <1>7 DEF KumeleInv, Ended, Outcome

LEMMA CallbackRecordsKeeps == ASSUME KumeleInv, CallbackRecords PROVE KumeleInv'
<1>. DEFINE j == Head(cron.mail).job
            x == Recorded(job[j], cron.ok)
<1>1. /\ job' = [job EXCEPT ![j] = x] /\ Touch(j)
      /\ cron' = [cron EXCEPT !.step = "post", !.mail = Tail(@), !.ok = FALSE]
      /\ UNCHANGED <<created, rest, running, news, revived>>
  BY DEF CallbackRecords
<1>2. cron.mail # <<>>
  BY DEF CallbackRecords, KumeleInv
<1>3. j \in Jobs
  BY <1>2, CronGoesOn DEF Letter
<1>4. /\ cron' \in CronStates /\ cron'.step = "post" /\ cron'.mail = Tail(cron.mail)
      /\ \A n \in DOMAIN cron'.mail : cron'.mail[n] \in Said
  BY <1>1, <1>2, CronGoesOn
<1>. HIDE DEF j
<1>5. job[j] \in JobRow
  BY <1>3 DEF KumeleInv, KumeleTypes
<1>6. x \in JobRow /\ x.status = job[j].status /\ x.locked = job[j].locked /\ x.attempts = job[j].attempts
  <2>1. job[j].calls + 1 \in Nat
    BY <1>5 DEF JobRow
  <2>2. [job[j] EXCEPT !.told = TRUE] \in {r \in JobRow : r.status = job[j].status /\ r.locked = job[j].locked /\ r.attempts = job[j].attempts}
    BY <1>5 DEF JobRow
  <2>3. [job[j] EXCEPT !.calls = job[j].calls + 1] \in {r \in JobRow : r.status = job[j].status /\ r.locked = job[j].locked /\ r.attempts = job[j].attempts}
    BY <1>5, <2>1 DEF JobRow
  <2>. QED
    BY <2>2, <2>3 DEF Recorded
<1>. HIDE DEF x
<1>7. Said' \subseteq Said
  BY <1>1, <1>4 DEF Said
<1>8. /\ job' \in [Jobs -> JobRow]
      /\ \A i \in Jobs : job'[i] = IF i = j THEN x ELSE job[i]
      /\ \A n \in Said' : n.job \notin revived' => Ended(n.job)' /\ Outcome(n.job)' = n.outcome
  BY <1>1, <1>3, <1>6, <1>7, JobChanges
<1>9. touched' \in Seq(Jobs)
  BY <1>1, <1>3, Touched DEF KumeleInv
<1>10. KumeleTypes'
  BY <1>1, <1>4, <1>8, <1>9 DEF KumeleInv, KumeleTypes
<1>11. \A i \in running' : job'[i].status = "MINTING" /\ job'[i].locked /\ job'[i].attempts # 0
  BY <1>1, <1>6, <1>8 DEF KumeleInv, KumeleTypes
<1>. QED
  BY <1>1, <1>4, <1>8, <1>10, <1>11 DEF KumeleInv

LEMMA KumeleStepKeeps ==
    ASSUME KumeleAssumption, KumeleInv, [KumeleNext]_kumeleVars
    PROVE  KumeleInv'
<1>1. CASE Cron
  BY <1>1, CronWakesKeeps, SweepTakesKeeps, SweepGoesOnKeeps, CallbacksBeginKeeps, CallbackPostsKeeps,
     CallbackRecordsKeeps, CronRestsKeeps DEF Cron
<1>2. CASE CronDies
  BY <1>2, CronRestsKeeps
<1>3. ASSUME NEW j \in Jobs,
             \/ Accept(j) \/ Replay(j) \/ Kick(j) \/ AttemptEnds(j) \/ WorkerDies(j)
             \/ LeaseEnds(j) \/ AdminRefunds(j)
      PROVE  KumeleInv'
  BY <1>3, AcceptKeeps, ReplayKeeps, KickKeeps, AttemptEndsKeeps, WorkerDiesKeeps, LeaseEndsKeeps, AdminRefundsKeeps
<1>4. CASE UNCHANGED kumeleVars
  BY <1>4 DEF kumeleVars, KumeleInv, KumeleTypes, Said, Ended, Outcome
<1>. QED
  BY <1>1, <1>2, <1>3, <1>4 DEF KumeleNext

LEMMA KumeleInvHolds == KumeleSpec => []KumeleInv
<1>1. KumeleInit => KumeleInv
  BY KumeleAssumption, KumeleInitSound
<1>2. KumeleInv /\ [KumeleNext]_kumeleVars => KumeleInv'
  BY KumeleAssumption, KumeleStepKeeps
<1>. QED
  BY <1>1, <1>2, PTL DEF KumeleSpec

\* A job Kumele has had news of ended that way and stays ended, whatever was
\* repeated, delayed or lost, unless an operator tried to refund it
\* (sendMintCallbacks, mintFromKumele, runMintJob).
THEOREM NewsIsTrue == KumeleSpec => []ToldTruth
<1>1. KumeleInv => ToldTruth
  BY DEF KumeleInv, Said, ToldTruth
<1>. QED
  BY <1>1, KumeleInvHolds, PTL
=============================================================================

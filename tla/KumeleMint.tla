------------------------------ MODULE KumeleMint -------------------------------
(***************************************************************************)
(* Mints ordered by Kumele's own server, the cron that works through what  *)
(* is outstanding, and the callbacks that tell Kumele how its mints ended. *)
(*                                                                         *)
(* Every five minutes the cron sweeps the open jobs and then posts the     *)
(* outcomes not acknowledged yet.  It may be evicted anywhere; a callback  *)
(* may be lost, or arrive with its answer lost.  What one attempt does on  *)
(* chain is MintRail's: here it ends minted, blocked or to be retried.     *)
(*                                                                         *)
(* Kumele was paid on its own Stripe account.  A refund asked of this      *)
(* worker's Stripe for such an intent is refused, and refundJob answers a  *)
(* refusal with PENDING: past the attempt cap these jobs are only retried. *)
(***************************************************************************)
EXTENDS Integers, Sequences, FiniteSets

CONSTANTS
    Jobs,           \* payment intents Kumele may send, and their jobs
    Batch,          \* maxJobs of one sweep
    Fetch,          \* candidates a sweep reads
    Letters,        \* maxJobs of one round of callbacks
    Delay,          \* ticks a job rests after each attempt, retryDelayMs
    MaxCalls,       \* MAX_CALLBACK_ATTEMPTS
    MaxFaults,      \* bound: evictions
    MaxPresses      \* bound: jobs an operator presses refund for

ASSUME KumeleAssumption ==
    /\ Batch \in Nat \ {0} /\ Fetch \in Nat /\ Letters \in Nat \ {0}
    /\ Delay \in Seq(Nat) /\ Delay # <<>>
    /\ MaxCalls \in Nat \ {0} /\ MaxFaults \in Nat /\ MaxPresses \in Nat

VARIABLES
    created,    \* jobs by createdAt
    touched,    \* jobs by updatedAt
    job,        \* the mint_jobs rows
    rest,       \* job -> ticks until its backoff has run out
    running,    \* jobs a worker is inside of
    cron,       \* what the scheduled invocation is doing
    news,       \* what has reached Kumele: outcomes of jobs
    revived,    \* history: jobs an operator has tried to refund
    faults

kumeleVars == <<created, touched, job, rest, running, cron, news, revived, faults>>

New == [status |-> "PENDING", attempts |-> 0, locked |-> FALSE, told |-> FALSE, calls |-> 0]

Asleep == [step |-> "asleep", work |-> <<>>, mail |-> <<>>, ok |-> FALSE]

KumeleInit ==
    /\ created = <<>>
    /\ touched = <<>>
    /\ job = [j \in Jobs |-> New]
    /\ rest = [j \in Jobs |-> 0]
    /\ running = {}
    /\ cron = Asleep
    /\ news = {}
    /\ revived = {}
    /\ faults = 0

Exists(j) == \E n \in DOMAIN created : created[n] = j

Pending(j) == Exists(j) /\ job[j].status = "PENDING"
Ended(j) == job[j].status \in {"MINTED", "BLOCKED"}

\* What of a sequence is in a set, in its order.
Sift(s, S) ==
    LET kept[n \in 0..Len(s)] ==
          IF n = 0 THEN <<>>
          ELSE IF s[n] \in S THEN Append(kept[n - 1], s[n]) ELSE kept[n - 1]
    IN  kept[Len(s)]

\* Prisma stamps updatedAt on every update of the row.
Touch(j) == touched' = Append(Sift(touched, Jobs \ {j}), j)

First(n, s) == SubSeq(s, 1, IF n < Len(s) THEN n ELSE Len(s))

-----------------------------------------------------------------------------
(* mintFromKumele                                                          *)

\* A signed and valid request for an intent not seen before; an unfunded vault
\* answers 503 and changes nothing.
Accept(j) ==
    /\ ~Exists(j)
    /\ created' = Append(created, j)
    /\ Touch(j)
    /\ UNCHANGED <<job, rest, running, cron, news, revived, faults>>

\* buildCallbackPayload: what is not minted has failed.
Outcome(j) == IF job[j].status = "MINTED" THEN "minted" ELSE "mint_failed"

\* mintApiResponseFor: what is open is only said to be pending.
Response(j) == IF Ended(j) THEN {[job |-> j, outcome |-> Outcome(j)]} ELSE {}

\* A replay finds the row, or the unique intent, and only reports its state.
Replay(j) ==
    /\ Exists(j)
    /\ news' = news \cup Response(j)
    /\ UNCHANGED <<created, touched, job, rest, running, cron, revived, faults>>

-----------------------------------------------------------------------------
(* runMintJob                                                              *)

Claimable(j) ==
    \/ Pending(j)
    \/ job[j].status = "MINTING" /\ ~job[j].locked

\* The attempts are counted as far as the backoff tells them apart.
Claim(j) ==
    /\ job' = [job EXCEPT ![j].status = "MINTING", ![j].locked = TRUE,
                          ![j].attempts = IF @ < Len(Delay) THEN @ + 1 ELSE @]
    /\ rest' = [rest EXCEPT ![j] = Delay[job'[j].attempts]]
    /\ running' = running \cup {j}
    /\ Touch(j)

\* The attempt started in line with the request, unless the isolate has gone.
Kick(j) ==
    /\ Pending(j)
    /\ job[j].attempts = 0
    /\ Claim(j)
    /\ UNCHANGED <<created, cron, news, revived, faults>>

AttemptEnds(j) ==
    /\ j \in running
    /\ \E outcome \in {"MINTED", "BLOCKED", "PENDING"} :
          job' = [job EXCEPT ![j].status = outcome, ![j].locked = FALSE]
    /\ rest' = [rest EXCEPT ![j] = Delay[job[j].attempts]]
    /\ running' = running \ {j}
    /\ Touch(j)
    /\ UNCHANGED <<created, cron, news, revived, faults>>

\* The worker is evicted: its row stays MINTING, under its lease.
WorkerDies(j) ==
    /\ j \in running
    /\ faults < MaxFaults
    /\ faults' = faults + 1
    /\ running' = running \ {j}
    /\ cron' = IF cron.work # <<>> /\ Head(cron.work) = j THEN Asleep ELSE cron
    /\ UNCHANGED <<created, touched, job, rest, news, revived>>

\* A worker that is alive ends before its lease does.
LeaseEnds(j) ==
    /\ job[j].locked
    /\ j \notin running
    /\ job' = [job EXCEPT ![j].locked = FALSE]
    /\ UNCHANGED <<created, touched, rest, running, cron, news, revived, faults>>

-----------------------------------------------------------------------------
(* sweepMintJobs                                                           *)

\* As many rows as the sweep will work on.
FetchExactly(n) == n

\* More, so that jobs in backoff do not fill the batch.
Fetched(n) == Fetch

Candidates == First(Fetched(Batch), Sift(created, {j \in Jobs : Claimable(j)}))

Rested(j) == job[j].attempts = 0 \/ rest'[j] = 0

\* Five minutes have passed for every job that rests.
CronWakes ==
    /\ cron.step = "asleep"
    /\ created # <<>>
    /\ rest' = [j \in Jobs |-> IF rest[j] = 0 THEN 0 ELSE rest[j] - 1]
    /\ \E open \in {Candidates} :
          cron' = [Asleep EXCEPT !.step = "sweep",
                                 !.work = First(Batch, Sift(open, {j \in Jobs : Rested(j)}))]
    /\ UNCHANGED <<created, touched, job, running, news, revived, faults>>

SweepTakes ==
    /\ cron.step = "sweep"
    /\ cron.work # <<>>
    /\ LET j == Head(cron.work) IN
       IF Claimable(j) THEN Claim(j) /\ cron' = [cron EXCEPT !.step = "minting"]
       ELSE /\ cron' = [cron EXCEPT !.work = Tail(@)]
            /\ UNCHANGED <<job, rest, running, touched>>
    /\ UNCHANGED <<created, news, revived, faults>>

SweepGoesOn ==
    /\ cron.step = "minting"
    /\ Head(cron.work) \notin running
    /\ cron' = [cron EXCEPT !.step = "sweep", !.work = Tail(@)]
    /\ UNCHANGED <<created, touched, job, rest, running, news, revived, faults>>

-----------------------------------------------------------------------------
(* sendMintCallbacks                                                       *)

\* Every job not acknowledged, ended or not.
Unacknowledged(j) == ~job[j].told /\ job[j].calls < MaxCalls

Due(j) == ~job[j].told /\ job[j].calls < MaxCalls /\ Ended(j)

\* The rows are read once, and posted one by one as they were read.
CallbacksBegin ==
    /\ cron.step = "sweep"
    /\ cron.work = <<>>
    /\ LET due == First(Letters, Sift(touched, {j \in Jobs : Due(j)})) IN
       cron' = [Asleep EXCEPT !.step = "post",
                   !.mail = [n \in DOMAIN due |-> [job |-> due[n], outcome |-> Outcome(due[n])]]]
    /\ UNCHANGED <<created, touched, job, rest, running, news, revived, faults>>

\* Kumele may take it and answer, take it without its answer being seen or
\* being a success, or never get it.
CallbackPosts ==
    /\ cron.step = "post"
    /\ cron.mail # <<>>
    /\ \E arrives, ok \in BOOLEAN :
          /\ ok => arrives
          /\ news' = IF arrives THEN news \cup {Head(cron.mail)} ELSE news
          /\ cron' = [cron EXCEPT !.step = "record", !.ok = ok]
    /\ UNCHANGED <<created, touched, job, rest, running, revived, faults>>

\* A post that failed and is not counted.
RecordedUncounted(row, ok) == [row EXCEPT !.told = ok]

Recorded(row, ok) ==
    IF ok THEN [row EXCEPT !.told = TRUE] ELSE [row EXCEPT !.calls = @ + 1]

CallbackRecords ==
    /\ cron.step = "record"
    /\ LET j == Head(cron.mail).job IN
       /\ job' = [job EXCEPT ![j] = Recorded(@, cron.ok)]
       /\ Touch(j)
    /\ cron' = [cron EXCEPT !.step = "post", !.mail = Tail(@), !.ok = FALSE]
    /\ UNCHANGED <<created, rest, running, news, revived, faults>>

CronSleeps ==
    /\ cron.step = "post"
    /\ cron.mail = <<>>
    /\ cron' = Asleep
    /\ UNCHANGED <<created, touched, job, rest, running, news, revived, faults>>

CronDies ==
    /\ cron.step \in {"sweep", "post", "record"}
    /\ faults < MaxFaults
    /\ faults' = faults + 1
    /\ cron' = Asleep
    /\ UNCHANGED <<created, touched, job, rest, running, news, revived>>

-----------------------------------------------------------------------------
(* adminRefundPayment                                                      *)

\* Allowed on anything but a mint that succeeded or is in flight; Stripe
\* refuses, and the job is PENDING.
AdminRefunds(j) ==
    /\ Exists(j)
    /\ job[j].status # "MINTED"
    /\ ~job[j].locked
    /\ j \notin revived /\ Cardinality(revived) < MaxPresses
    /\ job' = [job EXCEPT ![j].status = "PENDING"]
    /\ rest' = [rest EXCEPT ![j] = IF job[j].attempts = 0 THEN 0 ELSE Delay[job[j].attempts]]
    /\ revived' = revived \cup {j}
    /\ Touch(j)
    /\ UNCHANGED <<created, running, cron, news, faults>>

-----------------------------------------------------------------------------

Cron == CronWakes \/ SweepTakes \/ SweepGoesOn \/ CallbacksBegin \/ CallbackPosts
          \/ CallbackRecords \/ CronSleeps

KumeleNext ==
    \/ Cron \/ CronDies
    \/ \E j \in Jobs : \/ Accept(j) \/ Replay(j) \/ Kick(j) \/ AttemptEnds(j) \/ WorkerDies(j)
                       \/ LeaseEnds(j) \/ AdminRefunds(j)

\* Cloudflare runs the schedule and what it starts, an attempt ends within its
\* polls, and time passes.  Nobody owes the worker a request, an eviction or a
\* refund, and a kick may never be run.
KumeleFairness ==
    /\ WF_kumeleVars(Cron)
    /\ \A j \in Jobs : WF_kumeleVars(AttemptEnds(j)) /\ WF_kumeleVars(LeaseEnds(j))

KumeleSpec == KumeleInit /\ [][KumeleNext]_kumeleVars /\ KumeleFairness

-----------------------------------------------------------------------------
(* Properties                                                              *)

\* Kumele is told the truth: a job it has had news of ended that way and stays
\* ended, with callbacks repeated, delayed and read before they are sent, and
\* requests repeated meanwhile.
\* Only a refund tried by an operator opens such a job again.
ToldTruth ==
    \A n \in news : n.job \notin revived => Ended(n.job) /\ Outcome(n.job) = n.outcome

\* A job waiting to be minted is taken up again, with others ahead of it that
\* never succeed, and workers and crons dying.
NobodyStarves == \A j \in Jobs : Pending(j) ~> ~Pending(j)

\* An ended job's outcome is acknowledged, or given up on after MaxCalls posts:
\* it is not posted for ever, and not forgotten.
NewsArrives ==
    \A j \in Jobs : Ended(j) ~> (job[j].told \/ job[j].calls = MaxCalls \/ ~Ended(j))

=============================================================================

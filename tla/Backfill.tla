------------------------------- MODULE Backfill -------------------------------
(***************************************************************************)
(* Two backfills that look at a window of what is missing: the images that *)
(* never resolved, newest mint first, each time an admin runs it again;    *)
(* and what mints cost, oldest update first, on every tick of the cron.    *)
(*                                                                         *)
(* What cannot be repaired stays in the window.  A read that fails is      *)
(* written down like one that succeeds by the first, and passed over by    *)
(* the second.                                                             *)
(***************************************************************************)
EXTENDS Naturals, SequencesExt

CONSTANTS
    Pictures,      \* numbered in the order of their mints
    Lost,          \* those no host will ever serve
    ImageBatch,    \* resolveMissingMetadata's limit
    MintJobs,      \* MINTED, numbered in the order of their last update
    Unreadable,    \* those whose transaction no node tells the cost of
    CostBatch,     \* backfillMintCosts' limit
    MaxFailures    \* bound: outages, failed reads and invocations that die

ASSUME BackfillAssumption ==
    /\ Pictures \subseteq Nat /\ Lost \subseteq Pictures
    /\ MintJobs \subseteq Nat /\ Unreadable \subseteq MintJobs
    /\ ImageBatch \in Nat \ {0} /\ CostBatch \in Nat \ {0}
    /\ MaxFailures \in Nat

VARIABLES
    host,        \* picture -> what reading its metadata would give now
    shot,        \* picture of an indexed asset -> its row: [ok, url]
    fix,         \* the backfill and a single resolve: [queue, saw]
    failures     \* failures so far
imageVars == <<host, shot, fix, failures>>

VARIABLES
    cost,        \* MINTED job -> which of its two rows has the cost: [job, audit]
    meter,       \* the cron's invocation: [queue, step]
    misses       \* failures so far
costVars == <<cost, meter, misses>>

Resolved(saw) == [ok |-> saw = "image", url |-> saw # "nothing"]

ImagesInit ==
    /\ host \in {h \in [Pictures -> {"nothing", "url", "image"}] :
                   \A a \in Pictures : (h[a] = "image") = (a \notin Lost)}
    /\ \E S \in SUBSET Pictures : shot = [a \in S |-> Resolved("nothing")]
    /\ fix = [f \in {"all", "one"} |-> [queue |-> <<>>, saw |-> "unread"]]
    /\ failures = 0

CostsInit ==
    /\ \E S \in SUBSET MintJobs : cost = [j \in S |-> [job |-> FALSE, audit |-> FALSE]]
    /\ meter = [queue |-> <<>>, step |-> "read"]
    /\ misses = 0

BackfillInit == ImagesInit /\ CostsInit

Newest(S) == SetToSortSeq(S, LAMBDA i, j : i > j)
Oldest(S) == SetToSortSeq(S, LAMBDA i, j : i < j)
UpTo(n, s) == SubSeq(s, 1, IF Len(s) < n THEN Len(s) ELSE n)

-----------------------------------------------------------------------------
(* Images                                                                  *)

\* Mutated: the window is of all assets.
AllAssets == DOMAIN shot

Unresolved == {a \in DOMAIN shot : ~shot[a].ok}

\* Run again while something remains.
RerunBegins ==
    /\ fix["all"].queue = <<>> /\ Unresolved # {}
    /\ fix' = [fix EXCEPT !["all"].queue = UpTo(ImageBatch, Newest(Unresolved))]
    /\ UNCHANGED <<host, shot, failures>>

ResolveBegins(a) ==
    /\ a \in DOMAIN shot
    /\ fix["one"].queue = <<>>
    /\ fix' = [fix EXCEPT !["one"].queue = <<a>>]
    /\ UNCHANGED <<host, shot, failures>>

\* The metadata, then the image it names, from the bucket or their host.
ResolveMetadata(f) ==
    /\ fix[f].queue # <<>> /\ fix[f].saw = "unread"
    /\ fix' = [fix EXCEPT ![f].saw = host[Head(fix[f].queue)]]
    /\ UNCHANGED <<host, shot, failures>>

\* The row takes what was read, found or not.
ImageWrites(f) ==
    /\ fix[f].saw # "unread"
    /\ shot' = [shot EXCEPT ![Head(fix[f].queue)] = Resolved(fix[f].saw)]
    /\ fix' = [fix EXCEPT ![f] = [queue |-> Tail(@.queue), saw |-> "unread"]]
    /\ UNCHANGED <<host, failures>>

ImageFails ==
    /\ failures < MaxFailures
    /\ failures' = failures + 1
    /\ \/ \E a \in Pictures \ Lost, to \in {"nothing", "url"} :
             host' = [host EXCEPT ![a] = to] /\ UNCHANGED <<shot, fix>>
       \/ \E f \in {"all", "one"} :
             /\ fix[f].queue # <<>>
             /\ fix' = [fix EXCEPT ![f] = [queue |-> <<>>, saw |-> "unread"]]
             /\ UNCHANGED <<host, shot>>

HostReturns(a) ==
    /\ a \notin Lost
    /\ host[a] # "image"
    /\ host' = [host EXCEPT ![a] = "image"]
    /\ UNCHANGED <<shot, fix, failures>>

ImagesNext ==
    \/ RerunBegins \/ ImageFails
    \/ \E a \in Pictures : ResolveBegins(a) \/ HostReturns(a)
    \/ \E f \in {"all", "one"} : ResolveMetadata(f) \/ ImageWrites(f)

-----------------------------------------------------------------------------
(* Costs                                                                   *)

Uncosted == {j \in DOMAIN cost : ~cost[j].job}

MeterBegins ==
    /\ meter.queue = <<>> /\ Uncosted # {}
    /\ meter' = [queue |-> UpTo(CostBatch, Oldest(Uncosted)), step |-> "read"]
    /\ UNCHANGED <<cost, misses>>

Passes == meter' = [queue |-> Tail(meter.queue), step |-> "read"]

ReadFeePayerCost ==
    /\ meter.queue # <<>> /\ meter.step = "read"
    /\ IF Head(meter.queue) \in Unreadable THEN Passes ELSE meter' = [meter EXCEPT !.step = "job"]
    /\ UNCHANGED <<cost, misses>>

\* The job's row first; its update puts the job last, and out of the window.
MeterJob ==
    /\ meter.step = "job"
    /\ cost' = [cost EXCEPT ![Head(meter.queue)].job = TRUE]
    /\ meter' = [meter EXCEPT !.step = "audit"]
    /\ UNCHANGED misses

MeterAudit ==
    /\ meter.step = "audit"
    /\ cost' = [cost EXCEPT ![Head(meter.queue)].audit = TRUE]
    /\ Passes
    /\ UNCHANGED misses

\* A node that lags passes a job over; a statement that fails, or an invocation
\* that dies, ends the tick.
MeterFails ==
    /\ misses < MaxFailures /\ meter.queue # <<>>
    /\ misses' = misses + 1
    /\ \/ meter.step = "read" /\ Passes
       \/ meter' = [queue |-> <<>>, step |-> "read"]
    /\ UNCHANGED cost

CostsNext == MeterBegins \/ ReadFeePayerCost \/ MeterJob \/ MeterAudit \/ MeterFails

-----------------------------------------------------------------------------

\* An admin runs it again until nothing remains, a host comes back, a request
\* that is not evicted goes on; and the cron ticks.
BackfillFairness ==
    /\ WF_imageVars(RerunBegins \/ ResolveMetadata("all") \/ ImageWrites("all"))
    /\ WF_imageVars(\E a \in Pictures : HostReturns(a))
    /\ WF_costVars(MeterBegins \/ ReadFeePayerCost \/ MeterJob \/ MeterAudit)

-----------------------------------------------------------------------------
(* Properties                                                              *)

\* What can be repaired is, and stays so, though hosts go away, reads fail and
\* invocations die, if fewer are beyond it than a window holds: the one backfill
\* reaches every asset whose host serves it, the other every job whose cost can
\* be read.
BackfillReaches ==
    <>[](/\ Cardinality(Lost) < ImageBatch => Unresolved \subseteq Lost
         /\ Cardinality(Unreadable) < CostBatch => Uncosted \subseteq Unreadable)
=============================================================================

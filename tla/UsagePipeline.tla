---------------------------- MODULE UsagePipeline ----------------------------
(***************************************************************************)
(* billing/usage.py from a served request to the Postgres rollups: the     *)
(* three Redis writes of `record`, the usage list, and `flush_events`,     *)
(* which several processes run at once: the aggregator and the gateway     *)
(* loop (aggregator.run, main._aggregator_loop), and every control-plane   *)
(* request that wants fresh rollups.                                       *)
(*                                                                         *)
(* Abstracted: an event is an element of Events with its tenant, key,      *)
(* period and weight; a rollup row is the sum of the events added to it,   *)
(* so `rolled` counts how often each event was added; the events a flush   *)
(* holds are a set, as they are aggregated in a dict before being written. *)
(***************************************************************************)
EXTENDS Integers, Sequences, FiniteSets, FiniteSetsExt

CONSTANTS
    Events,       \* served, billable requests
    Tenants,
    Keys,
    Periods,
    KeyOf,        \* key of an event
    TenantOf,     \* tenant of a key
    PeriodOf,     \* period of an event, read when it is recorded
    MilliOf,      \* its weight
    Flushers,     \* concurrent callers of flush_events
    Aggregators,  \* those that call it in a loop
    Batch,        \* most events one flush drains
    MaxFailures,  \* bound: aborted flushes and failed records
    MaxResets     \* bound: restarts of the non-persistent Redis

ASSUME UsagePipelineAssumption ==
    /\ KeyOf \in [Events -> Keys]
    /\ TenantOf \in [Keys -> Tenants]
    /\ PeriodOf \in [Events -> Periods]
    /\ MilliOf \in [Events -> Nat]
    /\ IsFiniteSet(Events)
    /\ Aggregators \subseteq Flushers
    /\ Batch \in Nat \ {0}
    /\ MaxFailures \in Nat
    /\ MaxResets \in Nat

VARIABLES
    stage,     \* how far `record` got with an event
    live,      \* Redis live counters of tenants and keys, per period
    buffer,    \* the Redis list of usage events
    flush,     \* where each flusher stands in flush_events
    held,      \* the events it has popped and not yet committed
    rolled,    \* Postgres: times each event was added to usage_rollups
    lost,      \* history: events popped or evicted and never written
    failures,
    resets

pipelineVars == <<stage, live, buffer, flush, held, rolled, lost, failures, resets>>

Stages == {"served", "tenant", "key", "pushed", "dropped"}
Buffered == {buffer[i] : i \in 1 .. Len(buffer)}
TenantOfEvent(e) == TenantOf[KeyOf[e]]

PipelineInit ==
    /\ stage = [e \in Events |-> "served"]
    /\ live = [a \in (Tenants \cup Keys) \X Periods |-> 0]
    /\ buffer = <<>>
    /\ flush = [f \in Flushers |-> "idle"]
    /\ held = [f \in Flushers |-> {}]
    /\ rolled = [e \in Events |-> 0]
    /\ lost = {}
    /\ failures = 0
    /\ resets = 0

----------------------------------------------------------------------------
(* record: INCRBY tenant, INCRBY key, RPUSH, three separate awaits.        *)

Count(e, from, to, a) ==
    /\ stage[e] = from
    /\ stage' = [stage EXCEPT ![e] = to]
    /\ live' = [live EXCEPT ![a] = @ + MilliOf[e]]
    /\ UNCHANGED <<buffer, flush, held, rolled, lost, failures, resets>>

\* Mutant of IncrTenant: every request counts one, whatever its weight.
IncrTenantFlat(e) ==
    /\ stage[e] = "served"
    /\ stage' = [stage EXCEPT ![e] = "tenant"]
    /\ live' = [live EXCEPT ![<<TenantOfEvent(e), PeriodOf[e]>>] = @ + 1]
    /\ UNCHANGED <<buffer, flush, held, rolled, lost, failures, resets>>

IncrTenant(e) == Count(e, "served", "tenant", <<TenantOfEvent(e), PeriodOf[e]>>)
IncrKey(e)    == Count(e, "tenant", "key", <<KeyOf[e], PeriodOf[e]>>)

PushEvent(e) ==
    /\ stage[e] = "key"
    /\ stage' = [stage EXCEPT ![e] = "pushed"]
    /\ buffer' = Append(buffer, e)
    /\ UNCHANGED <<live, flush, held, rolled, lost, failures, resets>>

Record(e) == IncrTenant(e) \/ IncrKey(e) \/ PushEvent(e)

\* Redis raises, or the process dies, between two of the writes: the sink
\* answers 500 and the entry is never recorded again.
RecordFails(e) ==
    /\ stage[e] \in {"served", "tenant", "key"}
    /\ failures < MaxFailures
    /\ stage' = [stage EXCEPT ![e] = "dropped"]
    /\ failures' = failures + 1
    /\ UNCHANGED <<live, buffer, flush, held, rolled, lost, resets>>

----------------------------------------------------------------------------
(* flush_events.                                                           *)

StartFlush(f) ==
    /\ flush[f] = "idle"
    /\ flush' = [flush EXCEPT ![f] = "draining"]
    /\ UNCHANGED <<stage, live, buffer, held, rolled, lost, failures, resets>>

\* Mutant of Pop: LINDEX instead of LPOP.
PopKeeping(f) ==
    /\ flush[f] = "draining"
    /\ buffer # <<>> /\ Cardinality(held[f]) < Batch
    /\ held' = [held EXCEPT ![f] = @ \cup {Head(buffer)}]
    /\ UNCHANGED <<stage, live, buffer, flush, rolled, lost, failures, resets>>

\* One LPOP.
Pop(f) ==
    /\ flush[f] = "draining"
    /\ buffer # <<>> /\ Cardinality(held[f]) < Batch
    /\ held' = [held EXCEPT ![f] = @ \cup {Head(buffer)}]
    /\ buffer' = Tail(buffer)
    /\ UNCHANGED <<stage, live, flush, rolled, lost, failures, resets>>

\* Mutant of Drained: a full batch keeps waiting for the list to be empty.
DrainedOnlyEmpty(f) ==
    /\ flush[f] = "draining"
    /\ buffer = <<>>
    /\ flush' = [flush EXCEPT ![f] = IF held[f] = {} THEN "idle" ELSE "writing"]
    /\ UNCHANGED <<stage, live, buffer, held, rolled, lost, failures, resets>>

\* LPOP found the list empty, or the batch is full; an empty-handed flush
\* returns without opening a transaction.
Drained(f) ==
    /\ flush[f] = "draining"
    /\ buffer = <<>> \/ Cardinality(held[f]) >= Batch
    /\ flush' = [flush EXCEPT ![f] = IF held[f] = {} THEN "idle" ELSE "writing"]
    /\ UNCHANGED <<stage, live, buffer, held, rolled, lost, failures, resets>>

\* Mutant of Commit: the popped events are kept for the next flush.
CommitKeeping(f) ==
    /\ flush[f] = "writing"
    /\ rolled' = [e \in Events |-> IF e \in held[f] THEN rolled[e] + 1 ELSE rolled[e]]
    /\ flush' = [flush EXCEPT ![f] = "idle"]
    /\ UNCHANGED <<stage, live, buffer, held, lost, failures, resets>>

\* The one transaction that adds every aggregated row commits.
Commit(f) ==
    /\ flush[f] = "writing"
    /\ rolled' = [e \in Events |-> IF e \in held[f] THEN rolled[e] + 1 ELSE rolled[e]]
    /\ held' = [held EXCEPT ![f] = {}]
    /\ flush' = [flush EXCEPT ![f] = "idle"]
    /\ UNCHANGED <<stage, live, buffer, lost, failures, resets>>

\* Redis or Postgres raises (a deadlock between two flushes included), or the
\* process dies: what was popped was only in memory.  The loops swallow it.
Abort(f) ==
    /\ flush[f] \in {"draining", "writing"}
    /\ failures < MaxFailures
    /\ flush' = [flush EXCEPT ![f] = "idle"]
    /\ lost' = lost \cup held[f]
    /\ held' = [held EXCEPT ![f] = {}]
    /\ failures' = failures + 1
    /\ UNCHANGED <<stage, live, buffer, rolled, resets>>

\* The shared Redis is not persistent: a restart empties list and counters.
RedisLoss ==
    /\ resets < MaxResets
    /\ lost' = lost \cup Buffered
    /\ buffer' = <<>>
    /\ live' = [a \in DOMAIN live |-> 0]
    /\ resets' = resets + 1
    /\ UNCHANGED <<stage, flush, held, rolled, failures>>

FlushStep(f) == Pop(f) \/ Drained(f) \/ Commit(f)

PipelineNext ==
    \/ \E e \in Events : Record(e) \/ RecordFails(e)
    \/ \E f \in Flushers : StartFlush(f) \/ FlushStep(f) \/ Abort(f)
    \/ RedisLoss

PipelineSpec == PipelineInit /\ [][PipelineNext]_pipelineVars

(* A started flush runs on, and the aggregators flush again and again      *)
(* (`while True` with a sleep); nobody forces requests or failures.        *)
PipelineFairness ==
    /\ \A f \in Flushers : WF_pipelineVars(FlushStep(f))
    /\ \A f \in Aggregators : WF_pipelineVars(StartFlush(f))

FairPipelineSpec == PipelineSpec /\ PipelineFairness

----------------------------------------------------------------------------
PipelineTypeOK ==
    /\ stage \in [Events -> Stages]
    /\ live \in [(Tenants \cup Keys) \X Periods -> Nat]
    /\ buffer \in Seq(Events)
    /\ flush \in [Flushers -> {"idle", "draining", "writing"}]
    /\ held \in [Flushers -> SUBSET Events]
    /\ rolled \in [Events -> Nat]
    /\ lost \subseteq Events
    /\ failures \in 0 .. MaxFailures
    /\ resets \in 0 .. MaxResets

InFlight(e) == e \in Buffered \/ \E f \in Flushers : e \in held[f]

(* An event is in one place: once on the list, or in the hands of one      *)
(* flusher, or lost, or in the rollups exactly once.  This is what LPOP    *)
(* before aggregation buys: concurrent flushes never bill an event twice.  *)
OnePlace ==
    /\ \A i, j \in 1 .. Len(buffer) : buffer[i] = buffer[j] => i = j
    /\ \A f, g \in Flushers : \A e \in held[f] :
         e \notin Buffered /\ (e \in held[g] => f = g)
    /\ \A e \in Events : InFlight(e) => e \notin lost /\ rolled[e] = 0
    /\ \A e \in Events : rolled[e] \in {0, 1} /\ (rolled[e] = 1 => e \notin lost)
    /\ \A f \in Flushers : flush[f] = "idle" => held[f] = {}

(* And it is somewhere: a pushed event is in flight, lost or billed, and   *)
(* nothing else ever is.                                                   *)
Conserved ==
    \A e \in Events :
        stage[e] = "pushed" <=> InFlight(e) \/ e \in lost \/ rolled[e] = 1

PipelineInv == PipelineTypeOK /\ OnePlace /\ Conserved

(* Sum of a tenant's rollup rows of a period (usage_totals_for_period).    *)
Total(t, p) ==
    SumFunctionOnSet([e \in Events |-> rolled[e] * MilliOf[e]],
                     {e \in Events : TenantOfEvent(e) = t /\ PeriodOf[e] = p})

(* As long as Redis keeps its keys the live counters lead the rollups:     *)
(* `record` counts before it pushes, so nothing is billed that the quota   *)
(* and the real-time display have not seen.                                *)
CountersLeadRollups ==
    resets = 0 =>
    \A t \in Tenants, p \in Periods : Total(t, p) <= live[<<t, p>>]

(* Every recorded event leaves the pipeline, billed or lost.               *)
EveryEventSettles ==
    \A e \in Events : stage[e] = "pushed" ~> (rolled[e] = 1 \/ e \in lost)

Ledger == INSTANCE UsageLedger WITH
    entered <- {e \in Events : stage[e] = "pushed"},
    pending <- {e \in Events : InFlight(e)},
    billed  <- rolled

(* The pipeline implements the ledger.                                     *)
ImplementsLedger == Ledger!LedgerSpec
=============================================================================

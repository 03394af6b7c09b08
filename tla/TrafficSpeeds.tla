---------------------------- MODULE TrafficSpeeds ----------------------------
(***************************************************************************)
(* Live speeds: aggregators fold observations into a hash per edge and put *)
(* the edge into an index (traffic_aggregator.py), writers copy the speeds *)
(* of indexed edges into Valhalla's tiles and revert the expired ones      *)
(* (traffic_writer.py).  Both sides work on Redis call by call, without    *)
(* transactions, and the tiles outlive every process.                      *)
(*                                                                         *)
(* Abstracted: a speed is the number of samples it was smoothed from;      *)
(* scores and expiries are ages in ticks, so time is unbounded.            *)
(***************************************************************************)
EXTENDS Integers, FiniteSets

CONSTANTS
    Edges,        \* edges of the extract
    Writers,      \* the shards
    Shard,        \* tile_base_id(edge) % shards, as the writer that owns it
    Aggregators,  \* probe consumers and cell workers, each one call deep
    MinSamples,   \* TRAFFIC_MIN_SAMPLES
    TTL,          \* TRAFFIC_EDGE_TTL, in ticks
    FetchTTL,     \* TRAFFIC_FETCH_TTL, in ticks
    MaxLag,       \* bound: ticks an observation or a writer's cycle takes
    MaxErrors,    \* bound: Redis errors, crashes of a process
    MaxWipes      \* bound: restarts of Redis

ASSUME TrafficSpeedsAssumption ==
    /\ Shard \in [Edges -> Writers]
    /\ MinSamples \in Nat \ {0}
    /\ TTL \in Nat \ {0} /\ FetchTTL \in 1 .. 2 * TTL
    /\ {MaxLag, MaxErrors, MaxWipes} \subseteq Nat

VARIABLES
    samples,   \* tf:e:{edge}: n, or 0 without a hash
    hashAge,   \* age of the hash's last EXPIRE
    score,     \* tf:idx: age of the edge's score, or None
    tile,      \* what Valhalla reads: samples behind the speed, or Unknown
    fold,      \* the observation each aggregator is at
    cycle,     \* the cycle of each writer
    asked,     \* edges a /route request asks the provider for, see below
    early,     \* edges a race or the provider may show before their time
    errors,
    wipes

redisVars == <<samples, hashAge, score>>
speedVars == <<samples, hashAge, score, tile, fold, cycle, asked, early, errors, wipes>>

None    == -1
Unknown == 0

\* Ages past this are told apart by nothing in the code.
Oldest == 2 * TTL + MaxLag + 1
Older(age) == IF age = None \/ age = Oldest THEN age ELSE age + 1

NoFold  == [at |-> "idle", edge |-> {}, lag |-> 0]
NoCycle == [at |-> "asleep", left |-> {}, read |-> {}, lag |-> 0]

SpeedsInit ==
    /\ samples = [e \in Edges |-> 0]
    /\ hashAge = [e \in Edges |-> 0]
    /\ score = [e \in Edges |-> None]
    /\ tile = [e \in Edges |-> Unknown]
    /\ fold = [a \in Aggregators |-> NoFold]
    /\ cycle = [w \in Writers |-> NoCycle]
    /\ asked = [e \in Edges |-> "no"]
    /\ early = {}
    /\ errors = 0
    /\ wipes = 0

----------------------------------------------------------------------------
(* The aggregators: `_process_batch` and `_cell_worker` take the time, map *)
(* the observation to an edge, then call `_update_edge`.                   *)

\* An observation of a plausible speed is snapped to an edge.
Observe(a, e) ==
    /\ fold[a].at = "idle"
    /\ fold' = [fold EXCEPT ![a] = [at |-> "observed", edge |-> {e}, lag |-> 0]]
    /\ UNCHANGED <<redisVars, tile, cycle, asked, early, errors, wipes>>

\* Mutant of FoldIn: the edge is indexed whatever its number of samples.
FoldInVisible(a) ==
    \E e \in fold[a].edge :
        /\ fold[a].at = "observed"
        /\ samples' = [samples EXCEPT ![e] = IF @ < MinSamples THEN @ + 1 ELSE @]
        /\ hashAge' = [hashAge EXCEPT ![e] = 0]
        /\ fold' = [fold EXCEPT ![a].at = "folded"]
        /\ UNCHANGED <<score, tile, cycle, asked, early, errors, wipes>>

\* The Lua script: n counts up, the expiry starts over.  More samples than
\* MinSamples are told apart by nothing.
FoldIn(a) ==
    \E e \in fold[a].edge :
        LET n == IF samples[e] < MinSamples THEN samples[e] + 1 ELSE MinSamples IN
        /\ fold[a].at = "observed"
        /\ samples' = [samples EXCEPT ![e] = n]
        /\ hashAge' = [hashAge EXCEPT ![e] = 0]
        /\ fold' = [fold EXCEPT ![a] = IF n >= MinSamples THEN [fold[a] EXCEPT !.at = "folded"]
                                                          ELSE NoFold]
        /\ UNCHANGED <<score, tile, cycle, asked, early, errors, wipes>>

\* ZADD with the time the observation was taken up at, be it older than the
\* score that is there.
IndexEdge(a) ==
    \E e \in fold[a].edge :
        /\ fold[a].at = "folded"
        /\ score' = [score EXCEPT ![e] = fold[a].lag]
        /\ fold' = [fold EXCEPT ![a] = NoFold]
        /\ UNCHANGED <<samples, hashAge, tile, cycle, asked, early, errors, wipes>>

\* An error of Redis or the death of the aggregator; the message is
\* acknowledged, or redelivered as an observation of its own.
FoldFails(a) ==
    /\ fold[a].at # "idle" /\ errors < MaxErrors
    /\ errors' = errors + 1
    /\ fold' = [fold EXCEPT ![a] = NoFold]
    /\ UNCHANGED <<redisVars, tile, cycle, asked, early, wipes>>

----------------------------------------------------------------------------
(* A writer's cycle: `run` of traffic_writer.py.                           *)

Owned(w) == {e \in Edges : Shard[e] = w}

\* Mutant of Expired: the bounds of the range are swapped, an empty range.
ExpiredNone(w) == {}

\* The cutoff is fixed at the start of the cycle.
Expired(w) == {e \in Owned(w) : score[e] # None /\ score[e] > TTL + cycle[w].lag}
Fresh(w)   == {e \in Owned(w) : score[e] # None /\ score[e] <= TTL + cycle[w].lag}

Folded(e)   == \E a \in Aggregators : fold[a].at = "folded" /\ e \in fold[a].edge

GotoCycle(w, at, left) ==
    cycle' = [cycle EXCEPT ![w].at = at, ![w].left = left, ![w].read = {}]

\* ZRANGEBYSCORE below the cutoff.
StartCycle(w) ==
    /\ cycle[w].at = "asleep"
    /\ GotoCycle(w, "reverting", Expired(w))
    /\ UNCHANGED <<redisVars, tile, fold, asked, early, errors, wipes>>

\* Mutant of RevertTile: forgotten in the index, the tile is left alone.
RevertTileNever(w) ==
    /\ cycle[w].at = "reverting" /\ cycle[w].left # {}
    /\ GotoCycle(w, "deleting", cycle[w].left)
    /\ UNCHANGED <<redisVars, tile, fold, asked, early, errors, wipes>>

\* write_edge(None): the records of the expired edges become UNKNOWN.
RevertTile(w) ==
    /\ cycle[w].at = "reverting" /\ cycle[w].left # {}
    /\ tile' = [e \in Edges |-> IF e \in cycle[w].left THEN Unknown ELSE tile[e]]
    /\ GotoCycle(w, "deleting", cycle[w].left)
    /\ UNCHANGED <<redisVars, fold, asked, early, errors, wipes>>

\* The hashes go, one DEL per edge, in a pipeline without a transaction.
DeleteHash(w) ==
    \E e \in cycle[w].left :
        /\ cycle[w].at = "deleting" /\ e \notin cycle[w].read
        /\ samples' = [samples EXCEPT ![e] = 0]
        /\ cycle' = [cycle EXCEPT ![w].read = @ \cup {e}]
        /\ early' = IF e \in Fresh(w) \/ Folded(e) THEN early \cup {e} ELSE early
        /\ UNCHANGED <<hashAge, score, tile, fold, asked, errors, wipes>>

\* ZREM of the batch, whatever was added to the index meanwhile.
DropFromIndex(w) ==
    /\ cycle[w].at = "deleting" /\ cycle[w].read = cycle[w].left
    /\ score' = [e \in Edges |-> IF e \in cycle[w].left THEN None ELSE score[e]]
    /\ GotoCycle(w, "reverting", {})
    /\ UNCHANGED <<samples, hashAge, tile, fold, asked, early, errors, wipes>>

\* ZRANGEBYSCORE from the same cutoff on.
ListFresh(w) ==
    /\ cycle[w].at = "reverting" /\ cycle[w].left = {}
    /\ GotoCycle(w, "reading", Fresh(w))
    /\ UNCHANGED <<redisVars, tile, fold, asked, early, errors, wipes>>

\* The pipeline of HGETALLs: pairs of an edge and what its hash held.
ReadHash(w) ==
    \E e \in cycle[w].left :
        /\ cycle[w].at = "reading"
        /\ cycle' = [cycle EXCEPT ![w].left = @ \ {e},
                                  ![w].read = @ \cup {<<e, samples[e]>>}]
        /\ UNCHANGED <<redisVars, tile, fold, asked, early, errors, wipes>>

\* write_edge(kph) of every edge that had a hash; then the writer sleeps.
WriteTiles(w) ==
    /\ cycle[w].at = "reading" /\ cycle[w].left = {}
    /\ tile' = [e \in Edges |->
                  IF \E n \in 1 .. MinSamples : <<e, n>> \in cycle[w].read
                    THEN CHOOSE n \in 1 .. MinSamples : <<e, n>> \in cycle[w].read
                    ELSE tile[e]]
    /\ cycle' = [cycle EXCEPT ![w] = NoCycle]
    /\ UNCHANGED <<redisVars, fold, asked, early, errors, wipes>>

\* A Redis error ends the cycle, a crash too; the tiles stay as they are.
CycleFails(w) ==
    /\ cycle[w].at # "asleep" /\ errors < MaxErrors
    /\ errors' = errors + 1
    /\ cycle' = [cycle EXCEPT ![w] = NoCycle]
    /\ UNCHANGED <<redisVars, tile, fold, asked, early, wipes>>

----------------------------------------------------------------------------
(* /route: `_fill_missing_from_provider` writes the provider's speed over  *)
(* whatever the aggregators hold by then, as one sample, and indexes it.   *)

AskProvider(e) ==
    /\ asked[e] = "no" /\ samples[e] = 0
    /\ asked' = [asked EXCEPT ![e] = "asked"]
    /\ UNCHANGED <<redisVars, tile, fold, cycle, early, errors, wipes>>

\* HSET and EXPIRE of a pipeline without a transaction.
FillHash(e) ==
    /\ asked[e] = "asked"
    /\ asked' = [asked EXCEPT ![e] = "filled"]
    /\ samples' = [samples EXCEPT ![e] = 1]
    /\ hashAge' = [hashAge EXCEPT ![e] = 2 * TTL - FetchTTL]
    /\ early' = early \cup {e}
    /\ UNCHANGED <<score, tile, fold, cycle, errors, wipes>>

IndexFilled(e) ==
    /\ asked[e] = "filled"
    /\ asked' = [asked EXCEPT ![e] = "no"]
    /\ score' = [score EXCEPT ![e] = 0]
    /\ UNCHANGED <<samples, hashAge, tile, fold, cycle, early, errors, wipes>>

\* No data (a negative mark), a timeout, or the pipeline ends half-way.
AskFails(e) ==
    /\ asked[e] # "no" /\ (asked[e] = "filled" => errors < MaxErrors)
    /\ asked' = [asked EXCEPT ![e] = "no"]
    /\ errors' = IF asked[e] = "filled" THEN errors + 1 ELSE errors
    /\ UNCHANGED <<redisVars, tile, fold, cycle, early, wipes>>

----------------------------------------------------------------------------
(* Redis and time.                                                         *)

\* EXPIRE of the hash, twice the TTL after the last fold; a provider's speed
\* has FetchTTL.
ExpireHash(e) ==
    /\ samples[e] > 0 /\ hashAge[e] > 2 * TTL
    /\ samples' = [samples EXCEPT ![e] = 0]
    /\ UNCHANGED <<hashAge, score, tile, fold, cycle, asked, early, errors, wipes>>

\* Redis restarts empty: nothing is persisted.
WipeRedis ==
    /\ wipes < MaxWipes
    /\ wipes' = wipes + 1
    /\ samples' = [e \in Edges |-> 0]
    /\ score' = [e \in Edges |-> None]
    /\ UNCHANGED <<hashAge, tile, fold, cycle, asked, early, errors>>

Tick ==
    /\ \A a \in Aggregators : fold[a].at = "idle" \/ fold[a].lag < MaxLag
    /\ \A w \in Writers : cycle[w].at = "asleep" \/ cycle[w].lag < MaxLag
    /\ score' = [e \in Edges |-> Older(score[e])]
    /\ hashAge' = [e \in Edges |-> IF samples[e] = 0 THEN 0 ELSE Older(hashAge[e])]
    /\ fold' = [a \in Aggregators |-> IF fold[a].at = "idle" THEN NoFold
                                        ELSE [fold[a] EXCEPT !.lag = @ + 1]]
    /\ cycle' = [w \in Writers |-> IF cycle[w].at = "asleep" THEN NoCycle
                                     ELSE [cycle[w] EXCEPT !.lag = @ + 1]]
    /\ UNCHANGED <<samples, tile, asked, early, errors, wipes>>

FoldStep(a) == FoldIn(a) \/ IndexEdge(a)

WriterStep(w) ==
    \/ StartCycle(w) \/ RevertTile(w) \/ DeleteHash(w) \/ DropFromIndex(w)
    \/ ListFresh(w) \/ ReadHash(w) \/ WriteTiles(w)

SpeedsNext ==
    \/ \E a \in Aggregators : FoldStep(a) \/ FoldFails(a) \/ \E e \in Edges : Observe(a, e)
    \/ \E w \in Writers : WriterStep(w) \/ CycleFails(w)
    \/ \E e \in Edges : AskProvider(e) \/ FillHash(e) \/ IndexFilled(e) \/ AskFails(e) \/ ExpireHash(e)
    \/ WipeRedis
    \/ Tick

SpeedsSpec == SpeedsInit /\ [][SpeedsNext]_speedVars

(* Aggregators and writers run on (`while True`, every call with a         *)
(* timeout), and time passes.  No observation is ever owed.                *)
SpeedsFairness ==
    /\ \A a \in Aggregators : WF_speedVars(FoldStep(a))
    /\ \A w \in Writers : WF_speedVars(WriterStep(w))
    /\ WF_speedVars(Tick)

FairSpeedsSpec == SpeedsSpec /\ SpeedsFairness

----------------------------------------------------------------------------
SpeedsTypeOK ==
    /\ samples \in [Edges -> 0 .. MinSamples]
    /\ hashAge \in [Edges -> 0 .. Oldest]
    /\ score \in [Edges -> None .. Oldest]
    /\ tile \in [Edges -> 0 .. MinSamples]
    /\ \A a \in Aggregators :
         /\ fold[a].at \in {"idle", "observed", "folded"}
         /\ fold[a].edge \subseteq Edges /\ Cardinality(fold[a].edge) <= 1
         /\ fold[a].lag \in 0 .. MaxLag
    /\ \A w \in Writers :
         /\ cycle[w].at \in {"asleep", "reverting", "deleting", "reading"}
         /\ cycle[w].left \subseteq Owned(w)
         /\ cycle[w].lag \in 0 .. MaxLag
    /\ asked \in [Edges -> {"no", "asked", "filled"}] /\ early \subseteq Edges
    /\ errors \in 0 .. MaxErrors /\ wipes \in 0 .. MaxWipes

(* A live speed in a tile is always known to the index, without which no   *)
(* writer would ever revert it: through cycles that stop half-way, expiry  *)
(* and edges that come back, as long as Redis keeps the index.             *)
TileBacked == wipes = 0 => \A e \in Edges : tile[e] # Unknown => score[e] # None

(* An edge becomes visible only with MinSamples samples, except when a     *)
(* writer deleted its hash while the edge was coming back, or a provider's *)
(* speed was put in its place; and as long as no cycle outlasts the TTL,   *)
(* after which a hash may expire and return under a writer that reads.     *)
EnoughSamples ==
    wipes = 0 /\ MaxLag <= TTL => \A e \in Edges \ early : tile[e] \in {Unknown, MinSamples}

(* What a tile shows is indexed, and was observed often enough.            *)
SpeedsInv == SpeedsTypeOK /\ TileBacked /\ EnoughSamples

(* An edge nobody observes any more goes back to UNKNOWN for good: the TTL *)
(* bounds how long a stale speed steers the router.                        *)
StaleReverts ==
    \A e \in Edges :
        (<>[](asked[e] = "no" /\ \A a \in Aggregators : e \notin fold[a].edge) /\ [](wipes = 0))
            => <>[](tile[e] = Unknown)
===============================================================================

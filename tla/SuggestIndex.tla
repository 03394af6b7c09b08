----------------------------- MODULE SuggestIndex -----------------------------
(***************************************************************************)
(* The autocomplete index in Redis (autocomplete.py): one replica after    *)
(* the other fills it from Elasticsearch (_warm_autocomplete of            *)
(* geocoder.py), while /feedback raises the popularity of a place first in *)
(* Elasticsearch and then in the index.  A pipeline is no transaction, and *)
(* nothing is read and written in one step.                                *)
(*                                                                         *)
(* One prefix bucket stands for all buckets a place is in.  A member is    *)
(* its JSON: the place, the version of its document (label, names,         *)
(* centroid, rank) and the popularity it was made with.  That a document   *)
(* goes back to a text it had before is left out.                          *)
(***************************************************************************)
EXTENDS Integers, FiniteSets

CONSTANTS
    Places,
    Versions,      \* versions of a place's document: 0 .. Versions
    Revised,       \* places that are ingested again
    Rank,          \* offline_rank of a place and version, scaled
    MaxDocs,       \* _AC_MAX_DOCS
    BatchDocs,     \* _AC_BATCH_SIZE
    TopK,          \* TOP_K
    PopularityCap, \* POPULARITY_CAP
    Boosts,        \* boosts /feedback may ask for
    Clicks,        \* /feedback requests in progress at once
    Warmers,       \* replicas
    LeaseTTL,      \* ex=180, in ticks
    Rewarm,        \* _AC_REWARM_SECS, in ticks
    MaxWarm,       \* bound: ticks a warm-up takes
    MaxClicks,     \* bound: requests
    MaxTroubles    \* bound: failing calls, deaths of a replica, overlong warm-ups

ASSUME SuggestIndexAssumption ==
    /\ Versions \in Nat /\ Rank \in [Places \X (0 .. Versions) -> Nat]
    /\ {MaxDocs, BatchDocs} \subseteq Nat \ {0}
    /\ TopK \in Nat \ {0} /\ PopularityCap \in Nat /\ Boosts \subseteq Nat \ {0}
    /\ {LeaseTTL, Rewarm} \subseteq Nat \ {0}
    /\ {MaxWarm, MaxClicks, MaxTroubles} \subseteq Nat

VARIABLES
    places,     \* documents in Elasticsearch: version and popularity
    searchable, \* the same as of the last refresh of the index
    meta,       \* ac:meta:{place}: version and popularity of the current member
    bucket,     \* ac:{prefix}
    click,      \* /feedback requests
    warmer,     \* the loop of each replica
    lease,      \* geocoder:ac:warming: its holder and its age, or NoLease
    lastWarm,   \* age of geocoder:ac:last_warm, or Never
    overran,    \* history: a warm-up outlasted its lease
    entangled,  \* history: places whose updates overlapped, reached only one side,
                \* or were not yet searchable when a warm-up looked
    clicks,
    troubles

suggestVars == <<places, searchable, meta, bucket, click, warmer, lease, lastWarm, overran,
                 entangled, clicks, troubles>>
storeVars   == <<places, searchable>>
indexVars   == <<meta, bucket>>
leaseVars   == <<lease, lastWarm, overran>>
limitVars   == <<clicks, troubles>>

Unwarmed == -1
NoMeta   == [doc |-> Unwarmed, pop |-> 0]
NoLease  == [of |-> {}, age |-> 0]
Unheard  == [at |-> "none", place |-> {}, boost |-> 0, doc |-> 0, seen |-> 0, new |-> 0]
Lounging == [at |-> "asleep", todo |-> {}, last |-> {}, count |-> 0, lag |-> 0]

Popularities == 0 .. PopularityCap
Documents    == [doc : 0 .. Versions, pop : Popularities]
Members      == [place : Places, doc : 0 .. Versions, pop : Popularities]

\* `_build_suggestion`.
Member(p, d) == [place |-> p, doc |-> d.doc, pop |-> d.pop]
RankOf(m)    == Rank[<<m.place, m.doc>>]

\* `compute_score`: what it does is to rise with rank and with popularity.
Score(m) == RankOf(m) + 4 * m.pop

ASSUME NoTies ==
    \A m, n \in Members : m # n => Score(m) # Score(n)

\* Mutant of Trimmed: the best go.
TrimmedBest(members) ==
    {m \in members : Cardinality({n \in members : Score(n) < Score(m)}) < TopK}

\* ZREMRANGEBYRANK 0 .. -(TOP_K + 1): the best stay.
Trimmed(members) ==
    {m \in members : Cardinality({n \in members : Score(n) > Score(m)}) < TopK}

Raised(pop, boost) == IF pop + boost > PopularityCap THEN PopularityCap ELSE pop + boost

SuggestInit ==
    /\ places = [p \in Places |-> [doc |-> 0, pop |-> 0]]
    /\ searchable = places
    /\ meta = [p \in Places |-> NoMeta]
    /\ bucket = {}
    /\ click = [c \in Clicks |-> Unheard]
    /\ warmer = [w \in Warmers |-> Lounging]
    /\ lease = NoLease /\ lastWarm = Unwarmed /\ overran = FALSE
    /\ entangled = {}
    /\ clicks = 0 /\ troubles = 0

\* What is between a read of a place's popularity and the writes made from it.
Writing(p) == \/ \E c \in Clicks : click[c].at # "none" /\ p \in click[c].place
              \/ \E w \in Warmers : \E m \in warmer[w].todo : m.place = p
Entangle(p) == entangled' = IF Writing(p) THEN entangled \cup {p} ELSE entangled

----------------------------------------------------------------------------
(* Elasticsearch.                                                          *)

\* The inserter updates the document; its popularity is kept.
Reingest(p) ==
    /\ p \in Revised /\ places[p].doc < Versions
    /\ places' = [places EXCEPT ![p].doc = @ + 1]
    /\ UNCHANGED <<searchable, indexVars, click, warmer, leaseVars, entangled, limitVars>>

\* Every refresh_interval what was written becomes searchable.
Refresh ==
    /\ searchable # places
    /\ searchable' = places
    /\ UNCHANGED <<places, indexVars, click, warmer, leaseVars, entangled, limitVars>>

----------------------------------------------------------------------------
(* /feedback.                                                              *)

\* The scripted update of Elasticsearch.
Boost(c, p, b) ==
    /\ click[c].at = "none" /\ clicks < MaxClicks
    /\ clicks' = clicks + 1
    /\ places' = [places EXCEPT ![p].pop = Raised(@, b)]
    /\ click' = [click EXCEPT ![c] = [Unheard EXCEPT !.at = "read", !.place = {p}, !.boost = b]]
    /\ Entangle(p)
    /\ UNCHANGED <<searchable, indexVars, warmer, leaseVars, troubles>>

\* It fails, and the index is updated all the same.
BoostFails(c, p, b) ==
    /\ click[c].at = "none" /\ clicks < MaxClicks /\ troubles < MaxTroubles
    /\ clicks' = clicks + 1 /\ troubles' = troubles + 1
    /\ click' = [click EXCEPT ![c] = [Unheard EXCEPT !.at = "read", !.place = {p}, !.boost = b]]
    /\ entangled' = entangled \cup {p}
    /\ UNCHANGED <<storeVars, indexVars, warmer, leaseVars>>

\* `update_score` reads the meta key; a place that is not indexed has none.
ReadMeta(c) ==
    \E p \in click[c].place :
        /\ click[c].at = "read"
        /\ click' = [click EXCEPT ![c] =
             IF meta[p] = NoMeta THEN Unheard
             ELSE [@ EXCEPT !.at = "meta", !.doc = meta[p].doc, !.seen = meta[p].pop,
                            !.new = Raised(meta[p].pop, click[c].boost)]]
        /\ UNCHANGED <<storeVars, indexVars, warmer, leaseVars, entangled, limitVars>>

SetMeta(c) ==
    \E p \in click[c].place :
        /\ click[c].at = "meta"
        /\ meta' = [meta EXCEPT ![p] = [doc |-> click[c].doc, pop |-> click[c].new]]
        /\ click' = [click EXCEPT ![c].at = "bucket"]
        /\ UNCHANGED <<storeVars, bucket, warmer, leaseVars, entangled, limitVars>>

\* The members a click takes out and puts in.
OldMember(c, p) == Member(p, [doc |-> click[c].doc, pop |-> click[c].seen])
NewMember(c, p) == Member(p, [doc |-> click[c].doc, pop |-> click[c].new])

\* Mutant of Swapped: ZADD alone.
SwappedAdd(old, new) == bucket \cup {new}

\* ZREM of the old member, ZADD of the new one; the bucket is not trimmed.
Swapped(old, new) == (bucket \ {old}) \cup {new}

SwapMember(c) ==
    \E p \in click[c].place :
        /\ click[c].at = "bucket"
        /\ bucket' = Swapped(OldMember(c, p), NewMember(c, p))
        /\ click' = [click EXCEPT ![c] = Unheard]
        /\ UNCHANGED <<storeVars, meta, warmer, leaseVars, entangled, limitVars>>

\* A Redis error is logged and the request answered.
ClickFails(c) ==
    /\ click[c].at # "none" /\ troubles < MaxTroubles
    /\ troubles' = troubles + 1
    /\ entangled' = entangled \cup click[c].place
    /\ click' = [click EXCEPT ![c] = Unheard]
    /\ UNCHANGED <<storeVars, indexVars, warmer, leaseVars, clicks>>

----------------------------------------------------------------------------
(* The warm-up.                                                            *)

Due == lastWarm = Unwarmed \/ lastWarm >= Rewarm

\* Mutant of TakeLease: SET without NX.
TakeLeaseAnyway(w) ==
    /\ warmer[w].at = "asleep" /\ Due
    /\ lease' = [of |-> {w}, age |-> 0]
    /\ warmer' = [warmer EXCEPT ![w].at = "scan"]
    /\ UNCHANGED <<storeVars, indexVars, click, lastWarm, overran, entangled, limitVars>>

\* GET last_warm, then SET NX EX of the lease.  The other replicas sleep on.
TakeLease(w) ==
    /\ warmer[w].at = "asleep" /\ Due /\ lease = NoLease
    /\ lease' = [of |-> {w}, age |-> 0]
    /\ warmer' = [warmer EXCEPT ![w].at = "scan"]
    /\ UNCHANGED <<storeVars, indexVars, click, lastWarm, overran, entangled, limitVars>>

\* The sort of the search: offline_rank, then popularity, the highest first.
RanksAbove(m, n) == RankOf(m) > RankOf(n) \/ (RankOf(m) = RankOf(n) /\ m.pop > n.pop)

Foremost(members, k) ==
    {m \in members : Cardinality({n \in members : RanksAbove(n, m)}) < k}

\* What a search finds after the last hit of the page before.
Hits     == {Member(p, searchable[p]) : p \in Places}
Unread(w) == {m \in Hits : \A n \in warmer[w].last : RanksAbove(n, m)}
Page(w)  == Foremost(Unread(w), BatchDocs)

ScanPage(w) ==
    /\ warmer[w].at = "scan"
    /\ IF Unread(w) = {}
         THEN warmer' = [warmer EXCEPT ![w].at = "end"] /\ UNCHANGED entangled
         ELSE /\ warmer' = [warmer EXCEPT ![w] =
                    [@ EXCEPT !.at = "index", !.todo = Page(w),
                              !.last = {m \in Page(w) : \A n \in Page(w) : ~ RanksAbove(m, n)}]]
              /\ entangled' = entangled \cup
                    {m.place : m \in {n \in Page(w) : Writing(n.place) \/ n.pop # places[n.place].pop}}
    /\ UNCHANGED <<storeVars, indexVars, click, leaseVars, limitVars>>

\* Another page, unless enough have been indexed.
PageDone(w, count) == IF count >= MaxDocs THEN "end" ELSE "scan"

\* `index_entry`: meta, ZADD and trim, place after place.  Members the place
\* had with another document or popularity stay.
IndexEntry(w) ==
    \E m \in Foremost(warmer[w].todo, 1) :
        /\ warmer[w].at = "index"
        /\ meta' = [meta EXCEPT ![m.place] = [doc |-> m.doc, pop |-> m.pop]]
        /\ bucket' = Trimmed(bucket \cup {m})
        /\ warmer' = [warmer EXCEPT ![w] =
              [@ EXCEPT !.todo = warmer[w].todo \ {m}, !.count = warmer[w].count + 1,
                        !.at = IF warmer[w].todo = {m} THEN PageDone(w, warmer[w].count + 1)
                                                       ELSE "index"]]
        /\ UNCHANGED <<storeVars, click, leaseVars, entangled, limitVars>>

\* last_warm is set if anything was indexed ...
EndWarm(w) ==
    /\ warmer[w].at = "end"
    /\ lastWarm' = IF warmer[w].count > 0 THEN 0 ELSE lastWarm
    /\ warmer' = [warmer EXCEPT ![w] = [Lounging EXCEPT !.at = "release", !.lag = warmer[w].lag]]
    /\ UNCHANGED <<storeVars, indexVars, click, lease, overran, entangled, limitVars>>

\* ... and the lease deleted, whoever holds it by now.
Release(w) ==
    /\ warmer[w].at = "release"
    /\ lease' = NoLease
    /\ warmer' = [warmer EXCEPT ![w] = Lounging]
    /\ UNCHANGED <<storeVars, indexVars, click, lastWarm, overran, entangled, limitVars>>

\* An error of Redis in the middle: `finally` releases, last_warm stays.
WarmFails(w) ==
    /\ warmer[w].at \in {"index", "end"} /\ troubles < MaxTroubles
    /\ troubles' = troubles + 1
    /\ entangled' = entangled \cup {m.place : m \in warmer[w].todo}
    /\ warmer' = [warmer EXCEPT ![w] = [Lounging EXCEPT !.at = "release", !.lag = warmer[w].lag]]
    /\ UNCHANGED <<storeVars, indexVars, click, leaseVars, clicks>>

\* A search fails: what was indexed by then counts as all.
SearchFails(w) ==
    /\ warmer[w].at = "scan" /\ troubles < MaxTroubles
    /\ troubles' = troubles + 1
    /\ warmer' = [warmer EXCEPT ![w].at = "end"]
    /\ UNCHANGED <<storeVars, indexVars, click, leaseVars, entangled, clicks>>

\* The replica dies; its lease runs out.
WarmerDies(w) ==
    /\ warmer[w].at # "asleep" /\ troubles < MaxTroubles
    /\ troubles' = troubles + 1
    /\ entangled' = entangled \cup {m.place : m \in warmer[w].todo}
    /\ warmer' = [warmer EXCEPT ![w] = Lounging]
    /\ UNCHANGED <<storeVars, indexVars, click, leaseVars, clicks>>

Older(age, most) == IF age = Unwarmed \/ age = most THEN age ELSE age + 1

\* The warm-ups that outlast their lease in this tick.
Overruns == {w \in Warmers : warmer[w].at # "asleep" /\ warmer[w].lag + 1 = LeaseTTL}

\* Mutant of SuggestTick: the lease has no EX.
SuggestTickForever ==
    /\ \A w \in Warmers : warmer[w].at = "asleep" \/ warmer[w].lag < MaxWarm
    /\ lastWarm' = Older(lastWarm, Rewarm)
    /\ warmer' = [w \in Warmers |-> IF warmer[w].at = "asleep" THEN Lounging
                                      ELSE [warmer[w] EXCEPT !.lag = @ + 1]]
    /\ UNCHANGED <<storeVars, indexVars, click, lease, overran, entangled, limitVars>>

SuggestTick ==
    /\ \A w \in Warmers : warmer[w].at = "asleep" \/ warmer[w].lag < MaxWarm
    /\ troubles' = troubles + Cardinality(Overruns) /\ troubles' <= MaxTroubles
    /\ lease' = IF lease.age + 1 >= LeaseTTL \/ lease.of = {} THEN NoLease
                                             ELSE [lease EXCEPT !.age = @ + 1]
    /\ lastWarm' = Older(lastWarm, Rewarm)
    /\ warmer' = [w \in Warmers |-> IF warmer[w].at = "asleep" THEN Lounging
                                      ELSE [warmer[w] EXCEPT !.lag = @ + 1]]
    /\ overran' = (overran \/ Overruns # {})
    /\ UNCHANGED <<storeVars, indexVars, click, entangled, clicks>>

ClickStep(c) == ReadMeta(c) \/ SetMeta(c) \/ SwapMember(c)
WarmStep(w)  == TakeLease(w) \/ ScanPage(w) \/ IndexEntry(w) \/ EndWarm(w) \/ Release(w)

SuggestNext ==
    \/ \E c \in Clicks : \/ ClickStep(c) \/ ClickFails(c)
                         \/ \E p \in Places, b \in Boosts : Boost(c, p, b) \/ BoostFails(c, p, b)
    \/ \E w \in Warmers : WarmStep(w) \/ WarmFails(w) \/ SearchFails(w) \/ WarmerDies(w)
    \/ (\E p \in Places : Reingest(p)) \/ Refresh \/ SuggestTick

SuggestSpec == SuggestInit /\ [][SuggestNext]_suggestVars

(* Requests run on, the replicas' loops, time and the refreshes too.       *)
SuggestFairness ==
    /\ \A c \in Clicks : WF_suggestVars(ClickStep(c))
    /\ \A w \in Warmers : WF_suggestVars(WarmStep(w))
    /\ WF_suggestVars(SuggestTick) /\ WF_suggestVars(Refresh)

----------------------------------------------------------------------------
SuggestTypeOK ==
    /\ places \in [Places -> Documents] /\ searchable \in [Places -> Documents]
    /\ meta \in [Places -> Documents \cup {NoMeta}]
    /\ bucket \subseteq Members
    /\ \A c \in Clicks : click[c].at \in {"none", "read", "meta", "bucket"}
    /\ \A w \in Warmers : /\ warmer[w].at \in {"asleep", "scan", "index", "end", "release"}
                          /\ warmer[w].todo \subseteq Members
    /\ lease.of \subseteq Warmers /\ lease.age \in 0 .. LeaseTTL - 1
    /\ lastWarm \in Unwarmed .. Rewarm
    /\ entangled \subseteq Places

(* The lease lets one replica warm at a time, until the first warm-up that *)
(* outlasts it: from then on leases of others are deleted.                 *)
OneWarmer ==
    ~ overran => Cardinality({w \in Warmers : warmer[w].at # "asleep"}) <= 1

Indexed(p) == meta[p] # NoMeta
Current(p) == Member(p, meta[p])
Quiet(p)   == ~ Writing(p)

(* "ZADD alone would leave the stale member behind as a duplicate": of a   *)
(* place whose updates came one by one, reached both sides and had become  *)
(* searchable when a warm-up looked, the meta key has the popularity that  *)
(* Elasticsearch has, and besides the member it names only those of        *)
(* earlier versions of the document are left in the bucket: a warm-up does *)
(* not remove them.                                                        *)
OneMemberEach ==
    \A p \in Places \ entangled : Quiet(p) /\ Indexed(p) =>
        /\ meta[p].pop = places[p].pop
        /\ \A m \in bucket : m.place = p => m = Current(p) \/ m.doc < meta[p].doc

(* What a warm-up trims away gives way to better ones, and stays out only  *)
(* as long as there are: a place that is indexed but whose current member  *)
(* is not in the bucket has TopK better ones in it, whatever worse ones    *)
(* /feedback has put back.                                                 *)
BestStay ==
    entangled = {} =>
        \A p \in Places : Quiet(p) /\ Indexed(p) /\ Current(p) \notin bucket =>
            TopK <= Cardinality({m \in bucket : Score(m) > Score(Current(p))})

(* One replica warms; a place has one current member, and the best stay.   *)
SuggestInv == SuggestTypeOK /\ OneWarmer /\ OneMemberEach /\ BestStay

(* In the end, whatever dies, the MaxDocs places that come first in the    *)
(* order of the search are indexed, and stay so.                           *)
ForemostWarmed ==
    <>[](\A m \in Foremost(Hits, MaxDocs) : Indexed(m.place))
===============================================================================

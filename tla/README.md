# A verification development of geocoder-fwd

TLA+ modules, TLC configurations and TLAPS proofs of the parts of geocoder-fwd
that are concurrent, that must survive failures, or that handle money. The code
is the reference: each definition stands for the lines that `PROJECT.json`
("map") names, and where a comment or a document disagrees with the code, the
module follows the code.

## The system

**Ingest.** Files are dropped into `data/` (by hand or by
`services/downloader.py`). Four watchers pick them up: `watcher.py` reads OSM
PBF files, `oa_watcher.py` OpenAddresses, `gn_watcher.py` GeoNames,
`places_watcher.py` places in JSON lines. Each publishes one message per element to
the JetStream stream OSM. Two durable consumers empty it, `es_inserter.py` into
Elasticsearch and `postgis_inserter.py` into PostGIS. `shared/processed.py`
keeps the ledger of imported files, in a text file for one replica or in Postgres
for several.

**Traffic.** `traffic_aggregator.py` folds probes, and the speeds a provider has
for scheduled cells, into per-edge hashes in Redis; `traffic_writer.py` copies them
into Valhalla's tiles. `routing.py` paints routes with them and asks a paid
provider, under a budget, for what is missing.

**Serving.** `services/geocoder.py` and the modules around it answer queries
from Elasticsearch and PostGIS. They also write: places and probes to the streams,
popularity, addresses (`enrichment.py`) and descriptions to Elasticsearch,
autocomplete entries and cached pages to Redis.

**Billing** (`billing/`). A control plane administers admins, plans, tenants and
keys in Postgres and projects them to APISIX (consumers, consumer groups) and to
Zitadel (admins). A reference gateway, or APISIX with its usage sink, meters
requests: Redis counters per tenant and key, and a Redis list of usage events
which `flush_events` moves to the Postgres rollups. The billing engine turns
rollups into invoices.

### Inventory

| component | state | operations | what makes it correct |
|---|---|---|---|
| metered gateway (`gateway.py`, `usage.py`) | Redis: rps window, live counters, usage list | one request: rps, reserve, forward, refund, count, push | caps hold under any interleaving; counters account for what was charged; every request is answered |
| usage pipeline (`usage.py`, `aggregator.py`) | usage list, events held by flushers, `usage_rollups` | `record`, `flush_events` by several processes | an event is billed at most once, settles in the end, and never before the counters saw it |
| billing engine (`billing_engine.py`, `repo.py`) | `invoices` | billing run, mark paid, delete tenant | invoices follow the rollups; a paid one is frozen; overlapping runs do as little harm as they must |
| keys and their projections (`control_plane.py`, `apisix_admin.py`) | `api_keys`, `tenants`, key cache, APISIX consumers | create, update and delete keys and tenants, resync, cache fill | both projections follow the tables through races, errors and restarts |
| admin roster (`repo.py`, `zitadel_admin.py`) | `users`, Zitadel users | add, disable, enable, remove | an active admin is left; both agree |
| plans, weights, quota projection (`weights.py`, `aggregator.py`) | weight cache, APISIX limits | edit weights, reproject | limits follow the plan and the period |
| import ledger (`processed.py`) | ledger rows and their claims | scan, claim, record | one importer at a time; no file lost or redone |
| flat-file publishers (`oa_`, `gn_`, `places_watcher.py`) | batch, failures in a row | read, publish, retry, abort | order kept; what is recorded was tried; the import ends |
| PBF watcher (`watcher.py`) | parser thread, bounded queue, batch | parse, drain, publish, record | nothing vanishes in between; no hang |
| stream consumers (`es_inserter.py`, `postgis_inserter.py`) | work queue, batches, tables | fetch, upsert, ack | acked means written, or refused by a bulk; newest row lasts; all is acked |
| service start (`nats_client.py`, `ensure_index`, `lifespan`) | index, stream, consumers | create, update, subscribe, reconnect | races to create are harmless; who serves has what it needs; all serve in the end |
| traffic pipeline (`traffic_*.py`, `routing.py`) | edge hashes, index, tiles; claimed cells, job queue; daily budget | fold, expire, write tiles; schedule, poll; fetch | an expired edge leaves index and tile; each cell polled once a window; calls booked |
| autocomplete index (`autocomplete.py`) | Redis: entry, scores in buckets, warm-up lease | index, click, warm up, query | one current member per place; the best are kept; the foremost places are indexed; the fast path finds what a scan would |
| documents (`es_inserter.py`, `enrichment.py`, `/feedback`) | one Elasticsearch document | ingest, enrich, boost, describe | no writer takes back another's field; the address follows the area |
| requests of the geocoder (`geocoder.py`, `nearby.py`, `cache_service.py`) | streams, cached pages, cursors | publish, join stores, scroll | what is acknowledged is found; pages neither repeat nor skip; only needed servers fail a request |
| address, ranking, interpolation, tile layout, prices | none | pure functions | outputs agree with a definition of another kind |
| downloader, providers, LLM, sign-in, front end | files, sessions | I/O | not modelled |

The hard behaviours are listed one by one, at their lines, in `PROJECT.json`
("hazards"), with the properties that would catch them going wrong.

## The modules

| module | models | extends |
|---|---|---|
| `QuotaGate` | one gateway request as a process of several stages over the Redis counters | |
| `UsageLedger` | abstract: an event enters, and is later billed once or lost | |
| `UsagePipeline` | `record`, `flush_events`, their callers, aborts, loss of Redis | instantiates `UsageLedger` |
| `Billing` | billing runs, invoices, payment, tenant deletion, composed with the pipeline | `UsagePipeline` |
| `KeyAccess` | control-plane requests, key cache, gateways, APISIX consumers | |
| `AdminRoster` | admin requests against Postgres and Zitadel | |
| `ImportLedger` | replicas, claims, passes, crashes | |
| `BatchPublish` | one import of a flat-file watcher | |
| `WatcherPublish` | one PBF file: parser thread, queue, publisher, scan | |
| `Inserter` | consumer, fetcher, work queue, workers, tables | |
| `ServiceStart` | how the services start, race to create what they share, reconnect, restart | |
| `Requests` | the requests that publish and those that join the stores, with the inserters in outline | |
| `QuotaProjection` | plans, weights and tenants, the weight caches, consumer groups, months | |
| `TrafficSpeeds` | folds, index and expiry in Redis, the tile writer, provider speeds | |
| `CellSchedule` | claims of provider cells by all replicas, and the job queue | |
| `FetchBudget` | trips that share a daily budget of provider calls | |
| `SuggestIndex` | the autocomplete index under clicks and warm-ups, and the lease | |
| `PlaceDocument` | one document and its four kinds of writers | |
| `NearbyScroll` | clients, cursors, cached pages and a changing index | |
| `SuggestQuery`, `Ranking` | what is indexed of a place, how a query is answered and ranked | |
| `Interpolation`, `AddressQuery`, `SearchPage` | house numbers, address queries, pages of `/geocode` and `/address` | `SearchPage` the other two |
| `RouteTraffic`, `TrafficTile`, `CreditPricing` | runs, windows and shapes; the binary tile; prices | |
| `Algorithms` | asks the eight modules above one question per behaviour | them |
| `Algorithms_proofs` | proofs: folds; prices, ranks, runs, windows, the speed record, pages, ordinals, snapping, house numbers | `Algorithms`, `Sums_proofs` |
| `Sums_proofs` | proofs: what a sum over a finite set is, and how it changes | |
| `Administration_proofs` | proofs: pipeline and ledger, billing, roster, projection | `Billing`, `AdminRoster`, `QuotaProjection`, `Sums_proofs` |
| `KeyAccess_proofs` | proofs: cache and consumers | `KeyAccess` |
| `Imports_proofs` | proofs: ledger, both kinds of publishers, requests | `ImportLedger`, `BatchPublish`, `WatcherPublish`, `Requests` |
| `Services_proofs` | proofs: start, stream consumers | `ServiceStart`, `Inserter` |
| `Traffic_proofs` | proofs: budget, cells, speeds | `TrafficSpeeds`, `CellSchedule`, `FetchBudget`, `Sums_proofs` |
| `Serving_proofs` | proofs: the gateway; documents, autocomplete index, scrolls | `QuotaGate`, `SuggestIndex`, `PlaceDocument`, `NearbyScroll`, `Sums_proofs` |

`MCAdministration` (`Billing`, `AdminRoster`, `QuotaProjection`), `MCImports`
(`ImportLedger`, `BatchPublish`, `WatcherPublish`, `Requests`), `MCServices`
(`ServiceStart`, `Inserter`), `MCTraffic` (`TrafficSpeeds`, `CellSchedule`,
`FetchBudget`) and `MCServing` (`SuggestIndex`, `PlaceDocument`, `NearbyScroll`)
check modules that share no variable: a behaviour picks one of them (`part`) and
the others stay where they start, so each run is the union of the runs of its parts.

How state and actions correspond to the code:

* **QuotaGate.** `burst`, `live`, `keyLive` and `events` are the Redis keys
  `rps:*`, `live:*` of tenant and key, and the usage list; `pc[r]` is the await
  at which the handler of request `r` stands; `seen` and `clean` are the value a
  WATCH transaction read and whether its key is untouched since.
  `Watch`, `ReadCounter`, `Exec` and `Retry` are the round trips of
  `incr_tenant_if_allowed`; `Evict` is Redis dropping a counter, `Crash` the
  death of a replica.
* **UsagePipeline.** `stage` is how far `record` came with an event, `buffer` the
  list, `held` what a `flush_events` call has popped, `rolled` how often an
  event was added to the rollups. `Abort` is an error in the transaction or a
  crash: popped events are in `lost`. `RedisLoss` is a restart of the
  non-persistent Redis.
* **Billing.** A biller is a flusher whose flush is followed by one read and one
  upsert per tenant, each a statement of its own. Nothing serialises the runs:
  `overtaken` marks one that has read a tenant's totals before another wrote that
  invoice, `doubtful` the invoices such a run wrote last.
* **KeyAccess.** A control-plane request is a record in `request`; its `at` names
  the next call. `fill` is a gateway between its read of Postgres and its write
  to the cache. `Resync` is the start-up loop of `main.py`.
* **AdminRoster.** `CheckAdmin` and `WriteAdmin` are the two statements of
  `set_admin_status` and `delete_admin`; `MirrorIdp` and `ProvisionIdp` the
  calls to Zitadel after the commit. Two history variables say what concurrent requests
  can spoil: `crossed`, that two admins were being taken away at once, and `apart`,
  the admins whose requests overlapped or whose call was not answered.
* **ImportLedger.** `row` and `age` are the ledger row, `pending` what a pass
  loaded, `importing` and `busy` the file a replica is at and for how long.
  `Claimable` is the WHERE of `_pg_claim`.
* **BatchPublish** and **WatcherPublish.** `consecutive` and `attempt` are the
  variables of the publishers; `stream` is what NATS stored, unacknowledged
  messages included. In `WatcherPublish`, `queue` is the `queue.Queue` between
  the parser thread and the coroutine, `SENTINEL` its end mark; `Leave` also
  stands for the flush after the loop, which the invariant shows has nothing
  left to take.
* **Inserter.** `unacked` and `due` are JetStream's side of the durable consumer;
  `fetched`, `queue` and `job` the process. Elasticsearch and PostGIS differ in
  the tables and in which messages yield a row: elements without a geometry are
  messages without one. Elasticsearch takes the items of a bulk one by one (`Bulks`):
  `WriteRejecting` is a bulk that refuses some of them, whose errors are logged and whose
  messages are acknowledged all the same; `rejected` remembers them.
* **ServiceStart.** `Plan` is the order of a service's calls, `doing` the call it
  is at; `Again` is one more of the bounded tries, `Exit` the end of the process,
  which the supervisor restarts. Index, stream and consumers are what the servers have.
  `ping` of the client answers False instead of raising and nobody looks at the answer,
  so a service goes on to the next call; `create_pool` raises.
* **Requests.** `req[c].at` is the await of the handler; `PublishRaises` stores
  the message or does not. `applied` is how far each inserter is in the stream
  (the detail is `Inserter`'s). `faulted` and `before` are history, for the properties.
* **QuotaProjection.** `editor` and `roll` are a `_sync_tenant` and the monthly
  loop, call by call; `weights[p]` the cache of a process with its age and a load
  in progress. `LoadFails` is the SELECT that raises: the old weights, or the seeds, are
  kept for another TTL, and `kept` says so. `overlapped` and `late` are history: syncs
  that ran into each other or used old weights, and a PUT of the old month after the
  new one began.
* **TrafficSpeeds.** `samples`, `hashAge` and `score` are the hash `tf:e:*` and its
  member of `tf:idx`, as ages; `fold` and `cycle` the aggregators and writers
  between two calls; `tile` what Valhalla reads.
* **CellSchedule.** `claims` are the keys of SET NX EX, `queued` the work queue;
  `missed`, `polled`, `dropped` say what became of a slot (cell and window).
* **FetchBudget.** `used` is the Redis counter of a day, `called` what was
  really asked.
* **SuggestIndex.** `places` are the documents in Elasticsearch, each with a version and a
  popularity, `searchable` what its last refresh made visible; `meta` is a place's
  `ac:meta` entry, and a member of `bucket` the whole suggestion, so that a document
  ingested again makes another member. `ScanPage` reads a page of hits through the
  search, `IndexEntry` puts its places in, and `MaxDocs` ends the warm-up.
  `entangled` marks places whose updates overlapped, reached one side only, or were not
  searchable when a warm-up looked; `overran` that a warm-up has outlasted its lease.
* **PlaceDocument.** Each writer reads and writes in two steps; `overtaken` is a
  document whose version moved in between.
* **NearbyScroll.** `pages` is the result cache; `own` says whether all the pages
  a client got were computed for its own point and the present index. A search and the
  write of its answer to the cache are one step: a change in between makes the page old,
  as a change right after that step does, and the properties leave old pages out.

## The runs

All runs keep TLC's full state space; the passing ones take from ten seconds to
three minutes. No symmetry is used, as most runs check liveness. In the table,
"no" and "never" are invariants or action properties, "in the end" is liveness.
A property of a run is a conjunction of named parts, which its module states
and comments one by one.

| run | what it shows | bounds |
|---|---|---|
| `QuotaGate` | `HardCapInv`: the cap holds through concurrent transactions, refunds, a crash and an eviction. `CountersInv`: the counters are exactly what was charged (`CounterAccounts`), lead the events (`EventsWithinCounters`), and no second exceeds its rps (`BurstCap`). `EveryRequestAnswered` | two requests that do not fit together under one cap, one of a soft tenant, two seconds that are also two periods, one eviction |
| `UsagePipeline` | `PipelineInv`, `CountersLeadRollups`, `ImplementsLedger`, `EveryEventSettles` | three events of two tenants in two periods, two flushers that drain two at a time, one failure, one loss of Redis |
| `KeyAccess` | `AccessInv`: cache and consumers follow the tables, but for the one race of a gateway (`ActiveKeysServed`, `OnlyActiveServed`). `DeletedKeyForgotten` in the end | one key, two control-plane requests and one gateway at once, one failure or restart, one etcd loss |
| `Administration` | billing: `BillingInv` (an invoice is within the rollups and covers what its run saw, unless last written by a run that was overtaken), `InvoiceHistory` (a paid one never changes, and only a run that was overtaken puts one back). Roster: `RosterInv` (an active admin is left unless two removals crossed, `AdminLeft`; `IdpAgrees` on every admin that is not `apart`). Projection: `ProjInv` (weight caches converge but for those a failed SELECT left; no tenant of a plan is left out and nothing old put back, `GroupsFollowPlans`), `MonthRollsOver` in the end | two billing runs at once beside the aggregator, two tenants, two events of which one is billed at the start (`MeteredInit`, a state of the pipeline), one failure; two requests at once about two emails, two mishaps; two tenants on a plan, two edits, one sync at a time beside the aggregator, two months, one outage |
| `Imports` | ledger: `ImportInv`, `DoneNeverReclaimed`, `EveryFileRecorded`. Flat files: `BatchInv` (an outage is bounded, order is kept, only a remainder goes untried). PBF: `WatcherInv` (the sentinel is last, nothing vanishes in between, order is kept), `LossNeedsOutage`. Requests: `RequestsInv` (answers say what happened, only needed servers fail them, `/reverse` shows what both stores had). `EverythingEnds`: imports end, a PBF file is recorded, requests settle | two replicas, two files, a TTL of one tick, two failures; up to seven messages in batches of three; five elements, queue and batches of two; two clients, two requests, one fault |
| `Services` | start: `StartInv` (who serves has what it needs, races to create are harmless). Inserter: `InserterInv` (acknowledged means written, or refused by a bulk), `StaleOnlyByRace` (the newest row lasts but for a race of two workers or a bulk that leaves a row out). `ServicesSettle`: all services serve, the stream is worked off | three services of which two disagree on the stream's configuration, an outage, a deleted consumer; three messages about two elements, an index that takes rows one by one and a table that takes them all, two workers, two failures or refusals |
| `Traffic` | speeds: `SpeedsInv` (no live tile outside the index, none on too few samples). Cells: `CellsInv` (no cell left out), `WonOnce`. Budget: `FetchInv` (calls are booked, the overdraft is bounded). `TrafficSettles`: a stale speed goes, every job is served | one edge, two aggregators, a writer, one error, one wipe of Redis; two cells, two schedulers, a worker, one window; two trips of two legs over two days |
| `Serving` | index: `SuggestInv` (one warmer, one current member per place, the best stay). Document: `PlaceInv`, `OthersKept`. Scroll: `NearbyInv`. `ServingSettles`: the foremost `MaxDocs` places are indexed, a document gets an address that `address_needs_refresh` accepts | three places in a bucket for one, one of them ingested again, two warmers that read pages of one and stop at two, one click, one trouble; two messages, two enriching replicas; two places, two points of one cell, a change, two scrolls |
| `Algorithms` | `TrafficRight`, `PagesRight`, `ScalesRight` (these three are also theorems) and `LookupsRight`, taken apart below | the sets of `MCAlgorithms`; some hundred thousand questions |
| `KeyTornDown` | violation: the consumers of a deleted tenant stay | one key, one request |
| `TrafficDaily` | violation: concurrent trips overdraw the daily budget | as `Traffic` |
| `DeepScroll` | violation: with two-phase scoring a page repeats a place | as `Algorithms` |

What `Algorithms` compares, each with a definition of another kind:

* `TrafficRight`: a speed record with the speed (`SpeedNeverUnknown`); runs and
  windows with the edges they come from (`RunsPaintTheLeg`, `WindowsPartition`).
* `PagesRight`: the alternate spelling of ordinals with its own (`OrdinalsSwapBack`),
  an order with the tiers of match quality (`PopularityKeepsTiers`), merged lists with
  both of theirs (`BothListsShown`), the first page with itself (`NothingTwice`).
* `ScalesRight`: a rank with that of more prominent tags (`RankOnScale`), the request
  backstop with every mix of endpoints a quota pays (`BackstopIsTight`), matrices
  with larger ones (`MatrixPricesGrow`), a projection with every point of the line
  (`SnapIsNearest`), a point's house number with all those of its side
  (`NumberOnItsSide`).
* `LookupsRight`: a house number's place with the neighbours on its side and with
  the number found going back (`HouseStandsBetween`), a write with the file's other tiles
  (`WritesStayInTile`), a decoded shape with its corners (`ShapeRoundTrip`), the parsed
  address with its query (`ComponentsAreDisjoint`), the bucket a query reads with a
  scan of all entries (`FastPathIsScan`), the pages of a scroll with the matches
  (`ScrollShowsAllOnce`).

Why the bounds are enough. Every bound is just large enough for what the
properties are about to happen: two requests that compete for the last credits,
a request that crosses the period, a takeover of a claim by a second replica
while the first one is slow, a full batch as well as a remainder, a queue that
fills, an element twice in one batch and in two batches, two removals that cross, a billing run
that overtakes another, a warm-up with a page more than it takes. The counters that
are unbounded in the code saturate where the code stops telling values apart
(the age of a claim, the failures in a row of `WatcherPublish`). The
constants `Max...` and `Last...` of the environment (failures, breaks, evictions,
resets, wipes, outages, faults, edits, clicks, late answers, ticks) appear in guards
only. `CHECK_DEADLOCK FALSE` is set where the modelled work is finite (all
requests answered, the file imported, all messages acknowledged) or, in
`KeyAccess`, where a deleted key and tenant leave nothing to do.

`KeyAccess` checks one key of one tenant: keys meet only in the loops over a
tenant's keys, and tenants only in the loop of the resync, so the loops run once.
`ImportLedger` is checked in Postgres mode; the proofs cover both modes.

### Fairness

* Handlers, coroutines and threads that can take a step take it: weak fairness
  of `Step`, `FlushStep`, `Proceed`, `Progress`, `Work`, `Parser`, `Publisher`,
  `EditorStep`, `Starting`, `Serve`, `Apply`, `FoldStep`, `WriterStep`, `ScanStep`,
  `WorkStep`, `ClickStep`, `WarmStep`, and of the background task of an enrichment. The
  code has no step that waits for a lock another step holds for ever; each await
  has a timeout or ends with its peer.
* The loops repeat: aggregators start flushes and roll the month (`aggregator.run`
  is `while True`), watchers scan, schedulers, traffic writers and warm-up loops
  wake up.
* The wall clock goes on where the code measures it (`Tick`, `SuggestTick`), cache
  entries expire (a Redis TTL), `ack_wait` runs out for a message the process lost, and
  Elasticsearch refreshes its index (`Refresh`, its `refresh_interval`).
* The supervisor restarts what exits, and index, database and broker come back
  after an outage (`Toggle` of `ServiceStart`): "wait for the dependency" means
  nothing otherwise.
* Nothing else in the environment is forced: no request, no observation of a
  speed, no acknowledgement by NATS, no success of a write after a failure other
  than that failures are finite.

Some liveness properties hold under a premise, which is part of the property or of
its fairness, and which a reader should know:
`MonthRollsOver` supposes that no call to APISIX or the tables fails and no PUT of
the old month arrives in the new one (otherwise the tenant stays in the old month
until its next sync). The address of a place settles only if clients go on
searching for it, as nothing but a search starts an enrichment (`Search` is fair).
A stale speed goes if Redis does not lose its data (a loss leaves the tile
without an index entry that would expire). Services come up if a store and a broker
are there long enough. `EveryRequestAnswered` needs no more than weak fairness because
a transaction only fails when another one has changed the counter, and there are
finitely many requests.

Safety properties have premises as well: the price backstop is tight only
if no endpoint is free, and none without a row is cheaper than all those with one; `FetchInv` speaks of days without an error of Redis, as a
routing request goes on without its budget when Redis fails; pages of `/nearby` neither
repeat nor skip only if they were computed for the client's own point and the present
index (`own`); the best places stay in a bucket except those whose updates
overlapped, or were not searchable in time (`entangled`); one replica warms at a time until a
warm-up outlasts its lease (`overran`). Where nothing in the code prevents a race, the property
names what it spoils, by a history variable that the race itself sets, and holds for the
rest: removals of admins that cross (`crossed`), requests about one admin that overlap
(`apart`), a billing run that is overtaken (`overtaken`, `doubtful`), weights a failed SELECT has
left in place (`kept`), rows a bulk has refused (`rejected`). The runs reach all of these.

## What is proved

`tlapm` checks the theorems below for every value of the constants that satisfies
the assumption named in the component's module: for any number of requests,
replicas, tenants, files, messages, places, and for any limits. So every safety
invariant and action property of the concurrent components that a run checks on
a small instance is also a theorem. None is inductive as it stands; each proof
has an invariant that is, in the form `Init => IInv`, `IInv /\ [Next]_vars => IInv'`
(a case per action) and `IInv => Inv`.

| theorem | what the inductive invariant adds, and why |
|---|---|
| `HardCapInvariant`, `HardCapHolds` (`Serving_proofs`) | A transaction about to EXEC adds to a counter it read earlier. `CommitFits`: one that may still commit has read the present value, and the sum fits. `WatchersCapped`: only requests of capped tenants are in one. |
| `CountersRight` (`Serving_proofs`) | `AccountsInv`: each counter is the sum of what the requests in certain stages add to it (`LiveExact`, `KeysBetween`), and as many requests as are in a second's slots have incremented its window (`SlotsCounted`), so that no more than the rps get through. A request whose replica died between two INCRBYs leaves the key's counter between two sums. |
| `TrafficInvariant` (`Algorithms_proofs`) | `Computed`: the answer is the one computed for the question, for every kind of question. Runs and windows are folds over the edges, and each has an invariant that one more edge keeps: what is painted so far, its last run still open (`PaintSkips`, `PaintOpens`, `PaintExtends`), and the edges so far covered, the last window still growing (`WindowSkips`, `WindowOpens`, `WindowGrows`). The record of 64 bits is followed field by field: what is packed at a field's bits is what is read there (`WordFacts`, `ReadBack`). |
| `PagesInvariant` (`Algorithms_proofs`) | `Computed`. Dealing two lists in turns puts the k-th of either among the first 2 k, and leaving out what came before keeps that (`TurnsFacts`, `OnceFacts`). One step of match quality outweighs all of popularity on its capped scale (`PopularityKeepsTiers` from the weights); the two tables of ordinals are each other's inverse (`SwappedBack`). |
| `ScalesInvariant` (`Algorithms_proofs`) | `Computed`. The least weight with a row is the price of some call, and a quotient's bounds (`BackstopFacts`, `MatrixGrows`); each part of a rank is monotone in each score and its weights add up to one (`RawGrows`, `QuotientGrows`). Clamping gives the nearest point of a segment (`FootFacts`), the projection is the first of the nearest feet (`ProjectFacts`), and walking the length up to it ends there, since lengths grow along the line (`PointFacts`, `SnapFacts`); rounding is off by half at most, so the nearest number of the side is it or a neighbour (`OnSideFacts`). |
| `PipelineInvariant`, `PipelineRefinesLedger` (`Administration_proofs`) | `OnePlace` (list, hands of one flusher, lost or rolled up, each at most once) with `Conserved`. The refinement maps the ledger's `pending` to what is in flight, and each step to a step of the ledger or a stutter. |
| `CountersLead` (`Administration_proofs`) | `CountersSeen`: a counter has seen the sum of all events that `record` has counted, billed or not. |
| `InvoicesWithin`, `PaidStays` (`Administration_proofs`) | For any number of billing runs at once: the totals in a run's hands are within the rollups, which only grow. |
| `BillingInvariant`, `OnlyOvertakenShrink` (`Administration_proofs`) | `RunsInv`, for any number of billing runs at once: what a run has noted with its list is within the rollups (`ListedWithin`); the totals it has in hand are no older than its list (`HandAfterList`) and, unless it has been overtaken, than the invoice they replace (`HandIsNewer`) and than the list of any other run that is done with the tenant (`HandAfterOthers`); so a tenant a run is done with stays settled (`PastSettled`). |
| `RosterInvariant` (`Administration_proofs`) | For any number of requests at once. While nothing has crossed only one admin at a time is being taken away (`OneTaken`), so its check still holds when the UPDATE comes (`CheckHolds`). An admin that is not `apart` has at most one request (`Orderly`), and the identity provider lags only in what that request will put right (`IdpFollows`), whatever the others do. |
| `ProjectionInvariant` (`Administration_proofs`) | How old weights are allowed to be in a cache and in a load under way, unless a failed SELECT has kept them (`CacheAges`); what each job has read is still so, and a group that is not right is in the list of one that will get to it (`JobsUpToDate`, `GroupsPending`). |
| `AccessInvariant` (`KeyAccess_proofs`) | `CacheFollows`: an old entry that no gateway's race explains is about to be dropped or rewritten by a handler. `ConsumersFollow`: what a handler has read is still so, and a key without the consumer it should have is in what a handler is still to register, or the reverse. |
| `ImportInvariant`, `DoneStaysDone` (`Imports_proofs`) | `ClaimCoversImport`: within the TTL a claim is exactly as old as its import. For the file ledger, that the pass of the one process holds no file it has recorded since. Both ledgers are covered. |
| `BatchInvariant` (`Imports_proofs`) | What is in the batch is the run of messages just read, everything before it was tried (`BatchIsRun`, `TriedSoFar`), and the streak of failures is bounded at each point of the loop. |
| `WatcherInvariant`, `LossOnlyInOutage` (`Imports_proofs`) | Queue, batch and what NATS has stored are consecutive runs of the file (`RunsOfFile`), so nothing can vanish or overtake; `silent` and the streak move together (`Streaks`). |
| `RequestsInvariant` (`Imports_proofs`) | For each stage of each kind of request, what it may hold (`RequestFits`), and that what was found was in the stream before (`Known`). |
| `StartInvariant` (`Services_proofs`) | What a service has passed in its plan is still set up unless somebody removed it since. |
| `InserterInvariant`, `StaleOnlyIfRaced` (`Services_proofs`) | `BatchOK`, `JobOK`: the rows of a job's finished tables are written, or refused where rows are taken one by one, and its order is that of the stream; two batches with messages of one element are recorded as a race, and so is a row that a later attempt leaves out. |
| `FetchInvariant` (`Traffic_proofs`) | The counter plus what requests in a call may still book is within the budget and all shares but one (`Within`); calls made are booked or in hand (`Booked`). Sums over the requests. |
| `ScheduleInvariant`, `WonOnceHolds` (`Traffic_proofs`) | A claimed cell has a replica about to publish it, or a job, or is accounted for (`ClaimsCovered`); a cell that a scan has passed has been claimed by someone (`PassedCovered`); a claim lives until its window ends (`Claimed`, `Outlives`). |
| `SpeedsInvariant` (`Traffic_proofs`) | A live speed without an index entry is about to be taken back or indexed by the writer that has it in hand (`Backing`); how old a hash a writer has read may be (`Ripe`). |
| `PlaceInvariant`, `OthersAreKept` (`Serving_proofs`) | Types of documents and tasks: an enrichment writes only an address made for the area it has found. |
| `SuggestInvariant` (`Serving_proofs`) | Until a warm-up outlasts its lease the one who warms holds it, for as long as it has been at it (`LeaseHeld`). A place that is not entangled is followed from call to call (`EachFollows`): at rest its meta key has the popularity of Elasticsearch and its members are the current one and older ones (`Own`); a click half-way has written what it has read and raised (`Midway`); and a hit a warm-up has still to put in is as new as the meta key (`Fresh`). |
| `NearbyInvariant` (`Serving_proofs`) | A fresh page is what a search would answer now (`FreshPages`). A scroll has shown an untouched place once if the cursor has passed it, and else not yet (`OwnScrolls`). That a page shows the next `Limit` places in order, each once, is proved from the definition by rank (`AnswerFacts`). |

`Sums_proofs` has the lemmas on sums. `SumFunctionOnSet` of the community modules
is a recursive function over the subsets of a set under a CHOOSE. No induction is
needed to prove that it adds up (`SumRemove`): the subsets of a finite set are
well founded, so a family of them has a smallest member, and the proofs derive a
contradiction from the smallest set a fact fails for. Cardinalities are
handled by the facts of `FiniteSetTheorems`.

`Algorithms_proofs` begins with the same for folds over sequences. `FoldLeft` is also a
recursive function under a CHOOSE. That it exists for every sequence is proved without
induction: the prefixes for which some function carries the accumulator
along (`Carried`) have no first gap (`UpTo`, `Iterates`, `FoldsExist`). What it is chosen to be
then satisfies its own equation, so a fact that holds of the base and is kept by
each step holds of the fold; and a fold depends only on the part of the sequence so
far (`SkipsAgree`). The lengths along a street (`Along`) are a recursive function over its
corners and are treated in the same way (`AlongFacts`).

### The assumptions

Besides types, and limits that the code's settings keep positive, the assumptions
say that some sets are finite: requests, keys, events and places are rows, list
entries or documents in a store, and over an infinite set a sum or a number has no
meaning. `NoKey`, `NoRow`, `NoTenant`, `NoFile` and `NoEntry` stand for NULL and
are no values. For the algorithms the assumptions say what the
questions are: the scores of `ranking.py`'s tables lie between 0 and 1 (`RanksAssumption`);
Valhalla returns the edges of a leg in the order of its shape (`PaintAssumption`); speeds are
not negative (`SpeedsAssumption`); an ordinal is a word of the table, or digits with one of the
four suffixes of the pattern in `address.py` (`OrdinalsAssumption`); popularity is capped,
so that its logarithm stays below seven, and a search returns a document once
(`PagesAssumption`); and corners of streets and known houses are on a grid, a street that is
snapped to having its segments along the axes, where lengths and projections are integers
(`LinesAssumption`): a slanted street would need real numbers, which TLC does not have. In
`SuggestIndex` no two suggestions have the same score (`NoTies`; Redis would order them by
their text), and a document does not go back to a text it had before. No theorem has a premise on how
many requests, runs or replicas there are. Premises on what happened, such as "no counter was
evicted" or "no call failed", are part of the properties and are commented there.

### What the proofs taught

* `EnoughSamples` holds only if a writer's cycle does not outlast the TTL of a hash
  (`MaxLag <= TTL`): otherwise a hash may expire and come back with one sample
  under a writer that reads. The run's instance has no such cycle; the code supposes
  it too, with a default TTL of ten minutes and a flush every thirty seconds
  (`config.py:157`).
* The first form of `BestStay` said that a bucket holds the best `TopK` places. This is
  false with three places: after a trim `/feedback` may put a worse place back in
  while a better one stays out. What holds, and is proved, is that a place that is
  out has `TopK` better ones in. Two places were too few for TLC to tell.
* `OrdinalsSwapBack` holds only of ordinals with the suffix that English gives them: "2th
  Street" is expanded to "second street", and that to "2nd Street". The questions
  TLC was given had no such token; the proof asked for it, and now they have one.
* An `AccessInv` that speaks of failures as well as of races needs the distinction
  between handlers that drop an entry and those that rewrite it: a rewrite fails
  for a deleted tenant, so only a DEL helps there (`Follows`).

### Only model-checked

All liveness properties: TLAPS has no rules for fairness here, nor for ENABLED. Of the
invariants, `LookupsRight`, whose parts are each out of reach for a reason of their own:

* `FastPathIsScan`, `ScrollShowsAllOnce`, `HouseStandsBetween` and `ComponentsAreDisjoint`
  rest on what sorting and filtering a sequence do. `tlapm` knows nothing of `SelectSeq` and
  `SortSeq`: they take an operator, and a fact about them for every operator would be
  of the kind no installed prover can instantiate.
* `ShapeRoundTrip`, `WritesStayInTile`: the decoder of shapes multiplies by powers whose
  exponent is a variable, and tile ids are taken apart by powers whose exponents are
  the widths of the fields; the provers have arithmetic for powers of literals only.
* `HouseStandsBetween` is besides not true of every line: where a street crosses itself
  the point found for a number is projected back to the first of the two stretches.

The three violations are TLC's counterexamples.

## What the models found

Violations that a run exhibits:

* `KeyTornDown`: `soft_delete_tenant` marks a tenant's keys deleted before
  `_sync_tenant` lists the keys whose consumers it should delete, so they stay in
  APISIX, and no later resync removes them.
* `TrafficDaily`: `_fill_missing_from_provider` reads the daily budget, calls the
  provider and books the calls afterwards; concurrent requests all see the same
  remainder. `OverdraftBounded` is what does hold.
* `DeepScroll`: the rescoring window grows with the offset, so each page is cut from
  a different order, and a scroll repeats one place and never shows another.

Seen while modelling, without a run of their own. Races and failures:

* Two admins who disable or remove each other at the same time both pass the check
  at `repo.py:125`, and no active admin is left (`crossed` of `AdminRoster`).
* Of two overlapping billing runs the one that read first may write last, and puts a
  pending invoice back to older totals (`overtaken` of `Billing`).
* When the SELECT of the weights fails, weights that are already out of date are used for
  another TTL, and so on as long as it fails (`kept` of `QuotaProjection`): "other
  processes converge within the cache TTL" supposes that it succeeds.
* The usage list is called durable, but `flush_events` pops before it commits, and
  an error loses the events (`lost` of `UsagePipeline`).
* A month is recorded as projected although a PUT of it failed
  (`aggregator.py:46`).
* A replica whose import failed skips its own file as if another owned it until the
  claim expires (`Skip` of `ImportLedger`).
* The limit on failures in a row of the flat-file watchers is checked after full
  batches only, not after the last (`oa_watcher.py:229`). The PBF watcher gives up a batch
  after fifty failures in a row, goes on with the next with the count unchanged,
  and records the file (`Join` of `WatcherPublish`); its limit of 300 attempts per
  message is never reached (`RetriesNeverExhausted`), nor has the flush after its
  loop ever anything to do (`NothingBehindSentinel`).
* An item that a bulk of Elasticsearch refuses (a version conflict, a full queue) is logged
  and its message acknowledged: the document keeps its old state or stays missing
  (`rejected` of `Inserter`). A document of the native sources has its tags merged with
  those that were there, though the comment at `es_inserter.py:513` calls it
  self-contained.
* A partial warm-up of the autocomplete index counts as complete. A warm-up looks through
  a search that is behind by up to a refresh, and so may put a popularity back that
  `/feedback` has just raised. A place that is ingested again with another name, centroid or
  rank is listed twice, as its old suggestion is not removed. With more documents than
  `max_docs` only the foremost are suggested.
* An element that shrinks keeps an address without the parents it ought to have gained:
  `address_needs_refresh` looks at the parents that are there.
* A retry of `POST /places` makes a second place with a second id.
* `es.ping()` does not raise with the client of version 8, so the loops that wait for
  Elasticsearch are left at the first try, and the calls after them meet the outage.
  The ten tries to open the pool of PostGIS are the geocoder's; its inserter has one, for
  the pool and for its tables, and otherwise exits and is restarted.
* `/traffic/edge` does not fail open when Redis is down, as the other reads of
  traffic do.
* A 503 raised inside the `try` of the handlers of inserts and places becomes a 500.
* Pages cached for a neighbouring point of the same cell are sorted for
  that point, so a client's scroll through them may repeat or skip a place.
* In `nats_client.py` the text of one of the errors of a race to create the stream
  is not the one the code looks for; the retry loop makes up for it.

Computations:

* The backstop of APISIX is called the most requests a tenant can make within its
  credits (`weights.py:125`), but `min_weight` knows only endpoints with a row: if an
  admin deletes the rows of the cheap ones (`repo.py:636`), an endpoint that then costs
  the default is cheaper than all it knows, and the backstop stops a tenant
  before its credits are spent. `BackstopIsTight` has this as a premise; the proof of
  `ScalesInvariant` needed it, and TLC's instance, which had a row for each
  endpoint, had not shown it.
* A second known city of an address query is dropped ("Main Street, Zamalek,
  Cairo", `address.py:602`), and item 5 of the docstring of `is_address_query` is
  not implemented.
* `/address` puts the synthesised address first without the guard against doubles
  `/geocode` has.
* `autocomplete.py:501` says a shorter bucket cannot hold an entry that
  passes the filter on the whole query: it can, if the query spans a label.
  `autocomplete.py:62` says an exact match is never displaced by popularity: the
  weight of the rank can make up for more than the gap.
* Polygons without a document in Elasticsearch come first in `/reverse`.
* `math.ceil` of a float product bills a cent too much where the product is inexact
  (`billing_engine.py:33`).

## Not modelled

Whole parts, with the reason in `PROJECT.json`: the downloader, the wrappers of external
providers and models, sign-in and provisioning, the front end. They do I/O in a
row or keep no state that evolves; how their calls fail is modelled where they
are called.

Within the modelled parts: how Elasticsearch queries are written and what
text analysis, vectors and distance functions make of them (a search yields any
order the model's sets allow); the format of answers; the parsers of rows, OSM
tags, categories and foreign formats; the centroid and the simplification of geometries;
map matching, narration and proxied calls of routing; bulk mode of Elasticsearch;
scopes and labels of keys; floating-point amounts; prompts and what the language
model says; the cleaner, a job run by hand.

## Plan

What is left, in this order:

1. The parts of `LookupsRight` that could be proved by another definition:
   `TrafficTile`'s offsets and `Interpolation`'s brackets (the one on its side).
2. Bulk mode of the Elasticsearch inserter (a flag left set by a failure), and the
   making and removing of plans.
3. A composition of `ImportLedger` with `BatchPublish` (a pass performs imports
   that abort), and `Inserter` as an implementation of an at-least-once table,
   proved as a refinement.

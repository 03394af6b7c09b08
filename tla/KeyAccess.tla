----------------------------- MODULE KeyAccess -----------------------------
(***************************************************************************)
(* Who may call the API: keys and tenants in Postgres (repo.py), the key   *)
(* cache the reference gateway reads (usage.py, a Redis entry with a TTL), *)
(* and the consumers of the deployed gateway, APISIX (apisix_admin.py).    *)
(* The control plane writes the first and then, call by call, brings the   *)
(* other two in line: create_key, update_key, delete_key, update_tenant,   *)
(* delete_tenant, and the resync of all active tenants at its start.       *)
(* Gateways fill the cache on a miss (`_resolve_key`).                     *)
(*                                                                         *)
(* Abstracted: plans, scopes, key names and consumer groups; a cache entry *)
(* is the two statuses the gateway decides on.                             *)
(***************************************************************************)
EXTENDS Integers

CONSTANTS
    Keys,
    Tenants,
    TenantOf,      \* the tenant of a key
    NoKey,
    NoTenant,
    NoEntry,
    Handlers,      \* control-plane requests in progress at once
    Gateways,      \* gateway requests in progress at once
    MaxFailures,   \* bound: APISIX errors and control-plane restarts
    MaxWipes       \* bound: losses of APISIX's etcd

KeyStatus    == {"absent", "active", "disabled", "deleted"}
TenantStatus == {"active", "suspended", "deleted"}
Entry        == [key : KeyStatus, tenant : TenantStatus]

ASSUME KeyAccessAssumption ==
    /\ TenantOf \in [Keys -> Tenants]
    /\ NoKey \notin Keys /\ NoTenant \notin Tenants /\ NoEntry \notin Entry
    /\ MaxFailures \in Nat /\ MaxWipes \in Nat

VARIABLES
    key,        \* api_keys.status, "absent" before the INSERT
    tenant,     \* tenants.status
    cache,      \* the key cache
    consumers,  \* keys that have a consumer in APISIX
    request,    \* control-plane handlers
    fill,       \* gateway handlers between their read and their write
    raced,      \* history: keys whose entry was already old when written
    synced,     \* history: since the last resync no call to APISIX has failed,
                \* no two requests have overlapped, and etcd has not been lost
    failures,
    wipes

accessVars == <<key, tenant, cache, consumers, request, fill, raced, synced, failures, wipes>>
external   == <<fill, synced, failures, wipes>>
others     == <<fill, failures, wipes>>

KeysOf(t)    == {k \in Keys : TenantOf[k] = t}
Row(k)       == [key |-> key[k], tenant |-> tenant[TenantOf[k]]]

Stages == {"idle", "refresh", "store", "register", "hashes", "uncache", "consumer",
           "sync", "keys", "plan", "push"}
Idle == [at |-> "idle", key |-> NoKey, up |-> FALSE, entry |-> NoEntry,
         tenant |-> NoTenant, status |-> "active", todo |-> {}, push |-> {},
         boot |-> FALSE, rest |-> {}]

AccessInit ==
    /\ key = [k \in Keys |-> "absent"]
    /\ tenant = [t \in Tenants |-> "active"]
    /\ cache = [k \in Keys |-> NoEntry]
    /\ consumers = {}
    /\ request = [h \in Handlers |-> Idle]
    /\ fill = [g \in Gateways |-> [key |-> NoKey, entry |-> NoEntry]]
    /\ raced = {}
    /\ synced = TRUE
    /\ failures = 0
    /\ wipes = 0

----------------------------------------------------------------------------
(* The key cache.                                                          *)

Put(k, entry) ==
    /\ cache' = [cache EXCEPT ![k] = entry]
    /\ raced' = IF entry = Row(k) THEN raced \ {k} ELSE raced \cup {k}

Drop(k) ==
    /\ cache' = [cache EXCEPT ![k] = NoEntry]
    /\ raced' = raced \ {k}

Expire(k) ==
    /\ cache[k] # NoEntry
    /\ Drop(k)
    /\ UNCHANGED <<key, tenant, consumers, request, fill, synced, failures, wipes>>

----------------------------------------------------------------------------
(* Control-plane handlers.  Requests are served once the start-up resync   *)
(* is over (`yield` of the lifespan).                                      *)

At(h, stage) == request[h].at = stage
Goto(h, stage) == request' = [request EXCEPT ![h].at = stage]
End(h) == request' = [request EXCEPT ![h] = Idle]
Begin(h, r) ==
    /\ At(h, "idle") /\ \A g \in Handlers : ~request[g].boot
    /\ request' = [request EXCEPT ![h] = r]
    /\ synced' = (synced /\ \A g \in Handlers : At(g, "idle"))

CreateKey(h, k) ==
    /\ key[k] = "absent"
    /\ Begin(h, [Idle EXCEPT !.at = "refresh", !.key = k, !.up = TRUE])
    /\ key' = [key EXCEPT ![k] = "active"]
    /\ UNCHANGED <<tenant, cache, consumers, raced, others>>

UpdateKey(h, k, status) ==
    /\ key[k] \in {"active", "disabled"}
    /\ Begin(h, [Idle EXCEPT !.at = "refresh", !.key = k, !.up = (status = "active")])
    /\ key' = [key EXCEPT ![k] = status]
    /\ UNCHANGED <<tenant, cache, consumers, raced, others>>

DeleteKey(h, k) ==
    /\ key[k] \in {"active", "disabled"}
    /\ Begin(h, [Idle EXCEPT !.at = "uncache", !.key = k, !.todo = {k}])
    /\ key' = [key EXCEPT ![k] = "deleted"]
    /\ UNCHANGED <<tenant, cache, consumers, raced, others>>

UpdateTenant(h, t, status) ==
    /\ tenant[t] # "deleted"
    /\ Begin(h, [Idle EXCEPT !.at = "hashes", !.tenant = t])
    /\ tenant' = [tenant EXCEPT ![t] = status]
    /\ UNCHANGED <<key, cache, consumers, raced, others>>

\* soft_delete_tenant: tenant and keys in one transaction.
DeleteTenant(h, t) ==
    /\ tenant[t] # "deleted"
    /\ Begin(h, [Idle EXCEPT !.at = "hashes", !.tenant = t])
    /\ tenant' = [tenant EXCEPT ![t] = "deleted"]
    /\ key' = [k \in Keys |-> IF TenantOf[k] = t /\ key[k] # "absent"
                                THEN "deleted" ELSE key[k]]
    /\ UNCHANGED <<cache, consumers, raced, others>>

\* _refresh_cache reads the row joined with its tenant ...
RefreshRead(h) ==
    /\ At(h, "refresh")
    /\ request' = [request EXCEPT ![h].at = "store", ![h].entry = Row(request[h].key)]
    /\ UNCHANGED <<key, tenant, cache, consumers, raced, external>>

\* ... then the plan, which a deleted tenant does not have: the request fails ...
RefreshRaises(h) ==
    /\ At(h, "store") /\ tenant[TenantOf[request[h].key]] = "deleted"
    /\ End(h)
    /\ UNCHANGED <<key, tenant, cache, consumers, raced, external>>

\* Mutant of RefreshStore: the entry is dropped before the read, not written after.
RefreshStoreNothing(h) ==
    /\ At(h, "store") /\ request[h].entry.tenant # "deleted"
    /\ Goto(h, "register")
    /\ UNCHANGED <<key, tenant, cache, raced, consumers, external>>

\* ... and writes the entry.
RefreshStore(h) ==
    /\ At(h, "store") /\ request[h].entry.tenant # "deleted"
    /\ Put(request[h].key, request[h].entry)
    /\ request' = [request EXCEPT ![h].at = "register", ![h].entry = NoEntry]
    /\ UNCHANGED <<key, tenant, consumers, external>>

\* An active key needs the plan of its tenant before it becomes a consumer;
\* without one nothing is registered.
Register(h) ==
    LET gone == tenant[TenantOf[request[h].key]] = "deleted" IN
    /\ At(h, "register")
    /\ IF request[h].up /\ gone THEN End(h) ELSE Goto(h, "consumer")
    /\ UNCHANGED <<key, tenant, cache, consumers, raced, external>>

\* upsert_consumer or delete_consumer, by the status the UPDATE returned.
SetConsumer(h) ==
    LET k == request[h].key IN
    /\ At(h, "consumer")
    /\ consumers' = IF request[h].up THEN consumers \cup {k} ELSE consumers \ {k}
    /\ End(h)
    /\ UNCHANGED <<key, tenant, cache, raced, external>>

\* _invalidate_tenant_cache: the hashes of all keys of the tenant, then one
\* DEL after the other.
ListHashes(h) ==
    LET t == request[h].tenant IN
    /\ At(h, "hashes")
    /\ request' = [request EXCEPT ![h].at = "uncache",
                                  ![h].todo = {k \in KeysOf(t) : key[k] # "absent"}]
    /\ UNCHANGED <<key, tenant, cache, consumers, raced, external>>

Uncache(h, k) ==
    /\ At(h, "uncache") /\ k \in request[h].todo
    /\ Drop(k)
    /\ request' = [request EXCEPT ![h].todo = @ \ {k}]
    /\ UNCHANGED <<key, tenant, consumers, external>>

Uncached(h) ==
    /\ At(h, "uncache") /\ request[h].todo = {}
    /\ Goto(h, IF request[h].key = NoKey THEN "sync" ELSE "consumer")
    /\ UNCHANGED <<key, tenant, cache, consumers, raced, external>>

----------------------------------------------------------------------------
(* _sync_tenant: the tenant, its keys that are not deleted, its plan, then *)
(* one call per key.                                                       *)

SyncRead(h) ==
    /\ At(h, "sync")
    /\ request' = [request EXCEPT ![h].at = "keys", ![h].status = tenant[request[h].tenant]]
    /\ UNCHANGED <<key, tenant, cache, consumers, raced, external>>

\* Mutant of Pushed: disabled keys are registered too.
PushedAll(live, status) == IF status = "active" THEN live ELSE {}

\* Only the active keys of an active tenant become consumers.
Pushed(live, status) ==
    IF status = "active" THEN {k \in live : key[k] = "active"} ELSE {}

SyncKeys(h) ==
    LET live == {k \in KeysOf(request[h].tenant) : key[k] \in {"active", "disabled"}}
        active == request[h].status = "active"
    IN
    /\ At(h, "keys")
    /\ request' = [request EXCEPT ![h].at = IF active THEN "plan" ELSE "push",
                                  ![h].todo = live, ![h].status = "active",
                                  ![h].push = Pushed(live, request[h].status)]
    /\ UNCHANGED <<key, tenant, cache, consumers, raced, external>>

\* The rest of the tenants at start-up, or the end of the request.
NextSync(h) ==
    IF request[h].rest = {} THEN End(h)
    ELSE \E t \in request[h].rest :
           request' = [request EXCEPT ![h] = [Idle EXCEPT !.at = "sync", !.tenant = t,
                                                !.boot = TRUE, !.rest = request[h].rest \ {t}]]

SyncPlan(h) ==
    /\ At(h, "plan")
    /\ IF tenant[request[h].tenant] = "deleted" THEN NextSync(h) ELSE Goto(h, "push")
    /\ UNCHANGED <<key, tenant, cache, consumers, raced, external>>

SyncConsumer(h, k) ==
    /\ At(h, "push") /\ k \in request[h].todo
    /\ consumers' = IF k \in request[h].push THEN consumers \cup {k} ELSE consumers \ {k}
    /\ request' = [request EXCEPT ![h].todo = @ \ {k}]
    /\ UNCHANGED <<key, tenant, cache, raced, external>>

SyncDone(h) ==
    /\ At(h, "push") /\ request[h].todo = {}
    /\ NextSync(h)
    /\ UNCHANGED <<key, tenant, cache, consumers, raced, external>>

\* A call to APISIX raises; it is logged, and what it was to change stays.
ApisixFails(h) ==
    /\ request[h].at \in {"consumer", "push"} /\ failures < MaxFailures
    /\ failures' = failures + 1
    /\ synced' = FALSE
    /\ NextSync(h)
    /\ UNCHANGED <<key, tenant, cache, consumers, raced, fill, wipes>>

\* Mutant of Resync: the start-up provisions the routes only.
ResyncNothing == request' = [h \in Handlers |-> Idle]

\* The start-up syncs every active tenant, one after the other.
Resync ==
    LET ts == {t \in Tenants : tenant[t] = "active"} IN
    \E h \in Handlers :
        IF ts = {} THEN request' = [g \in Handlers |-> Idle]
        ELSE \E t \in ts :
               request' = [g \in Handlers |->
                   IF g = h THEN [Idle EXCEPT !.at = "sync", !.tenant = t,
                                              !.boot = TRUE, !.rest = ts \ {t}]
                   ELSE Idle]

Restart ==
    /\ failures < MaxFailures
    /\ failures' = failures + 1
    /\ Resync
    /\ synced' = TRUE
    /\ UNCHANGED <<key, tenant, cache, consumers, raced, fill, wipes>>

\* APISIX loses its etcd.
Wipe ==
    /\ wipes < MaxWipes
    /\ wipes' = wipes + 1
    /\ consumers' = {}
    /\ synced' = FALSE
    /\ UNCHANGED <<key, tenant, cache, request, fill, raced, failures>>

----------------------------------------------------------------------------
(* _resolve_key: on a miss, the row and the plan are read and the entry    *)
(* written.  A hit changes nothing.                                        *)

\* Mutant of Miss: a hit writes its entry back, with a new TTL.
MissSliding(g, k) ==
    /\ fill[g].key = NoKey /\ key[k] # "absent"
    /\ fill' = [fill EXCEPT ![g] = [key |-> k,
                  entry |-> IF cache[k] = NoEntry THEN Row(k) ELSE cache[k]]]
    /\ UNCHANGED <<key, tenant, cache, consumers, request, raced, synced, failures, wipes>>

Miss(g, k) ==
    /\ fill[g].key = NoKey /\ cache[k] = NoEntry /\ key[k] # "absent"
    /\ fill' = [fill EXCEPT ![g] = [key |-> k, entry |-> Row(k)]]
    /\ UNCHANGED <<key, tenant, cache, consumers, request, raced, synced, failures, wipes>>

Fill(g) ==
    /\ fill[g].key # NoKey
    /\ Put(fill[g].key, fill[g].entry)
    /\ fill' = [fill EXCEPT ![g] = [key |-> NoKey, entry |-> NoEntry]]
    /\ UNCHANGED <<key, tenant, consumers, request, synced, failures, wipes>>

\* The tenant was deleted before the plan was read: the request fails.
FillRaises(g) ==
    /\ fill[g].key # NoKey /\ fill[g].entry.tenant # "deleted"
    /\ tenant[TenantOf[fill[g].key]] = "deleted"
    /\ fill' = [fill EXCEPT ![g] = [key |-> NoKey, entry |-> NoEntry]]
    /\ UNCHANGED <<key, tenant, cache, consumers, request, raced, synced, failures, wipes>>

Arrive(h) ==
    \/ \E k \in Keys :
         \/ CreateKey(h, k) \/ DeleteKey(h, k)
         \/ \E status \in {"active", "disabled"} : UpdateKey(h, k, status)
    \/ \E t \in Tenants :
         \/ DeleteTenant(h, t)
         \/ \E status \in {"active", "suspended"} : UpdateTenant(h, t, status)

Proceed(h) ==
    \/ RefreshRead(h) \/ RefreshRaises(h) \/ RefreshStore(h) \/ Register(h) \/ SetConsumer(h)
    \/ ListHashes(h) \/ Uncached(h)
    \/ SyncRead(h) \/ SyncKeys(h) \/ SyncPlan(h) \/ SyncDone(h)
    \/ \E k \in Keys : Uncache(h, k) \/ SyncConsumer(h, k)

AccessNext ==
    \/ \E h \in Handlers : Arrive(h) \/ Proceed(h) \/ ApisixFails(h)
    \/ \E g \in Gateways : Fill(g) \/ FillRaises(g) \/ \E k \in Keys : Miss(g, k)
    \/ \E k \in Keys : Expire(k)
    \/ Restart \/ Wipe

AccessSpec == AccessInit /\ [][AccessNext]_accessVars

(* A handler whose await has completed runs on, a gateway that missed      *)
(* writes its entry, and entries expire after KEYCACHE_TTL.                *)
FairAccessSpec ==
    /\ AccessSpec
    /\ \A h \in Handlers : WF_accessVars(Proceed(h))
    /\ \A g \in Gateways : WF_accessVars(Fill(g) \/ FillRaises(g))
    /\ \A k \in Keys : WF_accessVars(Expire(k))

----------------------------------------------------------------------------
AccessTypeOK ==
    /\ key \in [Keys -> KeyStatus]
    /\ tenant \in [Tenants -> TenantStatus]
    /\ cache \in [Keys -> Entry \cup {NoEntry}]
    /\ consumers \subseteq Keys
    /\ \A h \in Handlers :
         /\ request[h].at \in Stages
         /\ request[h].key \in Keys \cup {NoKey}
         /\ request[h].tenant \in Tenants \cup {NoTenant}
         /\ request[h].todo \subseteq Keys /\ request[h].push \subseteq Keys
         /\ request[h].rest \subseteq Tenants
    /\ \A g \in Gateways : fill[g].key \in Keys \cup {NoKey}
    /\ raced \subseteq Keys

Quiet == \A h \in Handlers : At(h, "idle")

Allows(entry) == entry = [key |-> "active", tenant |-> "active"]

(* Every change of a status reaches the cache, whatever other requests are *)
(* doing: with no request under way, an entry that was true when it was    *)
(* written is true now; one of a deleted tenant at least lets no call      *)
(* through.                                                                *)
StaleOnlyByRace ==
    Quiet /\ failures = 0 =>
        \A k \in Keys \ raced :
            IF tenant[TenantOf[k]] = "deleted" THEN ~Allows(cache[k])
            ELSE cache[k] \in {NoEntry, Row(k)}

(* "the data plane self-heals after an etcd reset": after a resync every   *)
(* active key of an active tenant has its consumer, whatever the restart   *)
(* interrupted and whichever requests followed one by one.                 *)
ActiveKeysServed ==
    Quiet /\ synced =>
        \A k \in Keys : Allows(Row(k)) => k \in consumers

(* Without failures, and with one request at a time, only active keys have *)
(* consumers once a request is over, a deleted tenant's apart              *)
(* (DeletedTenantTornDown).                                                *)
OnlyActiveServed ==
    Quiet /\ synced /\ failures = 0 =>
        \A k \in consumers : key[k] = "active" \/ tenant[TenantOf[k]] = "deleted"

(* What the tables say, the cache says but for a race of a gateway, and    *)
(* APISIX as soon as nothing is under way.                                 *)
AccessInv == AccessTypeOK /\ StaleOnlyByRace /\ ActiveKeysServed /\ OnlyActiveServed

(* A deleted key is forgotten by the gateways: stale entries expire, and   *)
(* from some point on none comes back.                                     *)
DeletedKeyForgotten ==
    \A k \in Keys :
        key[k] = "deleted" ~> [](cache[k] = NoEntry \/ cache[k].key = "deleted")

(* "tears down group + consumers in APISIX": a deleted tenant has none.    *)
DeletedTenantTornDown ==
    Quiet /\ failures = 0 =>
        \A k \in consumers : tenant[TenantOf[k]] # "deleted"
=============================================================================

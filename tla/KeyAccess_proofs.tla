---------------------------- MODULE KeyAccess_proofs ----------------------------
(***************************************************************************)
(* AccessInv for any keys, tenants, control-plane requests and gateways.   *)
(* The cache and the consumers in APISIX are wrong only while a handler    *)
(* is on its way to correct them: the invariant says which handler, and    *)
(* that what it has read is still so.                                      *)
(***************************************************************************)
EXTENDS KeyAccess, TLAPS

Request == [at : Stages, key : Keys \cup {NoKey}, up : BOOLEAN, entry : Entry \cup {NoEntry},
            tenant : Tenants \cup {NoTenant}, status : TenantStatus, todo : SUBSET Keys,
            push : SUBSET Keys, boot : BOOLEAN, rest : SUBSET Tenants]

KeyStages  == {"refresh", "store", "register", "consumer"}
SyncStages == {"sync", "keys", "plan", "push"}

\* What a handler is about fits its stage.
Fits(r) ==
    /\ r.at \in KeyStages => r.key \in Keys
    /\ r.at = "store" => r.entry \in Entry
    /\ r.at \in SyncStages \cup {"hashes"} => r.tenant \in Tenants /\ r.key = NoKey
    /\ r.at = "uncache" /\ r.key = NoKey => r.tenant \in Tenants
    /\ r.at \in {"plan", "push"} => r.todo \subseteq KeysOf(r.tenant)
    /\ r.rest # {} => r.at \in SyncStages
    /\ r.at = "idle" => r = Idle

AccessTypes ==
    /\ key \in [Keys -> KeyStatus]
    /\ tenant \in [Tenants -> TenantStatus]
    /\ cache \in [Keys -> Entry \cup {NoEntry}]
    /\ consumers \subseteq Keys
    /\ request \in [Handlers -> Request]
    /\ \A h \in Handlers : Fits(request[h])
    /\ fill \in [Gateways -> [key : Keys \cup {NoKey}, entry : Entry \cup {NoEntry}]]
    /\ \A g \in Gateways : fill[g].key # NoKey => fill[g].entry \in Entry
    /\ raced \subseteq Keys
    /\ synced \in BOOLEAN
    /\ failures \in Nat

----------------------------------------------------------------------------
(* The cache.                                                              *)

\* Nothing is known of a key before its INSERT.
AbsentUnknown ==
    \A k \in Keys : key[k] = "absent" =>
        /\ cache[k] = NoEntry
        /\ \A h \in Handlers : request[h].key # k
        /\ \A g \in Gateways : fill[g].key # k

\* A handler at r is going to drop the entry of k, or to write it anew.
Clears(r, k) ==
    \/ r.at = "hashes" /\ r.tenant = TenantOf[k]
    \/ r.at = "uncache" /\ k \in r.todo
Rewrites(r, k) == r.at \in {"refresh", "store"} /\ r.key = k

\* An old entry that no race of a gateway explains is about to be replaced;
\* a refresh fails when the tenant is deleted, so there only a DEL will do.
Follows(k) ==
    \/ k \in raced
    \/ \E h \in Handlers : Clears(request[h], k)
    \/ IF tenant[TenantOf[k]] = "deleted" THEN ~Allows(cache[k])
       ELSE \/ cache[k] \in {NoEntry, Row(k)}
            \/ \E h \in Handlers : Rewrites(request[h], k)

CacheFollows == failures = 0 => \A k \in Keys : Follows(k)

----------------------------------------------------------------------------
(* The consumers, while `synced`.                                          *)

\* A handler at r is going to register k.
Registers(r, k) ==
    \/ r.at \in KeyStages /\ r.key = k /\ r.up
    \/ r.at = "uncache" /\ r.key = NoKey /\ r.tenant = TenantOf[k]
    \/ r.at \in {"hashes", "sync", "keys"} /\ r.tenant = TenantOf[k]
    \/ r.at \in {"plan", "push"} /\ k \in r.todo \cap r.push
    \/ TenantOf[k] \in r.rest

\* A handler at r is going to remove k.
Removes(r, k) == r.at \in KeyStages \cup {"uncache"} /\ r.key = k /\ ~r.up

Serves(k)  == Allows(Row(k))
Torn(k)    == tenant[TenantOf[k]] = "deleted"
MayStay(k) == key[k] = "active" \/ Torn(k)

\* What a handler has read is still so.
Current(r) ==
    /\ r.at \in KeyStages \cup {"uncache"} /\ r.key \in Keys =>
         Torn(r.key) \/ (r.up <=> key[r.key] = "active")
    /\ r.at = "keys" => r.status = tenant[r.tenant]
    /\ r.at \in {"plan", "push"} =>
         /\ \A k \in r.push : key[k] = "active"
         /\ \A k \in r.todo \ r.push : ~Serves(k)

ConsumersFollow ==
    synced =>
        /\ \A g, h \in Handlers : ~At(g, "idle") /\ ~At(h, "idle") => g = h
        /\ \A h \in Handlers : Current(request[h])
        /\ \A k \in Keys : Serves(k) =>
             k \in consumers \/ \E h \in Handlers : Registers(request[h], k)
        /\ failures = 0 => \A k \in consumers :
             MayStay(k) \/ \E h \in Handlers : Removes(request[h], k)

AccessIInv == AccessTypes /\ AbsentUnknown /\ CacheFollows /\ ConsumersFollow

----------------------------------------------------------------------------
LEMMA IdleTyped == Idle \in Request /\ Fits(Idle)
BY KeyAccessAssumption
   DEF Idle, Request, Fits, Stages, KeyStages, SyncStages, TenantStatus

LEMMA RowTyped ==
    ASSUME AccessTypes, NEW k \in Keys
    PROVE  Row(k) \in Entry /\ Row(k).key = key[k] /\ Row(k).tenant = tenant[TenantOf[k]]
BY KeyAccessAssumption DEF AccessTypes, Row, Entry

\* An entry allows a call when both of its statuses do.
LEMMA AllowsBoth ==
    ASSUME NEW e \in Entry
    PROVE  Allows(e) <=> e.key = "active" /\ e.tenant = "active"
BY DEF Allows, Entry

LEMMA ServesBoth ==
    ASSUME AccessTypes, NEW k \in Keys
    PROVE  Serves(k) <=> key[k] = "active" /\ tenant[TenantOf[k]] = "active"
BY RowTyped, AllowsBoth DEF Serves

LEMMA NothingAllowsNothing == ~Allows(NoEntry)
<1>1. [key |-> "active", tenant |-> "active"] \in Entry
  BY DEF Entry, KeyStatus, TenantStatus
<1>. QED
  BY <1>1, KeyAccessAssumption DEF Allows

LEMMA InitIInv == AccessInit => AccessIInv
<1>. SUFFICES ASSUME AccessInit PROVE AccessIInv
  OBVIOUS
<1>1. AccessTypes
  BY IdleTyped, KeyAccessAssumption DEF AccessInit, AccessTypes, KeyStatus, TenantStatus
<1>2. AbsentUnknown
  BY KeyAccessAssumption DEF AccessInit, AbsentUnknown, Idle
<1>3. CacheFollows
  BY NothingAllowsNothing DEF AccessInit, CacheFollows, Follows
<1>4. ConsumersFollow
  <2>1. \A k \in Keys : ~Serves(k)
    BY <1>1, ServesBoth DEF AccessInit
  <2>2. \A h \in Handlers : request[h] = Idle /\ Current(request[h])
    BY DEF AccessInit, Current, Idle, KeyStages
  <2>. QED
    BY <2>1, <2>2 DEF AccessInit, ConsumersFollow, At, Idle
<1>. QED
  BY <1>1, <1>2, <1>3, <1>4 DEF AccessIInv

----------------------------------------------------------------------------
(* Steps of one handler.                                                   *)

\* The handlers after one has moved on to r.
LEMMA Moved ==
    ASSUME AccessTypes, NEW h \in Handlers, NEW r \in Request, Fits(r),
           request' = [request EXCEPT ![h] = r]
    PROVE  /\ request' \in [Handlers -> Request]
           /\ \A g \in Handlers : Fits(request'[g])
           /\ request'[h] = r
           /\ \A g \in Handlers \ {h} : request'[g] = request[g]
BY DEF AccessTypes

LEMMA TypesMoved ==
    ASSUME AccessTypes, NEW h \in Handlers, NEW r \in Request, Fits(r),
           request' = [request EXCEPT ![h] = r],
           UNCHANGED <<key, tenant, cache, raced, fill>>,
           consumers' \subseteq Keys, synced' \in BOOLEAN, failures' \in Nat
    PROVE  AccessTypes'
BY Moved DEF AccessTypes

LEMMA AbsentMoved ==
    ASSUME AccessTypes, AbsentUnknown, NEW h \in Handlers, NEW r \in Request, Fits(r),
           request' = [request EXCEPT ![h] = r],
           r.key \in Keys => r.key = request[h].key \/ key'[r.key] # "absent",
           \A k \in Keys : key'[k] = "absent" =>
               key[k] = "absent" /\ cache'[k] \in {cache[k], NoEntry},
           UNCHANGED fill
    PROVE  AbsentUnknown'
<1>1. SUFFICES ASSUME NEW k \in Keys, key'[k] = "absent"
               PROVE  /\ cache'[k] = NoEntry
                      /\ \A g \in Handlers : request'[g].key # k
                      /\ \A g \in Gateways : fill'[g].key # k
  BY DEF AbsentUnknown
<1>2. key[k] = "absent" /\ cache[k] = NoEntry /\ \A g \in Handlers : request[g].key # k
  BY <1>1 DEF AbsentUnknown
<1>3. \A g \in Handlers : request'[g].key # k
  BY <1>1, <1>2, Moved
<1>. QED
  BY <1>1, <1>2, <1>3 DEF AbsentUnknown

\* The tables and the cache are as before, and the handler still corrects
\* what it was to correct.
LEMMA CacheMoved ==
    ASSUME AccessTypes, CacheFollows, NEW h \in Handlers, NEW r \in Request, Fits(r),
           request' = [request EXCEPT ![h] = r],
           UNCHANGED <<key, tenant, cache, raced, failures>>,
           \A k \in Keys : Clears(request[h], k) => Clears(r, k) \/ cache[k] = NoEntry,
           \A k \in Keys : Rewrites(request[h], k) => Rewrites(r, k) \/ Torn(k)
    PROVE  CacheFollows'
<1>1. SUFFICES ASSUME failures = 0, NEW k \in Keys PROVE Follows(k)'
  BY DEF CacheFollows
<1>2. Follows(k) /\ Row(k)' = Row(k)
  BY <1>1 DEF CacheFollows, Row
<1>3. CASE \E g \in Handlers : Clears(request[g], k)
  <2>1. (\E g \in Handlers : Clears(request'[g], k)) \/ cache[k] = NoEntry
    BY <1>3, Moved
  <2>. QED
    BY <1>2, <2>1, NothingAllowsNothing DEF Follows
<1>4. CASE ~Torn(k) /\ \E g \in Handlers : Rewrites(request[g], k)
  <2>1. \E g \in Handlers : Rewrites(request'[g], k)
    BY <1>4, Moved
  <2>. QED
    BY <1>2, <1>4, <2>1 DEF Follows, Torn
<1>5. CASE /\ ~\E g \in Handlers : Clears(request[g], k)
           /\ Torn(k) \/ ~\E g \in Handlers : Rewrites(request[g], k)
  BY <1>2, <1>5 DEF Follows, Torn
<1>. QED
  BY <1>3, <1>4, <1>5

\* The same for the consumers.
LEMMA ConsumersMoved ==
    ASSUME AccessTypes, ConsumersFollow, NEW h \in Handlers, NEW r \in Request, Fits(r),
           request' = [request EXCEPT ![h] = r], ~At(h, "idle"),
           UNCHANGED <<key, tenant, synced, failures>>,
           synced => Current(r),
           \A k \in Keys : synced /\ Serves(k) =>
               /\ Registers(request[h], k) => Registers(r, k) \/ k \in consumers'
               /\ k \in consumers => k \in consumers',
           \A k \in consumers' : synced /\ ~MayStay(k) =>
               /\ k \in consumers
               /\ Removes(request[h], k) => Removes(r, k)
    PROVE  ConsumersFollow'
<1>1. SUFFICES ASSUME synced PROVE ConsumersFollow'
  BY DEF ConsumersFollow
<1>2. /\ \A k : Serves(k)' = Serves(k) /\ MayStay(k)' = MayStay(k)
      /\ \A g \in Handlers \ {h} : request'[g] = request[g]
      /\ request'[h] = r
  BY Moved DEF Serves, Row, MayStay, Torn
<1>3. \A f, g \in Handlers : ~At(f, "idle")' /\ ~At(g, "idle")' => f = g
  BY <1>1, <1>2 DEF ConsumersFollow, At
<1>4. ASSUME NEW g \in Handlers PROVE Current(request[g])'
  <2>1. PICK q : q = request'[g]
    OBVIOUS
  <2>2. Current(q)
    BY <1>1, <1>2, <2>1 DEF ConsumersFollow
  <2>3. Current(q)'
    BY <2>2 DEF Current, Serves, Row, Torn
  <2>. QED
    BY <2>1, <2>3 DEF Current, Serves, Row, Torn
<1>5. ASSUME NEW k \in Keys, Serves(k)'
      PROVE  k \in consumers' \/ \E g \in Handlers : Registers(request'[g], k)
  BY <1>1, <1>2, <1>5 DEF ConsumersFollow
<1>6. ASSUME failures = 0, NEW k \in consumers'
      PROVE  MayStay(k)' \/ \E g \in Handlers : Removes(request'[g], k)
  BY <1>1, <1>2, <1>6 DEF ConsumersFollow
<1>. QED
  BY <1>3, <1>4, <1>5, <1>6 DEF ConsumersFollow

\* A step that moves a handler on and changes nothing else.
LEMMA MoveOn ==
    ASSUME AccessIInv, NEW h \in Handlers, NEW r \in Request, Fits(r),
           request' = [request EXCEPT ![h] = r], ~At(h, "idle"),
           UNCHANGED <<key, tenant, cache, consumers, raced, external>>,
           r.key \in {request[h].key, NoKey},
           \A k \in Keys : Clears(request[h], k) => Clears(r, k) \/ cache[k] = NoEntry,
           \A k \in Keys : Rewrites(request[h], k) => Rewrites(r, k) \/ Torn(k),
           synced => Current(r),
           \A k \in Keys : synced /\ Serves(k) /\ Registers(request[h], k) => Registers(r, k),
           \A k \in Keys : synced /\ ~MayStay(k) /\ Removes(request[h], k) => Removes(r, k)
    PROVE  AccessIInv'
<1>1. AccessTypes'
  BY TypesMoved DEF AccessIInv, AccessTypes, external
<1>2. AbsentUnknown'
  BY AbsentMoved, KeyAccessAssumption DEF AccessIInv, external
<1>3. CacheFollows'
  BY CacheMoved DEF AccessIInv, external
<1>4. ConsumersFollow'
  BY ConsumersMoved DEF AccessIInv, AccessTypes, external
<1>. QED
  BY <1>1, <1>2, <1>3, <1>4 DEF AccessIInv

----------------------------------------------------------------------------
(* The steps of a handler, one by one.                                     *)

\* The end of a sync: the next tenant of a start-up, or nothing.
LEMMA SyncGoesOn ==
    ASSUME AccessTypes, NEW h \in Handlers, NextSync(h)
    PROVE  \E r \in Request :
             /\ request' = [request EXCEPT ![h] = r] /\ Fits(r)
             /\ r.key = NoKey /\ r.at \in {"idle", "sync"}
             /\ \A k \in Keys : TenantOf[k] \in request[h].rest => Registers(r, k)
<1>1. request[h] \in Request
  BY DEF AccessTypes
<1>2. CASE request[h].rest = {}
  <2>1. request' = [request EXCEPT ![h] = Idle] /\ Idle.key = NoKey /\ Idle.at = "idle"
    BY <1>2 DEF NextSync, End, Idle
  <2>. QED
    BY <1>2, <2>1, IdleTyped
<1>3. CASE request[h].rest # {}
  <2>1. PICK t \in request[h].rest :
          request' = [request EXCEPT ![h] = [Idle EXCEPT !.at = "sync", !.tenant = t,
                                               !.boot = TRUE, !.rest = request[h].rest \ {t}]]
    BY <1>3 DEF NextSync
  <2>2. PICK r : r = [Idle EXCEPT !.at = "sync", !.tenant = t, !.boot = TRUE,
                                  !.rest = request[h].rest \ {t}]
    OBVIOUS
  <2>3. request[h].rest \subseteq Tenants /\ t \in Tenants
    BY <1>1, <2>1 DEF Request
  <2>4. /\ r \in Request /\ r.key = NoKey /\ r.at = "sync" /\ r.tenant = t
        /\ r.rest = request[h].rest \ {t}
    BY <2>2, <2>3, IdleTyped DEF Request, Idle, Stages
  <2>5. Fits(r)
    BY <2>3, <2>4 DEF Fits, KeyStages, SyncStages
  <2>6. \A k \in Keys : TenantOf[k] \in request[h].rest => Registers(r, k)
    BY <2>4 DEF Registers
  <2>7. request' = [request EXCEPT ![h] = r]
    BY <2>1, <2>2
  <2>. QED
    BY <2>4, <2>5, <2>6, <2>7
<1>. QED
  BY <1>2, <1>3

LEMMA RefreshReadStep ==
    ASSUME AccessIInv, NEW h \in Handlers, RefreshRead(h)
    PROVE  AccessIInv'
<1>1. PICK q \in Request : q = request[h] /\ Fits(q)
  BY DEF AccessIInv, AccessTypes
<1>2. PICK r : r = [request[h] EXCEPT !.at = "store", !.entry = Row(request[h].key)]
  OBVIOUS
<1>3. request' = [request EXCEPT ![h] = r] /\ ~At(h, "idle")
  BY <1>1, <1>2 DEF RefreshRead, At, Goto, End
<1>4. q.at = "refresh" /\ q.key \in Keys /\ r = [q EXCEPT !.at = "store", !.entry = Row(q.key)]
  BY <1>1, <1>2 DEF RefreshRead, At, Fits, KeyStages
<1>5. r \in Request /\ Fits(r) /\ r.key \in {q.key, NoKey}
  BY <1>1, <1>4, RowTyped DEF AccessIInv, Request, Stages, Fits, KeyStages, SyncStages
<1>6. \A k \in Keys : Clears(q, k) => Clears(r, k) \/ cache[k] = NoEntry
  BY <1>1, <1>4 DEF Clears, Request
<1>7. \A k \in Keys : Rewrites(q, k) => Rewrites(r, k) \/ Torn(k)
  BY <1>1, <1>4 DEF Rewrites, Request
<1>8. synced => Current(q)
  BY <1>1 DEF AccessIInv, ConsumersFollow
<1>9. synced => Current(r)
  BY <1>1, <1>4, <1>8 DEF Current, Request, KeyStages
<1>10. \A k \in Keys : synced /\ Serves(k) /\ Registers(q, k) => Registers(r, k)
  BY <1>1, <1>4 DEF Registers, Request, KeyStages, Fits, SyncStages
<1>11. \A k \in Keys : synced /\ ~MayStay(k) /\ Removes(q, k) => Removes(r, k)
  BY <1>1, <1>4 DEF Removes, Request, KeyStages
<1>. QED
  BY <1>1, <1>3, <1>5, <1>6, <1>7, <1>9, <1>10, <1>11, MoveOn DEF RefreshRead

LEMMA RefreshRaisesStep ==
    ASSUME AccessIInv, NEW h \in Handlers, RefreshRaises(h)
    PROVE  AccessIInv'
<1>1. PICK q \in Request : q = request[h] /\ Fits(q)
  BY DEF AccessIInv, AccessTypes
<1>2. PICK r : r = Idle
  OBVIOUS
<1>3. request' = [request EXCEPT ![h] = r] /\ ~At(h, "idle")
  BY <1>1, <1>2 DEF RefreshRaises, At, Goto, End
<1>4. q.at = "store" /\ q.key \in Keys /\ r = Idle /\ Torn(q.key)
  BY <1>1, <1>2 DEF RefreshRaises, At, Fits, KeyStages, Torn
<1>5. r \in Request /\ Fits(r) /\ r.key \in {q.key, NoKey}
  BY <1>4, IdleTyped DEF Idle
<1>6. \A k \in Keys : Clears(q, k) => Clears(r, k) \/ cache[k] = NoEntry
  BY <1>1, <1>4 DEF Clears
<1>7. \A k \in Keys : Rewrites(q, k) => Rewrites(r, k) \/ Torn(k)
  BY <1>1, <1>4 DEF Rewrites
<1>8. synced => Current(q)
  BY <1>1 DEF AccessIInv, ConsumersFollow
<1>9. synced => Current(r)
  BY <1>1, <1>4 DEF Current, Idle, KeyStages
<1>10. \A k \in Keys : synced /\ Serves(k) /\ Registers(q, k) => Registers(r, k)
  BY <1>1, <1>4, ServesBoth DEF AccessIInv, Registers, KeyStages, Fits, SyncStages, Torn
<1>11. \A k \in Keys : synced /\ ~MayStay(k) /\ Removes(q, k) => Removes(r, k)
  BY <1>1, <1>4 DEF Removes, KeyStages, MayStay
<1>. QED
  BY <1>1, <1>3, <1>5, <1>6, <1>7, <1>9, <1>10, <1>11, MoveOn DEF RefreshRaises

LEMMA ListHashesStep ==
    ASSUME AccessIInv, NEW h \in Handlers, ListHashes(h)
    PROVE  AccessIInv'
<1>1. PICK q \in Request : q = request[h] /\ Fits(q)
  BY DEF AccessIInv, AccessTypes
<1>2. PICK r : r = [request[h] EXCEPT
          !.at = "uncache", !.todo = {k \in KeysOf(request[h].tenant) : key[k] # "absent"}]
  OBVIOUS
<1>3. request' = [request EXCEPT ![h] = r] /\ ~At(h, "idle")
  BY <1>1, <1>2 DEF ListHashes, At, Goto, End
<1>4. /\ q.at = "hashes" /\ q.tenant \in Tenants /\ q.key = NoKey
      /\ r = [q EXCEPT !.at = "uncache", !.todo = {k \in KeysOf(q.tenant) : key[k] # "absent"}]
  BY <1>1, <1>2 DEF ListHashes, At, Fits
<1>5. r \in Request /\ Fits(r) /\ r.key \in {q.key, NoKey}
  BY <1>1, <1>4 DEF Request, Stages, Fits, KeyStages, SyncStages, KeysOf
<1>6. \A k \in Keys : Clears(q, k) => Clears(r, k) \/ cache[k] = NoEntry
  BY <1>1, <1>4 DEF AccessIInv, AbsentUnknown, Clears, Request, KeysOf
<1>7. \A k \in Keys : Rewrites(q, k) => Rewrites(r, k) \/ Torn(k)
  BY <1>1, <1>4 DEF Rewrites, Request
<1>8. synced => Current(q)
  BY <1>1 DEF AccessIInv, ConsumersFollow
<1>9. synced => Current(r)
  BY <1>1, <1>4, KeyAccessAssumption DEF Current, Request, KeyStages
<1>10. \A k \in Keys : synced /\ Serves(k) /\ Registers(q, k) => Registers(r, k)
  BY <1>1, <1>4 DEF Registers, Request, KeyStages, Fits, SyncStages
<1>11. \A k \in Keys : synced /\ ~MayStay(k) /\ Removes(q, k) => Removes(r, k)
  BY <1>1, <1>4, KeyAccessAssumption DEF Removes, Request, KeyStages
<1>. QED
  BY <1>1, <1>3, <1>5, <1>6, <1>7, <1>9, <1>10, <1>11, MoveOn DEF ListHashes

LEMMA SyncReadStep ==
    ASSUME AccessIInv, NEW h \in Handlers, SyncRead(h)
    PROVE  AccessIInv'
<1>1. PICK q \in Request : q = request[h] /\ Fits(q)
  BY DEF AccessIInv, AccessTypes
<1>2. PICK r : r = [request[h] EXCEPT !.at = "keys", !.status = tenant[request[h].tenant]]
  OBVIOUS
<1>3. request' = [request EXCEPT ![h] = r] /\ ~At(h, "idle")
  BY <1>1, <1>2 DEF SyncRead, At, Goto, End
<1>4. /\ q.at = "sync" /\ q.tenant \in Tenants /\ q.key = NoKey
      /\ r = [q EXCEPT !.at = "keys", !.status = tenant[q.tenant]]
  BY <1>1, <1>2 DEF SyncRead, At, Fits, SyncStages
<1>5. r \in Request /\ Fits(r) /\ r.key \in {q.key, NoKey}
  BY <1>1, <1>4 DEF AccessIInv, AccessTypes, Request, Stages, Fits, KeyStages, SyncStages
<1>6. \A k \in Keys : Clears(q, k) => Clears(r, k) \/ cache[k] = NoEntry
  BY <1>1, <1>4 DEF Clears, Request
<1>7. \A k \in Keys : Rewrites(q, k) => Rewrites(r, k) \/ Torn(k)
  BY <1>1, <1>4 DEF Rewrites, Request
<1>8. synced => Current(q)
  BY <1>1 DEF AccessIInv, ConsumersFollow
<1>9. synced => Current(r)
  BY <1>1, <1>4, <1>8 DEF Current, Request, KeyStages
<1>10. \A k \in Keys : synced /\ Serves(k) /\ Registers(q, k) => Registers(r, k)
  BY <1>1, <1>4 DEF Registers, Request, KeyStages, Fits, SyncStages
<1>11. \A k \in Keys : synced /\ ~MayStay(k) /\ Removes(q, k) => Removes(r, k)
  BY <1>1, <1>4 DEF Removes, Request, KeyStages
<1>. QED
  BY <1>1, <1>3, <1>5, <1>6, <1>7, <1>9, <1>10, <1>11, MoveOn DEF SyncRead

LEMMA SyncKeysStep ==
    ASSUME AccessIInv, NEW h \in Handlers, SyncKeys(h)
    PROVE  AccessIInv'
<1>1. PICK q \in Request : q = request[h] /\ Fits(q)
  BY DEF AccessIInv, AccessTypes
<1>2. PICK r : r = [request[h] EXCEPT
          !.at = IF request[h].status = "active" THEN "plan" ELSE "push",
          !.todo = {k \in KeysOf(request[h].tenant) : key[k] \in {"active", "disabled"}},
          !.status = "active",
          !.push = Pushed({k \in KeysOf(request[h].tenant) : key[k] \in {"active", "disabled"}},
                          request[h].status)]
  OBVIOUS
<1>3. request' = [request EXCEPT ![h] = r] /\ ~At(h, "idle")
  BY <1>1, <1>2 DEF SyncKeys, At, Goto, End
<1>4. /\ q.at = "keys" /\ q.tenant \in Tenants /\ q.key = NoKey
      /\ r.at = IF q.status = "active" THEN "plan" ELSE "push"
      /\ r.todo = {k \in KeysOf(q.tenant) : key[k] \in {"active", "disabled"}}
      /\ r.push = Pushed(r.todo, q.status) /\ r.status = "active"
      /\ r.key = q.key /\ r.tenant = q.tenant /\ r.rest = q.rest /\ r.up = q.up
      /\ r.entry = q.entry /\ r.boot = q.boot /\ r = [q EXCEPT !.at = r.at, !.todo = r.todo,
                                                       !.status = r.status, !.push = r.push]
  BY <1>1, <1>2 DEF SyncKeys, At, Fits, SyncStages, Request
<1>5. r \in Request /\ Fits(r) /\ r.key \in {q.key, NoKey}
  <2>1. /\ r.todo \subseteq Keys /\ r.todo \subseteq KeysOf(r.tenant) /\ r.push \subseteq Keys
        /\ r.status \in TenantStatus /\ r.at \in {"plan", "push"}
    BY <1>4 DEF KeysOf, Pushed, TenantStatus
  <2>. QED
    BY <1>1, <1>4, <2>1 DEF Request, Stages, Fits, KeyStages, SyncStages
<1>6. \A k \in Keys : Clears(q, k) => Clears(r, k) \/ cache[k] = NoEntry
  BY <1>4 DEF Clears
<1>7. \A k \in Keys : Rewrites(q, k) => Rewrites(r, k) \/ Torn(k)
  BY <1>4 DEF Rewrites
<1>8. synced => Current(q)
  BY <1>1 DEF AccessIInv, ConsumersFollow
<1>0. AccessTypes /\ (synced => q.status = tenant[q.tenant])
  BY <1>4, <1>8 DEF AccessIInv, Current
<1>9. synced => Current(r)
  <2>1. \A k \in r.push : key[k] = "active"
    BY <1>4 DEF Pushed
  <2>2. ASSUME synced, NEW k \in r.todo \ r.push PROVE ~Serves(k)
    <3>1. k \in Keys /\ TenantOf[k] = q.tenant
      BY <1>4, <2>2 DEF KeysOf
    <3>2. q.status = "active" => key[k] # "active"
      BY <1>4, <2>2 DEF Pushed
    <3>. QED
      BY <1>0, <2>2, <3>1, <3>2, ServesBoth
  <2>3. r.at \in {"plan", "push"}
    BY <1>4
  <2>. QED
    BY <2>1, <2>2, <2>3 DEF Current, KeyStages
<1>10. \A k \in Keys : synced /\ Serves(k) /\ Registers(q, k) => Registers(r, k)
  <2>. SUFFICES ASSUME NEW k \in Keys, synced, Serves(k), Registers(q, k) PROVE Registers(r, k)
    OBVIOUS
  <2>1. TenantOf[k] = q.tenant \/ TenantOf[k] \in q.rest
    BY <1>4 DEF Registers, KeyStages
  <2>2. CASE TenantOf[k] = q.tenant
    <3>1. key[k] = "active" /\ q.status = "active"
      BY <1>0, <2>2, ServesBoth
    <3>2. k \in r.todo /\ k \in r.push /\ r.at = "plan"
      BY <1>4, <2>2, <3>1 DEF KeysOf, Pushed
    <3>. QED
      BY <3>2 DEF Registers
  <2>3. CASE TenantOf[k] \in q.rest
    BY <1>4, <2>3 DEF Registers
  <2>. QED
    BY <2>1, <2>2, <2>3
<1>11. \A k \in Keys : synced /\ ~MayStay(k) /\ Removes(q, k) => Removes(r, k)
  BY <1>4, KeyAccessAssumption DEF Removes, KeyStages
<1>. QED
  BY <1>1, <1>3, <1>5, <1>6, <1>7, <1>9, <1>10, <1>11, MoveOn DEF SyncKeys

\* Register, Uncached and the ends of a sync have two outcomes each.
LEMMA RegisterStep ==
    ASSUME AccessIInv, NEW h \in Handlers, Register(h)
    PROVE  AccessIInv'
<1>1. PICK q \in Request : q = request[h] /\ Fits(q)
  BY DEF AccessIInv, AccessTypes
<1>2. q.at = "register" /\ q.key \in Keys /\ ~At(h, "idle")
  BY <1>1 DEF Register, At, Fits, KeyStages
<1>3. synced => Current(q)
  BY <1>1 DEF AccessIInv, ConsumersFollow
<1>4. CASE q.up /\ Torn(q.key)
  <2>1. request' = [request EXCEPT ![h] = Idle] /\ Idle.key = NoKey
    BY <1>1, <1>4 DEF Register, End, Torn, Idle
  <2>2. \A k \in Keys : ~Clears(q, k) /\ ~Rewrites(q, k) /\ ~Removes(q, k) /\ Current(Idle)
    BY <1>2, <1>4 DEF Clears, Rewrites, Removes, Current, Idle, KeyStages
  <2>3. \A k \in Keys : Serves(k) => ~Registers(q, k)
    BY <1>1, <1>2, <1>4, ServesBoth DEF AccessIInv, Registers, KeyStages, SyncStages, Fits, Torn
  <2>. QED
    BY <1>1, <1>2, <2>1, <2>2, <2>3, IdleTyped, MoveOn DEF Register
<1>5. CASE ~(q.up /\ Torn(q.key))
  <2>1. PICK r : r = [q EXCEPT !.at = "consumer"]
    OBVIOUS
  <2>2. request' = [request EXCEPT ![h] = r]
    BY <1>1, <1>5, <2>1 DEF Register, Goto, Torn
  <2>3. r \in Request /\ Fits(r) /\ r.key = q.key
    BY <1>1, <1>2, <2>1 DEF Request, Stages, Fits, KeyStages, SyncStages
  <2>4. \A k \in Keys : /\ ~Clears(q, k) /\ ~Rewrites(q, k)
                        /\ Registers(q, k) => Registers(r, k)
                        /\ Removes(q, k) => Removes(r, k)
    BY <1>2, <2>1 DEF Clears, Rewrites, Registers, Removes, KeyStages, Request
  <2>5. synced => Current(r)
    BY <1>2, <1>3, <2>1 DEF Current, KeyStages, Request
  <2>. QED
    BY <1>1, <1>2, <2>2, <2>3, <2>4, <2>5, MoveOn DEF Register
<1>. QED
  BY <1>4, <1>5

LEMMA UncachedStep ==
    ASSUME AccessIInv, NEW h \in Handlers, Uncached(h)
    PROVE  AccessIInv'
<1>1. PICK q \in Request : q = request[h] /\ Fits(q)
  BY DEF AccessIInv, AccessTypes
<1>2. q.at = "uncache" /\ q.todo = {} /\ ~At(h, "idle")
  BY <1>1 DEF Uncached, At
<1>3. synced => Current(q)
  BY <1>1 DEF AccessIInv, ConsumersFollow
<1>4. PICK r : r = [q EXCEPT !.at = IF q.key = NoKey THEN "sync" ELSE "consumer"]
  OBVIOUS
<1>5. request' = [request EXCEPT ![h] = r]
  BY <1>1, <1>4 DEF Uncached, Goto
<1>6. /\ r.at = IF q.key = NoKey THEN "sync" ELSE "consumer"
      /\ r.key = q.key /\ r.tenant = q.tenant /\ r.rest = q.rest /\ r.up = q.up
      /\ q.key \in Keys \cup {NoKey} /\ r \in Request
  BY <1>4 DEF Request, Stages
<1>7. Fits(r)
  BY <1>1, <1>2, <1>6 DEF Fits, KeyStages, SyncStages
<1>8. \A k \in Keys : /\ ~Clears(q, k) /\ ~Rewrites(q, k)
                      /\ Registers(q, k) => Registers(r, k)
                      /\ Removes(q, k) => Removes(r, k)
  BY <1>1, <1>2, <1>6, KeyAccessAssumption
  DEF Clears, Rewrites, Registers, Removes, KeyStages, Fits, SyncStages
<1>9. synced => Current(r)
  BY <1>2, <1>3, <1>6, KeyAccessAssumption DEF Current, KeyStages
<1>. QED
  BY <1>1, <1>2, <1>5, <1>6, <1>7, <1>8, <1>9, MoveOn DEF Uncached

\* A sync that is over, because all is pushed or the tenant is deleted.
LEMMA SyncEnds ==
    ASSUME AccessIInv, NEW h \in Handlers, NextSync(h),
           request[h].at \in {"plan", "push"},
           \A k \in request[h].todo : ~Serves(k),
           UNCHANGED <<key, tenant, cache, consumers, raced, external>>
    PROVE  AccessIInv'
<1>1. PICK q \in Request : q = request[h] /\ Fits(q)
  BY DEF AccessIInv, AccessTypes
<1>2. PICK r \in Request :
        /\ request' = [request EXCEPT ![h] = r] /\ Fits(r)
        /\ r.key = NoKey /\ r.at \in {"idle", "sync"}
        /\ \A k \in Keys : TenantOf[k] \in q.rest => Registers(r, k)
  BY <1>1, SyncGoesOn DEF AccessIInv
<1>3. \A k \in Keys : /\ ~Clears(q, k) /\ ~Rewrites(q, k) /\ ~Removes(q, k)
                      /\ Serves(k) /\ Registers(q, k) => Registers(r, k)
  BY <1>1, <1>2 DEF Clears, Rewrites, Removes, Registers, KeyStages
<1>4. Current(r) /\ ~At(h, "idle")
  BY <1>2, KeyAccessAssumption DEF Current, KeyStages, At
<1>. QED
  BY <1>1, <1>2, <1>3, <1>4, MoveOn

LEMMA SyncDoneStep ==
    ASSUME AccessIInv, NEW h \in Handlers, SyncDone(h)
    PROVE  AccessIInv'
BY SyncEnds DEF SyncDone, At

LEMMA SyncPlanStep ==
    ASSUME AccessIInv, NEW h \in Handlers, SyncPlan(h)
    PROVE  AccessIInv'
<1>1. PICK q \in Request : q = request[h] /\ Fits(q)
  BY DEF AccessIInv, AccessTypes
<1>2. q.at = "plan" /\ q.tenant \in Tenants /\ q.key = NoKey /\ q.todo \subseteq KeysOf(q.tenant)
  BY <1>1 DEF SyncPlan, At, Fits, SyncStages
<1>3. CASE tenant[q.tenant] = "deleted"
  <2>1. \A k \in q.todo : ~Serves(k)
    BY <1>2, <1>3, ServesBoth DEF AccessIInv, KeysOf
  <2>2. NextSync(h)
    BY <1>1, <1>3 DEF SyncPlan
  <2>. QED
    BY <1>1, <1>2, <2>1, <2>2, SyncEnds DEF SyncPlan
<1>4. CASE tenant[q.tenant] # "deleted"
  <2>1. PICK r : r = [q EXCEPT !.at = "push"]
    OBVIOUS
  <2>2. request' = [request EXCEPT ![h] = r] /\ ~At(h, "idle")
    BY <1>1, <1>2, <1>4, <2>1 DEF SyncPlan, Goto, At
  <2>3. r \in Request /\ Fits(r) /\ r.key = q.key
    BY <1>1, <1>2, <2>1 DEF Request, Stages, Fits, KeyStages, SyncStages
  <2>4. \A k \in Keys : /\ ~Clears(q, k) /\ ~Rewrites(q, k) /\ ~Removes(q, k)
                        /\ Registers(q, k) => Registers(r, k)
    BY <1>2, <2>1 DEF Clears, Rewrites, Registers, Removes, KeyStages, Request
  <2>5. synced => Current(r)
    BY <1>1, <1>2, <2>1, KeyAccessAssumption
       DEF AccessIInv, ConsumersFollow, Current, KeyStages, Request
  <2>. QED
    BY <1>1, <2>2, <2>3, <2>4, <2>5, MoveOn DEF SyncPlan
<1>. QED
  BY <1>3, <1>4

----------------------------------------------------------------------------
(* Writes to the cache.                                                    *)

\* An entry is written: what was true of the other keys still is, and this
\* one's entry is true or in `raced`.
LEMMA CachePut ==
    ASSUME AccessTypes, CacheFollows, NEW k \in Keys, NEW e \in Entry, Put(k, e),
           UNCHANGED <<key, tenant, failures>>,
           \A g \in Handlers : \A j \in Keys \ {k} :
             /\ Clears(request[g], j) => Clears(request'[g], j)
             /\ Rewrites(request[g], j) => Rewrites(request'[g], j)
    PROVE  CacheFollows' /\ cache' \in [Keys -> Entry \cup {NoEntry}] /\ raced' \subseteq Keys
<1>1. /\ cache' \in [Keys -> Entry \cup {NoEntry}] /\ raced' \subseteq Keys /\ cache'[k] = e
      /\ \A j \in Keys \ {k} : cache'[j] = cache[j] /\ (j \in raced => j \in raced')
      /\ e = Row(k) \/ k \in raced'
  BY DEF AccessTypes, Put
<1>2. ASSUME failures = 0 PROVE Follows(k)'
  <2>1. CASE k \in raced'
    BY <2>1 DEF Follows
  <2>2. CASE e = Row(k)
    <3>1. Row(k)' = Row(k) /\ (Torn(k) => ~Allows(e))
      BY <2>2, RowTyped, AllowsBoth DEF Row, Torn
    <3>. QED
      BY <1>1, <2>2, <3>1 DEF Follows, Torn
  <2>. QED
    BY <1>1, <2>1, <2>2
<1>3. ASSUME failures = 0, NEW j \in Keys \ {k} PROVE Follows(j)'
  <2>1. Follows(j) /\ Row(j)' = Row(j) /\ cache'[j] = cache[j] /\ (j \in raced => j \in raced')
    BY <1>1, <1>3 DEF CacheFollows, Row
  <2>. QED
    BY <2>1 DEF Follows
<1>. QED
  BY <1>1, <1>2, <1>3 DEF CacheFollows

LEMMA CacheDrop ==
    ASSUME AccessTypes, CacheFollows, NEW k \in Keys, Drop(k),
           UNCHANGED <<key, tenant, failures>>,
           \A g \in Handlers : \A j \in Keys \ {k} :
             /\ Clears(request[g], j) => Clears(request'[g], j)
             /\ Rewrites(request[g], j) => Rewrites(request'[g], j)
    PROVE  CacheFollows' /\ cache' \in [Keys -> Entry \cup {NoEntry}] /\ raced' \subseteq Keys
<1>1. /\ cache' \in [Keys -> Entry \cup {NoEntry}] /\ raced' \subseteq Keys /\ cache'[k] = NoEntry
      /\ \A j \in Keys \ {k} : cache'[j] = cache[j] /\ (j \in raced => j \in raced')
  BY DEF AccessTypes, Drop
<1>2. Follows(k)'
  BY <1>1, NothingAllowsNothing DEF Follows
<1>3. ASSUME failures = 0, NEW j \in Keys \ {k} PROVE Follows(j)'
  <2>1. Follows(j) /\ Row(j)' = Row(j) /\ cache'[j] = cache[j] /\ (j \in raced => j \in raced')
    BY <1>1, <1>3 DEF CacheFollows, Row
  <2>. QED
    BY <2>1 DEF Follows
<1>. QED
  BY <1>1, <1>2, <1>3 DEF CacheFollows

LEMMA RefreshStoreStep ==
    ASSUME AccessIInv, NEW h \in Handlers, RefreshStore(h)
    PROVE  AccessIInv'
<1>1. PICK q \in Request : q = request[h] /\ Fits(q)
  BY DEF AccessIInv, AccessTypes
<1>2. q.at = "store" /\ q.key \in Keys /\ q.entry \in Entry
  BY <1>1 DEF RefreshStore, At, Fits, KeyStages
<1>3. PICK r : r = [q EXCEPT !.at = "register", !.entry = NoEntry]
  OBVIOUS
<1>4. request' = [request EXCEPT ![h] = r] /\ ~At(h, "idle") /\ Put(q.key, q.entry)
  BY <1>1, <1>2, <1>3 DEF RefreshStore, At
<1>5. r \in Request /\ Fits(r) /\ r.key = q.key
  BY <1>1, <1>2, <1>3 DEF Request, Stages, Fits, KeyStages, SyncStages
<1>6. /\ request' \in [Handlers -> Request] /\ \A g \in Handlers : Fits(request'[g])
      /\ request'[h] = r /\ \A g \in Handlers \ {h} : request'[g] = request[g]
  BY <1>4, <1>5, Moved DEF AccessIInv
<1>7. \A k \in Keys \ {q.key} : ~Clears(q, k) /\ ~Rewrites(q, k)
  BY <1>2 DEF Clears, Rewrites
<1>8. CacheFollows' /\ cache' \in [Keys -> Entry \cup {NoEntry}] /\ raced' \subseteq Keys
  BY <1>1, <1>2, <1>4, <1>6, <1>7, CachePut DEF AccessIInv, RefreshStore, external
<1>9. AccessTypes'
  BY <1>6, <1>8 DEF AccessIInv, AccessTypes, RefreshStore, external
<1>10. AbsentUnknown'
  <2>1. key[q.key] # "absent"
    BY <1>1, <1>2 DEF AccessIInv, AbsentUnknown
  <2>2. \A k \in Keys \ {q.key} : cache'[k] = cache[k]
    BY <1>4 DEF Put, AccessIInv, AccessTypes
  <2>. QED
    BY <1>1, <1>4, <1>5, <2>1, <2>2, AbsentMoved DEF AccessIInv, RefreshStore, external
<1>11. ConsumersFollow'
  <2>1. synced => Current(q)
    BY <1>1 DEF AccessIInv, ConsumersFollow
  <2>2. synced => Current(r)
    BY <1>2, <1>3, <2>1 DEF Current, Request, KeyStages
  <2>3. \A k \in Keys : /\ Registers(q, k) => Registers(r, k)
                        /\ Removes(q, k) => Removes(r, k)
    BY <1>1, <1>2, <1>3 DEF Registers, Removes, Request, KeyStages, Fits, SyncStages
  <2>. QED
    BY <1>1, <1>4, <1>5, <2>2, <2>3, ConsumersMoved
       DEF AccessIInv, AccessTypes, RefreshStore, external
<1>. QED
  BY <1>8, <1>9, <1>10, <1>11 DEF AccessIInv

LEMMA UncacheStep ==
    ASSUME AccessIInv, NEW h \in Handlers, NEW j \in Keys, Uncache(h, j)
    PROVE  AccessIInv'
<1>1. PICK q \in Request : q = request[h] /\ Fits(q)
  BY DEF AccessIInv, AccessTypes
<1>2. q.at = "uncache"
  BY <1>1 DEF Uncache, At
<1>3. PICK r : r = [q EXCEPT !.todo = q.todo \ {j}]
  OBVIOUS
<1>4. request' = [request EXCEPT ![h] = r] /\ ~At(h, "idle") /\ Drop(j)
  BY <1>1, <1>2, <1>3 DEF Uncache, At
<1>5. r \in Request /\ Fits(r) /\ r.key = q.key
  BY <1>1, <1>2, <1>3 DEF Request, Fits, KeyStages, SyncStages
<1>6. /\ request' \in [Handlers -> Request] /\ \A g \in Handlers : Fits(request'[g])
      /\ request'[h] = r /\ \A g \in Handlers \ {h} : request'[g] = request[g]
  BY <1>4, <1>5, Moved DEF AccessIInv
<1>7. \A k \in Keys \ {j} : (Clears(q, k) => Clears(r, k)) /\ ~Rewrites(q, k)
  BY <1>2, <1>3 DEF Clears, Rewrites, Request
<1>8. CacheFollows' /\ cache' \in [Keys -> Entry \cup {NoEntry}] /\ raced' \subseteq Keys
  BY <1>1, <1>2, <1>4, <1>6, <1>7, CacheDrop DEF AccessIInv, Uncache, external
<1>9. AccessTypes'
  BY <1>6, <1>8 DEF AccessIInv, AccessTypes, Uncache, external
<1>10. AbsentUnknown'
  <2>1. \A k \in Keys : cache'[k] \in {cache[k], NoEntry}
    BY <1>4 DEF Drop, AccessIInv, AccessTypes
  <2>. QED
    BY <1>1, <1>4, <1>5, <2>1, AbsentMoved DEF AccessIInv, Uncache, external
<1>11. ConsumersFollow'
  <2>1. synced => Current(q)
    BY <1>1 DEF AccessIInv, ConsumersFollow
  <2>2. synced => Current(r)
    BY <1>2, <1>3, <2>1 DEF Current, Request, KeyStages
  <2>3. \A k \in Keys : /\ Registers(q, k) => Registers(r, k)
                        /\ Removes(q, k) => Removes(r, k)
    BY <1>1, <1>2, <1>3 DEF Registers, Removes, Request, KeyStages, Fits, SyncStages
  <2>. QED
    BY <1>1, <1>4, <1>5, <2>2, <2>3, ConsumersMoved
       DEF AccessIInv, AccessTypes, Uncache, external
<1>. QED
  BY <1>8, <1>9, <1>10, <1>11 DEF AccessIInv

----------------------------------------------------------------------------
(* Calls to APISIX.                                                        *)

LEMMA SetConsumerStep ==
    ASSUME AccessIInv, NEW h \in Handlers, SetConsumer(h)
    PROVE  AccessIInv'
<1>1. PICK q \in Request : q = request[h] /\ Fits(q)
  BY DEF AccessIInv, AccessTypes
<1>2. /\ q.at = "consumer" /\ q.key \in Keys /\ q.rest = {}
      /\ ~At(h, "idle") /\ request' = [request EXCEPT ![h] = Idle]
      /\ consumers' = IF q.up THEN consumers \cup {q.key} ELSE consumers \ {q.key}
  BY <1>1 DEF SetConsumer, At, Fits, KeyStages, SyncStages, End
<1>3. AccessTypes'
  BY <1>2, IdleTyped, TypesMoved DEF AccessIInv, AccessTypes, SetConsumer, external
<1>4. AbsentUnknown'
  BY <1>2, IdleTyped, AbsentMoved, KeyAccessAssumption
     DEF AccessIInv, SetConsumer, external, Idle
<1>5. CacheFollows'
  <2>1. \A k \in Keys : ~Clears(q, k) /\ ~Rewrites(q, k)
    BY <1>2 DEF Clears, Rewrites
  <2>. QED
    BY <1>1, <1>2, <2>1, IdleTyped, CacheMoved DEF AccessIInv, SetConsumer, external
<1>6. ConsumersFollow'
  <2>1. synced => Torn(q.key) \/ (q.up <=> key[q.key] = "active")
    BY <1>1, <1>2 DEF AccessIInv, ConsumersFollow, Current, KeyStages
  <2>2. Current(Idle)
    BY DEF Current, Idle, KeyStages
  <2>3. ASSUME NEW k \in Keys, synced, Serves(k)
        PROVE  /\ Registers(q, k) => k \in consumers'
               /\ k \in consumers => k \in consumers'
    <3>1. key[k] = "active" /\ ~Torn(k)
      BY <2>3, ServesBoth DEF AccessIInv, Torn
    <3>. QED
      BY <1>2, <2>1, <2>3, <3>1 DEF Registers
  <2>4. ASSUME NEW k \in consumers', synced, ~MayStay(k)
        PROVE  k \in consumers /\ ~Removes(q, k)
    BY <1>2, <2>1, <2>4 DEF Removes, MayStay
  <2>. QED
    BY <1>1, <1>2, <2>2, <2>3, <2>4, IdleTyped, ConsumersMoved
       DEF AccessIInv, AccessTypes, SetConsumer, external
<1>. QED
  BY <1>3, <1>4, <1>5, <1>6 DEF AccessIInv

LEMMA SyncConsumerStep ==
    ASSUME AccessIInv, NEW h \in Handlers, NEW j \in Keys, SyncConsumer(h, j)
    PROVE  AccessIInv'
<1>1. PICK q \in Request : q = request[h] /\ Fits(q)
  BY DEF AccessIInv, AccessTypes
<1>2. PICK r : r = [q EXCEPT !.todo = q.todo \ {j}]
  OBVIOUS
<1>3. /\ q.at = "push" /\ j \in q.todo
      /\ ~At(h, "idle") /\ request' = [request EXCEPT ![h] = r]
      /\ consumers' = IF j \in q.push THEN consumers \cup {j} ELSE consumers \ {j}
  BY <1>1, <1>2 DEF SyncConsumer, At
<1>4. r \in Request /\ Fits(r) /\ r.key = q.key
  BY <1>1, <1>2, <1>3 DEF Request, Fits, KeyStages, SyncStages
<1>5. AccessTypes'
  BY <1>3, <1>4, TypesMoved DEF AccessIInv, AccessTypes, SyncConsumer, external
<1>6. AbsentUnknown'
  BY <1>1, <1>3, <1>4, AbsentMoved DEF AccessIInv, SyncConsumer, external
<1>7. CacheFollows'
  <2>1. \A k \in Keys : ~Clears(q, k) /\ ~Rewrites(q, k)
    BY <1>3 DEF Clears, Rewrites
  <2>. QED
    BY <1>1, <1>3, <1>4, <2>1, CacheMoved DEF AccessIInv, SyncConsumer, external
<1>8. ConsumersFollow'
  <2>1. synced => Current(q)
    BY <1>1 DEF AccessIInv, ConsumersFollow
  <2>2. synced => Current(r)
    BY <1>2, <1>3, <2>1 DEF Current, Request, KeyStages
  <2>3. ASSUME NEW k \in Keys, synced, Serves(k)
        PROVE  /\ Registers(q, k) => Registers(r, k) \/ k \in consumers'
               /\ k \in consumers => k \in consumers'
    <3>1. k \in q.todo => k \in q.push
      BY <1>3, <2>1, <2>3 DEF Current
    <3>2. CASE k = j
      BY <1>3, <3>1, <3>2
    <3>3. CASE k # j
      BY <1>2, <1>3, <3>3 DEF Registers, Request
    <3>. QED
      BY <3>2, <3>3
  <2>4. ASSUME NEW k \in consumers', synced, ~MayStay(k)
        PROVE  k \in consumers /\ ~Removes(q, k)
    <3>1. k \notin q.push
      BY <1>3, <2>1, <2>4 DEF Current, MayStay
    <3>. QED
      BY <1>3, <2>4, <3>1 DEF Removes, KeyStages
  <2>. QED
    BY <1>1, <1>3, <1>4, <2>2, <2>3, <2>4, ConsumersMoved
       DEF AccessIInv, AccessTypes, SyncConsumer, external
<1>. QED
  BY <1>5, <1>6, <1>7, <1>8 DEF AccessIInv

\* A failed call ends the handler: the cache is no longer spoken of, nor are
\* the consumers.
LEMMA ApisixFailsStep ==
    ASSUME AccessIInv, NEW h \in Handlers, ApisixFails(h)
    PROVE  AccessIInv'
<1>1. PICK r \in Request :
        request' = [request EXCEPT ![h] = r] /\ Fits(r) /\ r.key = NoKey
  BY SyncGoesOn DEF ApisixFails, AccessIInv
<1>2. failures' \in Nat /\ failures' # 0 /\ synced' = FALSE
  BY DEF ApisixFails, AccessIInv, AccessTypes
<1>3. AccessTypes'
  BY <1>1, <1>2, TypesMoved DEF AccessIInv, AccessTypes, ApisixFails
<1>4. AbsentUnknown'
  BY <1>1, AbsentMoved, KeyAccessAssumption DEF AccessIInv, ApisixFails
<1>. QED
  BY <1>2, <1>3, <1>4 DEF AccessIInv, CacheFollows, ConsumersFollow

----------------------------------------------------------------------------
(* New requests.                                                           *)

\* A request that begins at r, with its change of the tables.  What it sets
\* right follows from r; if it runs into another, `synced` is over.
LEMMA Begun ==
    ASSUME AccessIInv, NEW h \in Handlers, NEW r \in Request, Fits(r), Begin(h, r), r.at # "idle",
           key' \in [Keys -> KeyStatus], tenant' \in [Tenants -> TenantStatus],
           UNCHANGED <<cache, consumers, raced, others>>,
           r.key \in Keys => key'[r.key] # "absent",
           \A k \in Keys : key'[k] = "absent" => key[k] = "absent",
           \A k \in Keys : \/ Clears(r, k)
                           \/ Row(k)' = Row(k)
                           \/ /\ tenant' = tenant
                              /\ Rewrites(r, k),
           Current(r)',
           \A k \in Keys : Serves(k)' => Serves(k) \/ Registers(r, k),
           \A k \in Keys : MayStay(k) => MayStay(k)' \/ Removes(r, k)
    PROVE  AccessIInv'
<1>1. /\ request' = [request EXCEPT ![h] = r] /\ request[h] = Idle
      /\ synced' = (synced /\ \A g \in Handlers : At(g, "idle"))
  BY DEF Begin, At, AccessIInv, AccessTypes, Fits
<1>2. /\ request' \in [Handlers -> Request] /\ \A g \in Handlers : Fits(request'[g])
      /\ request'[h] = r /\ \A g \in Handlers \ {h} : request'[g] = request[g]
  BY <1>1, Moved DEF AccessIInv
<1>3. AccessTypes'
  BY <1>1, <1>2 DEF AccessIInv, AccessTypes, others
<1>4. AbsentUnknown'
  BY <1>1, AbsentMoved DEF AccessIInv, others
<1>5. CacheFollows'
  <2>1. SUFFICES ASSUME failures = 0, NEW k \in Keys PROVE Follows(k)'
    BY DEF CacheFollows, others
  <2>2. Follows(k) /\ ~Clears(Idle, k) /\ ~Rewrites(Idle, k)
    BY <2>1 DEF AccessIInv, CacheFollows, Clears, Rewrites, Idle
  <2>3. CASE Clears(r, k)
    BY <1>2, <2>3 DEF Follows
  <2>4. CASE k \in raced \/ \E g \in Handlers : Clears(request[g], k)
    <3>1. k \in raced' \/ \E g \in Handlers : Clears(request'[g], k)
      BY <1>1, <1>2, <2>2, <2>4
    <3>. QED
      BY <3>1 DEF Follows
  <2>5. CASE /\ Row(k)' = Row(k)
             /\ ~(k \in raced \/ \E g \in Handlers : Clears(request[g], k))
    <3>1. tenant'[TenantOf[k]] = tenant[TenantOf[k]]
      BY <2>5 DEF Row
    <3>2. (\E g \in Handlers : Rewrites(request[g], k)) =>
            \E g \in Handlers : Rewrites(request'[g], k)
      BY <1>1, <1>2, <2>2
    <3>3. CASE Torn(k)
      BY <2>2, <2>5, <3>1, <3>3 DEF Follows, Torn
    <3>4. CASE ~Torn(k)
      BY <2>2, <2>5, <3>1, <3>2, <3>4 DEF Follows, Torn
    <3>. QED
      BY <3>3, <3>4
  <2>6. CASE /\ tenant' = tenant /\ Rewrites(r, k)
             /\ ~(k \in raced \/ \E g \in Handlers : Clears(request[g], k))
    <3>1. CASE Torn(k)
      BY <2>2, <2>6, <3>1 DEF Follows, Torn
    <3>2. CASE ~Torn(k)
      BY <1>2, <2>6, <3>2 DEF Follows, Torn
    <3>. QED
      BY <3>1, <3>2
  <2>. QED
    BY <2>3, <2>4, <2>5, <2>6
<1>6. ConsumersFollow'
  <2>1. SUFFICES ASSUME synced' PROVE ConsumersFollow'
    BY DEF ConsumersFollow
  <2>2. synced /\ \A g \in Handlers : request[g] = Idle
    BY <1>1, <2>1 DEF At, AccessIInv, AccessTypes, Fits
  <2>3. \A g \in Handlers \ {h} : request'[g] = Idle /\ request'[g].at = "idle"
    BY <1>2, <2>2 DEF Idle
  <2>4. \A f, g \in Handlers : ~At(f, "idle")' /\ ~At(g, "idle")' => f = g
    BY <2>3 DEF At
  <2>5. \A k \in Keys : ~Registers(Idle, k) /\ ~Removes(Idle, k)
    BY DEF Registers, Removes, Idle, KeyStages
  <2>6. ASSUME NEW g \in Handlers PROVE Current(request[g])'
    <3>1. CASE g = h
      BY <1>2, <3>1 DEF Current
    <3>2. CASE g # h
      BY <2>3, <3>2 DEF Current, Idle, KeyStages
    <3>. QED
      BY <3>1, <3>2
  <2>7. ASSUME NEW k \in Keys, Serves(k)'
        PROVE  k \in consumers' \/ \E g \in Handlers : Registers(request'[g], k)
    <3>1. CASE Registers(r, k)
      BY <1>2, <3>1
    <3>2. CASE Serves(k)
      BY <2>2, <2>5, <3>2 DEF AccessIInv, ConsumersFollow
    <3>. QED
      BY <2>7, <3>1, <3>2
  <2>8. ASSUME failures' = 0, NEW k \in consumers'
        PROVE  MayStay(k)' \/ \E g \in Handlers : Removes(request'[g], k)
    <3>1. k \in Keys /\ MayStay(k)
      BY <2>2, <2>5, <2>8 DEF AccessIInv, AccessTypes, ConsumersFollow, others
    <3>. QED
      BY <1>2, <3>1
  <2>. QED
    BY <2>4, <2>6, <2>7, <2>8 DEF ConsumersFollow
<1>. QED
  BY <1>3, <1>4, <1>5, <1>6 DEF AccessIInv

\* A change of one key leaves the rows of the others.
LEMMA OtherRows ==
    ASSUME AccessTypes, NEW k \in Keys, NEW status \in KeyStatus,
           key' = [key EXCEPT ![k] = status], tenant' = tenant
    PROVE  /\ key' \in [Keys -> KeyStatus] /\ key'[k] = status
           /\ \A j \in Keys \ {k} : Row(j)' = Row(j) /\ key'[j] = key[j]
           /\ \A j \in Keys : Torn(j)' = Torn(j)
BY DEF AccessTypes, Row, Torn

LEMMA CreateKeyStep ==
    ASSUME AccessIInv, NEW h \in Handlers, NEW k \in Keys, CreateKey(h, k)
    PROVE  AccessIInv'
<1>1. PICK r : r = [Idle EXCEPT !.at = "refresh", !.key = k, !.up = TRUE]
  OBVIOUS
<1>2. r \in Request /\ Fits(r) /\ r.at = "refresh" /\ r.key = k /\ r.up = TRUE
  BY <1>1, IdleTyped DEF Request, Stages, Fits, KeyStages, SyncStages, Idle
<1>3. Begin(h, r) /\ key[k] = "absent" /\ tenant' = tenant /\ AccessTypes
  BY <1>1 DEF CreateKey, AccessIInv
<1>4. /\ key' \in [Keys -> KeyStatus] /\ key'[k] = "active"
      /\ \A j \in Keys \ {k} : Row(j)' = Row(j) /\ key'[j] = key[j]
      /\ \A j \in Keys : Torn(j)' = Torn(j)
  BY <1>3, OtherRows DEF CreateKey, KeyStatus
<1>5. \A j \in Keys : Row(j)' = Row(j) \/ Rewrites(r, j)
  BY <1>2, <1>4 DEF Rewrites
<1>6. Current(r)'
  BY <1>2, <1>4 DEF Current, KeyStages
<1>7. \A j \in Keys : Serves(j)' => Serves(j) \/ Registers(r, j)
  BY <1>2, <1>4 DEF Serves, Registers, KeyStages
<1>8. \A j \in Keys : MayStay(j) => MayStay(j)'
  BY <1>3, <1>4 DEF MayStay
<1>. QED
  BY <1>2, <1>3, <1>4, <1>5, <1>6, <1>7, <1>8, Begun DEF CreateKey, AccessIInv, AccessTypes

LEMMA UpdateKeyStep ==
    ASSUME AccessIInv, NEW h \in Handlers, NEW k \in Keys, NEW status \in {"active", "disabled"},
           UpdateKey(h, k, status)
    PROVE  AccessIInv'
<1>1. PICK r : r = [Idle EXCEPT !.at = "refresh", !.key = k, !.up = (status = "active")]
  OBVIOUS
<1>2. r \in Request /\ Fits(r) /\ r.at = "refresh" /\ r.key = k /\ (r.up <=> status = "active")
  BY <1>1, IdleTyped DEF Request, Stages, Fits, KeyStages, SyncStages, Idle
<1>3. Begin(h, r) /\ key[k] \in {"active", "disabled"} /\ tenant' = tenant /\ AccessTypes
  BY <1>1 DEF UpdateKey, AccessIInv
<1>4. /\ key' \in [Keys -> KeyStatus] /\ key'[k] = status
      /\ \A j \in Keys \ {k} : Row(j)' = Row(j) /\ key'[j] = key[j]
      /\ \A j \in Keys : Torn(j)' = Torn(j)
  BY <1>3, OtherRows DEF UpdateKey, KeyStatus
<1>5. \A j \in Keys : Row(j)' = Row(j) \/ Rewrites(r, j)
  BY <1>2, <1>4 DEF Rewrites
<1>6. Current(r)'
  BY <1>2, <1>4 DEF Current, KeyStages
<1>7. \A j \in Keys : Serves(j)' => Serves(j) \/ Registers(r, j)
  <2>1. Serves(k)' => status = "active"
    <3>1. Row(k)'.key = status
      BY <1>4 DEF Row
    <3>. QED
      BY <3>1 DEF Serves, Allows
  <2>. QED
    BY <1>2, <1>4, <2>1 DEF Serves, Registers, KeyStages
<1>8. \A j \in Keys : MayStay(j) => MayStay(j)' \/ Removes(r, j)
  BY <1>2, <1>4 DEF MayStay, Removes, KeyStages
<1>. QED
  BY <1>2, <1>3, <1>4, <1>5, <1>6, <1>7, <1>8, Begun DEF UpdateKey, AccessIInv, AccessTypes

LEMMA DeleteKeyStep ==
    ASSUME AccessIInv, NEW h \in Handlers, NEW k \in Keys, DeleteKey(h, k)
    PROVE  AccessIInv'
<1>1. PICK r : r = [Idle EXCEPT !.at = "uncache", !.key = k, !.todo = {k}]
  OBVIOUS
<1>2. /\ r \in Request /\ Fits(r) /\ r.at = "uncache" /\ r.key = k /\ r.up = FALSE
      /\ r.todo = {k} /\ k # NoKey
  <2>1. k # NoKey /\ Idle \in Request
    BY IdleTyped, KeyAccessAssumption
  <2>2. /\ r.at = "uncache" /\ r.key = k /\ r.up = FALSE /\ r.todo = {k} /\ r.rest = {}
    BY <1>1 DEF Idle
  <2>3. r \in Request
    BY <1>1, <2>1 DEF Request, Stages, KeyStages, SyncStages
  <2>4. Fits(r)
    BY <2>1, <2>2 DEF Fits, KeyStages, SyncStages
  <2>. QED
    BY <2>1, <2>2, <2>3, <2>4
<1>3. Begin(h, r) /\ key[k] \in {"active", "disabled"} /\ tenant' = tenant /\ AccessTypes
  BY <1>1 DEF DeleteKey, AccessIInv
<1>4. /\ key' \in [Keys -> KeyStatus] /\ key'[k] = "deleted"
      /\ \A j \in Keys \ {k} : Row(j)' = Row(j) /\ key'[j] = key[j]
      /\ \A j \in Keys : Torn(j)' = Torn(j)
  BY <1>3, OtherRows DEF DeleteKey, KeyStatus
<1>5. \A j \in Keys : Row(j)' = Row(j) \/ Clears(r, j)
  BY <1>2, <1>4 DEF Clears
<1>6. Current(r)'
  BY <1>2, <1>4 DEF Current, KeyStages
<1>7. \A j \in Keys : Serves(j)' => Serves(j)
  <2>1. ~Serves(k)'
    <3>1. Row(k)'.key = "deleted"
      BY <1>4 DEF Row
    <3>. QED
      BY <3>1 DEF Serves, Allows
  <2>. QED
    BY <1>4, <2>1 DEF Serves
<1>8. \A j \in Keys : MayStay(j) => MayStay(j)' \/ Removes(r, j)
  BY <1>2, <1>4 DEF MayStay, Removes, KeyStages
<1>. QED
  BY <1>2, <1>3, <1>4, <1>5, <1>6, <1>7, <1>8, Begun DEF DeleteKey, AccessIInv, AccessTypes

\* What the two requests about a tenant share.
LEMMA TenantBegun ==
    ASSUME AccessIInv, NEW h \in Handlers, NEW t \in Tenants, tenant[t] # "deleted",
           Begin(h, [Idle EXCEPT !.at = "hashes", !.tenant = t]),
           key' \in [Keys -> KeyStatus], tenant' \in [Tenants -> TenantStatus],
           UNCHANGED <<cache, consumers, raced, others>>,
           \A k \in Keys : key'[k] = "absent" => key[k] = "absent",
           \A k \in Keys : TenantOf[k] # t => key'[k] = key[k],
           \A u \in Tenants \ {t} : tenant'[u] = tenant[u],
           tenant'[t] = "deleted" \/ key' = key
    PROVE  AccessIInv'
<1>1. PICK r : r = [Idle EXCEPT !.at = "hashes", !.tenant = t]
  OBVIOUS
<1>2. /\ r \in Request /\ Fits(r) /\ r.at = "hashes" /\ r.tenant = t /\ r.key = NoKey
  BY <1>1, IdleTyped, KeyAccessAssumption DEF Request, Stages, Fits, KeyStages, SyncStages, Idle
<1>3. \A k \in Keys : TenantOf[k] \in Tenants
  BY KeyAccessAssumption
<1>4. \A k \in Keys : Clears(r, k) \/ Row(k)' = Row(k)
  BY <1>2, <1>3 DEF Clears, Row
<1>5. Current(r)'
  BY <1>2 DEF Current, KeyStages
<1>6. \A k \in Keys : Serves(k)' => Serves(k) \/ Registers(r, k)
  BY <1>2, <1>4 DEF Serves, Registers, Clears
<1>7. \A k \in Keys : MayStay(k) => MayStay(k)'
  BY <1>3 DEF MayStay, Torn
<1>. QED
  BY <1>1, <1>2, <1>4, <1>5, <1>6, <1>7, Begun, KeyAccessAssumption

LEMMA UpdateTenantStep ==
    ASSUME AccessIInv, NEW h \in Handlers, NEW t \in Tenants, NEW status \in {"active", "suspended"},
           UpdateTenant(h, t, status)
    PROVE  AccessIInv'
<1>1. /\ tenant' \in [Tenants -> TenantStatus] /\ key' = key /\ key' \in [Keys -> KeyStatus]
      /\ \A u \in Tenants \ {t} : tenant'[u] = tenant[u]
  BY DEF UpdateTenant, AccessIInv, AccessTypes, TenantStatus
<1>. QED
  BY <1>1, TenantBegun DEF UpdateTenant

LEMMA DeleteTenantStep ==
    ASSUME AccessIInv, NEW h \in Handlers, NEW t \in Tenants, DeleteTenant(h, t)
    PROVE  AccessIInv'
<1>1. /\ tenant' \in [Tenants -> TenantStatus] /\ key' \in [Keys -> KeyStatus]
      /\ tenant'[t] = "deleted"
      /\ \A u \in Tenants \ {t} : tenant'[u] = tenant[u]
      /\ \A k \in Keys : /\ key'[k] = "absent" => key[k] = "absent"
                         /\ TenantOf[k] # t => key'[k] = key[k]
  BY DEF DeleteTenant, AccessIInv, AccessTypes, TenantStatus, KeyStatus
<1>. QED
  BY <1>1, TenantBegun DEF DeleteTenant

----------------------------------------------------------------------------
(* Restarts, losses and gateways.                                          *)

LEMMA RestartStep == ASSUME AccessIInv, Restart PROVE AccessIInv'
<1>1. /\ failures' \in Nat /\ failures' # 0 /\ synced' = TRUE
      /\ UNCHANGED <<key, tenant, cache, consumers, raced, fill>>
  BY DEF Restart, AccessIInv, AccessTypes
<1>2. PICK h \in Handlers :
        IF {t \in Tenants : tenant[t] = "active"} = {} THEN request' = [g \in Handlers |-> Idle]
        ELSE \E t \in {t \in Tenants : tenant[t] = "active"} :
               request' = [g \in Handlers |->
                   IF g = h THEN [Idle EXCEPT !.at = "sync", !.tenant = t, !.boot = TRUE,
                                              !.rest = {u \in Tenants : tenant[u] = "active"} \ {t}]
                   ELSE Idle]
  BY DEF Restart, Resync
<1>3. PICK r \in Request :
        /\ Fits(r) /\ r.key = NoKey /\ r.at \in {"idle", "sync"}
        /\ request' = [g \in Handlers |-> IF g = h THEN r ELSE Idle]
        /\ \A k \in Keys : tenant[TenantOf[k]] = "active" => Registers(r, k)
  <2>1. CASE {t \in Tenants : tenant[t] = "active"} = {}
    <3>1. request' = [g \in Handlers |-> IF g = h THEN Idle ELSE Idle]
      BY <1>2, <2>1
    <3>2. \A k \in Keys : tenant[TenantOf[k]] # "active"
      BY <2>1, KeyAccessAssumption
    <3>3. Idle.key = NoKey /\ Idle.at = "idle"
      BY DEF Idle
    <3>. QED
      BY <3>1, <3>2, <3>3, IdleTyped
  <2>2. CASE {t \in Tenants : tenant[t] = "active"} # {}
    <3>1. PICK t \in Tenants : /\ tenant[t] = "active"
            /\ request' = [g \in Handlers |->
                   IF g = h THEN [Idle EXCEPT !.at = "sync", !.tenant = t, !.boot = TRUE,
                                              !.rest = {u \in Tenants : tenant[u] = "active"} \ {t}]
                   ELSE Idle]
      BY <1>2, <2>2
    <3>2. PICK r : r = [Idle EXCEPT !.at = "sync", !.tenant = t, !.boot = TRUE,
                                    !.rest = {u \in Tenants : tenant[u] = "active"} \ {t}]
      OBVIOUS
    <3>3. /\ r \in Request /\ r.at = "sync" /\ r.tenant = t /\ r.key = NoKey
          /\ r.rest = {u \in Tenants : tenant[u] = "active"} \ {t}
      BY <3>2, IdleTyped DEF Request, Stages, Idle
    <3>4. Fits(r)
      BY <3>3 DEF Fits, KeyStages, SyncStages
    <3>5. \A k \in Keys : tenant[TenantOf[k]] = "active" => Registers(r, k)
      BY <3>3, KeyAccessAssumption DEF Registers
    <3>6. request' = [g \in Handlers |-> IF g = h THEN r ELSE Idle]
      BY <3>1, <3>2
    <3>. QED
      BY <3>3, <3>4, <3>5, <3>6
  <2>. QED
    BY <2>1, <2>2
<1>4. /\ request' \in [Handlers -> Request] /\ request'[h] = r
      /\ \A g \in Handlers : Fits(request'[g]) /\ request'[g].key = NoKey
      /\ \A g \in Handlers \ {h} : request'[g] = Idle /\ request'[g].at = "idle"
  BY <1>3, IdleTyped DEF Idle
<1>5. AccessTypes'
  BY <1>1, <1>4 DEF AccessIInv, AccessTypes
<1>6. AbsentUnknown'
  BY <1>1, <1>4, KeyAccessAssumption DEF AccessIInv, AbsentUnknown
<1>7. CacheFollows'
  BY <1>1 DEF CacheFollows
<1>8. ConsumersFollow'
  <2>1. \A f, g \in Handlers : ~At(f, "idle")' /\ ~At(g, "idle")' => f = g
    BY <1>4 DEF At
  <2>2. \A g \in Handlers : request'[g].key = NoKey /\ request'[g].at \in {"idle", "sync"}
    BY <1>3, <1>4
  <2>3. \A g \in Handlers : Current(request[g])'
    BY <2>2, KeyAccessAssumption DEF Current, KeyStages
  <2>4. ASSUME NEW k \in Keys, Serves(k)'
        PROVE  \E g \in Handlers : Registers(request'[g], k)
    <3>1. tenant[TenantOf[k]] = "active"
      BY <1>1, <1>5, <2>4, ServesBoth DEF AccessIInv, Serves, Row
    <3>. QED
      BY <1>3, <1>4, <3>1
  <2>. QED
    BY <1>1, <2>1, <2>3, <2>4 DEF ConsumersFollow
<1>. QED
  BY <1>5, <1>6, <1>7, <1>8 DEF AccessIInv

LEMMA WipeStep == ASSUME AccessIInv, Wipe PROVE AccessIInv'
<1>1. AccessTypes' /\ AbsentUnknown'
  BY DEF Wipe, AccessIInv, AccessTypes, AbsentUnknown
<1>2. CacheFollows'
  BY DEF Wipe, AccessIInv, CacheFollows, Follows, Row
<1>3. ConsumersFollow'
  BY DEF Wipe, ConsumersFollow
<1>. QED
  BY <1>1, <1>2, <1>3 DEF AccessIInv

\* The consumers do not depend on the gateways.
LEMMA GatewaySteps ==
    ASSUME AccessIInv, UNCHANGED <<key, tenant, consumers, request, synced, failures>>
    PROVE  ConsumersFollow'
BY DEF AccessIInv, ConsumersFollow, Current, Serves, MayStay, Torn, Row, At

LEMMA MissStep ==
    ASSUME AccessIInv, NEW g \in Gateways, NEW k \in Keys, Miss(g, k)
    PROVE  AccessIInv'
<1>1. /\ fill' \in [Gateways -> [key : Keys \cup {NoKey}, entry : Entry \cup {NoEntry}]]
      /\ fill'[g].key = k /\ fill'[g].entry \in Entry
      /\ \A f \in Gateways \ {g} : fill'[f] = fill[f]
  BY RowTyped DEF Miss, AccessIInv, AccessTypes
<1>2. AccessTypes'
  BY <1>1 DEF Miss, AccessIInv, AccessTypes
<1>3. AbsentUnknown'
  BY <1>1 DEF Miss, AccessIInv, AbsentUnknown
<1>4. CacheFollows'
  BY DEF Miss, AccessIInv, CacheFollows, Follows, Row
<1>. QED
  BY <1>2, <1>3, <1>4, GatewaySteps DEF AccessIInv, Miss

LEMMA FillStep ==
    ASSUME AccessIInv, NEW g \in Gateways, Fill(g)
    PROVE  AccessIInv'
<1>1. PICK k \in Keys : k = fill[g].key
  BY DEF Fill, AccessIInv, AccessTypes
<1>2. PICK e \in Entry : e = fill[g].entry
  BY DEF Fill, AccessIInv, AccessTypes
<1>3. Put(k, e) /\ key[k] # "absent"
  BY <1>1, <1>2 DEF Fill, AccessIInv, AbsentUnknown
<1>4. CacheFollows' /\ cache' \in [Keys -> Entry \cup {NoEntry}] /\ raced' \subseteq Keys
  BY <1>3, CachePut DEF Fill, AccessIInv
<1>5. /\ fill' \in [Gateways -> [key : Keys \cup {NoKey}, entry : Entry \cup {NoEntry}]]
      /\ fill'[g].key = NoKey
      /\ \A f \in Gateways \ {g} : fill'[f] = fill[f]
  BY DEF Fill, AccessIInv, AccessTypes
<1>6. AccessTypes'
  BY <1>4, <1>5 DEF Fill, AccessIInv, AccessTypes
<1>7. AbsentUnknown'
  <2>1. \A j \in Keys \ {k} : cache'[j] = cache[j]
    BY <1>3 DEF Put, AccessIInv, AccessTypes
  <2>. QED
    BY <1>3, <1>5, <2>1, KeyAccessAssumption DEF Fill, AccessIInv, AbsentUnknown
<1>. QED
  BY <1>4, <1>6, <1>7, GatewaySteps DEF AccessIInv, Fill

LEMMA FillRaisesStep ==
    ASSUME AccessIInv, NEW g \in Gateways, FillRaises(g)
    PROVE  AccessIInv'
<1>1. /\ fill' \in [Gateways -> [key : Keys \cup {NoKey}, entry : Entry \cup {NoEntry}]]
      /\ fill'[g].key = NoKey
      /\ \A f \in Gateways \ {g} : fill'[f] = fill[f]
  BY DEF FillRaises, AccessIInv, AccessTypes
<1>2. AccessTypes'
  BY <1>1 DEF FillRaises, AccessIInv, AccessTypes
<1>3. AbsentUnknown'
  BY <1>1, KeyAccessAssumption DEF FillRaises, AccessIInv, AbsentUnknown
<1>4. CacheFollows'
  BY DEF FillRaises, AccessIInv, CacheFollows, Follows, Row
<1>. QED
  BY <1>2, <1>3, <1>4, GatewaySteps DEF AccessIInv, FillRaises

LEMMA ExpireStep ==
    ASSUME AccessIInv, NEW k \in Keys, Expire(k)
    PROVE  AccessIInv'
<1>1. CacheFollows' /\ cache' \in [Keys -> Entry \cup {NoEntry}] /\ raced' \subseteq Keys
  BY CacheDrop DEF Expire, AccessIInv
<1>2. AccessTypes'
  BY <1>1 DEF Expire, AccessIInv, AccessTypes
<1>3. AbsentUnknown'
  <2>1. \A j \in Keys : cache'[j] \in {cache[j], NoEntry}
    BY DEF Expire, Drop, AccessIInv, AccessTypes
  <2>. QED
    BY <2>1 DEF Expire, AccessIInv, AbsentUnknown
<1>. QED
  BY <1>1, <1>2, <1>3, GatewaySteps DEF AccessIInv, Expire

----------------------------------------------------------------------------
LEMMA AccessStep == AccessIInv /\ [AccessNext]_accessVars => AccessIInv'
<1>. SUFFICES ASSUME AccessIInv, [AccessNext]_accessVars PROVE AccessIInv'
  OBVIOUS
<1>1. ASSUME NEW h \in Handlers, Arrive(h) PROVE AccessIInv'
  BY <1>1, CreateKeyStep, UpdateKeyStep, DeleteKeyStep, UpdateTenantStep, DeleteTenantStep
     DEF Arrive
<1>2. ASSUME NEW h \in Handlers, Proceed(h) PROVE AccessIInv'
  BY <1>2, RefreshReadStep, RefreshRaisesStep, RefreshStoreStep, RegisterStep, SetConsumerStep,
     ListHashesStep, UncachedStep, SyncReadStep, SyncKeysStep, SyncPlanStep, SyncDoneStep,
     UncacheStep, SyncConsumerStep
     DEF Proceed
<1>3. ASSUME UNCHANGED accessVars PROVE AccessIInv'
  <2>1. AccessTypes' /\ AbsentUnknown'
    BY <1>3 DEF accessVars, AccessIInv, AccessTypes, AbsentUnknown
  <2>2. CacheFollows'
    BY <1>3 DEF accessVars, AccessIInv, CacheFollows, Follows, Row
  <2>. QED
    BY <1>3, <2>1, <2>2, GatewaySteps DEF AccessIInv, accessVars
<1>. QED
  BY <1>1, <1>2, <1>3, ApisixFailsStep, FillStep, FillRaisesStep, MissStep, ExpireStep,
     RestartStep, WipeStep
     DEF AccessNext

\* With no handler under way, nothing is left to correct.
LEMMA AccessFollows == AccessIInv => AccessInv
<1>. SUFFICES ASSUME AccessIInv PROVE AccessInv
  OBVIOUS
<1>1. AccessTypeOK
  BY DEF AccessIInv, AccessTypes, AccessTypeOK, Request
<1>2. Quiet => \A h \in Handlers : \A k \in Keys :
        /\ ~Clears(request[h], k) /\ ~Rewrites(request[h], k)
        /\ ~Registers(request[h], k) /\ ~Removes(request[h], k)
  BY DEF Quiet, At, AccessIInv, AccessTypes, Fits, Clears, Rewrites, Registers, Removes,
         KeyStages, SyncStages
<1>3. StaleOnlyByRace
  BY <1>2 DEF StaleOnlyByRace, AccessIInv, CacheFollows, Follows
<1>4. ActiveKeysServed
  BY <1>2 DEF ActiveKeysServed, AccessIInv, ConsumersFollow, Serves
<1>5. OnlyActiveServed
  BY <1>2 DEF OnlyActiveServed, AccessIInv, AccessTypes, ConsumersFollow, MayStay, Torn
<1>. QED
  BY <1>1, <1>3, <1>4, <1>5 DEF AccessInv

(* What the tables say of a key, the cache says but for a race of a        *)
(* gateway, and APISIX as soon as no request is under way, for any keys,   *)
(* tenants, control-plane requests and gateways, through failed calls,     *)
(* restarts and losses of APISIX's etcd (control_plane.py, usage.py,       *)
(* apisix_admin.py).                                                       *)
THEOREM AccessInvariant == AccessSpec => []AccessInv
<1>1. AccessSpec => []AccessIInv
  BY InitIInv, AccessStep, PTL DEF AccessSpec
<1>. QED
  BY <1>1, AccessFollows, PTL
================================================================================

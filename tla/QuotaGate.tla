------------------------------ MODULE QuotaGate ------------------------------
(***************************************************************************)
(* The metered path of the reference gateway: billing/gateway.py `proxy`   *)
(* from its rps check to the usage event, over the Redis counters of       *)
(* billing/usage.py.  Gateway replicas are stateless, so a replica is      *)
(* nothing but the requests it is serving: each request is a process whose *)
(* program counter stands between two awaits of the handler, and all of    *)
(* them share the Redis counters.                                          *)
(*                                                                         *)
(* Abstracted: milli-credits are small naturals; the key has already been  *)
(* resolved and authorized (see KeyAccess); the content of a request is    *)
(* the key it presents, and its path decides, nondeterministically,        *)
(* whether it is free and what weight it is priced at; the usage list is   *)
(* the set of requests whose event is on it.                               *)
(***************************************************************************)
EXTENDS Integers, FiniteSets, FiniteSetsExt

CONSTANTS
    Requests,        \* the requests served by all gateway replicas
    Keys,            \* API keys
    Tenants,
    KeyOf,           \* the key a request presents
    TenantOf,        \* the tenant that owns a key
    CapMilli,        \* hard cap of a tenant in milli-credits, 0 = soft plan
    Rps,             \* plan rps cap of a tenant, 0 = uncapped
    Weights,         \* milli-credits a request may be priced at
    LastTick,        \* bound: the clock stops here
    TicksPerPeriod,  \* seconds ("ticks") in a billing period
    MaxEvictions     \* bound: counters Redis evicts

ASSUME QuotaGateAssumption ==
    /\ KeyOf \in [Requests -> Keys]
    /\ TenantOf \in [Keys -> Tenants]
    /\ CapMilli \in [Tenants -> Nat]
    /\ Rps \in [Tenants -> Nat]
    /\ Weights \subseteq Nat
    /\ IsFiniteSet(Requests) /\ IsFiniteSet(Keys)
    /\ LastTick \in Nat
    /\ TicksPerPeriod \in Nat \ {0}
    /\ MaxEvictions \in Nat

VARIABLES
    clock,      \* seconds since the start of the model
    burst,      \* Redis rps:<tenant>:<second>
    live,       \* Redis live counter of <tenant, period>, milli-credits
    keyLive,    \* Redis live counter of <key, period>
    events,     \* requests whose usage event has been pushed
    evictions,  \* counters evicted so far
    pc,         \* where each request's handler stands
    second,     \* the second its rps slot was taken in
    period,     \* the period it read from the clock
    milli,      \* the weight it was priced at
    seen,       \* the counter value its transaction read
    clean       \* its WATCHed counter is untouched since the WATCH

counterVars == <<burst, live, keyLive, events, evictions>>
vars == <<clock, counterVars, pc, second, period, milli, seen, clean>>

Ticks   == 0 .. LastTick
Periods == {s \div TicksPerPeriod : s \in Ticks}
Now     == clock \div TicksPerPeriod

Tenant(r)  == TenantOf[KeyOf[r]]
Account(r) == <<Tenant(r), period[r]>>
KeyAccount(r) == <<KeyOf[r], period[r]>>

Answered == {"free", "limited", "refused", "refunded", "metered", "crashed", "leaked"}
Charged  == {"reserved", "failed", "served", "keyed", "metered", "leaked"}
Stages   == {"arrived", "admitted", "priced", "watching", "multi"}
                \cup Charged \cup Answered

Init ==
    /\ clock = 0
    /\ burst = [a \in Tenants \X Ticks |-> 0]
    /\ live = [a \in Tenants \X Periods |-> 0]
    /\ keyLive = [a \in Keys \X Periods |-> 0]
    /\ events = {}
    /\ evictions = 0
    /\ pc = [r \in Requests |-> "arrived"]
    /\ second = [r \in Requests |-> 0]
    /\ period = [r \in Requests |-> 0]
    /\ milli = [r \in Requests |-> 0]
    /\ seen = [r \in Requests |-> 0]
    /\ clean = [r \in Requests |-> FALSE]

Goto(r, from, to) == pc[r] = from /\ pc' = [pc EXCEPT ![r] = to]

\* Mutant of AddLive: the WATCH is on another key, so no write is noticed.
AddLiveUnwatched(a, n) == live' = [live EXCEPT ![a] = @ + n] /\ clean' = clean

(* Every write to a counter invalidates the WATCH of whoever watches it.   *)
AddLive(a, n) ==
    /\ live' = [live EXCEPT ![a] = @ + n]
    /\ clean' = [r \in Requests |-> clean[r] /\ Account(r) # a]

----------------------------------------------------------------------------
(* The handler of one request.                                             *)

\* A path of config.FREE_ENDPOINTS is proxied without quota or metering.
FreePass(r) ==
    /\ Goto(r, "arrived", "free")
    /\ UNCHANGED <<clock, counterVars, second, period, milli, seen, clean>>

\* The plan has no rps cap: nothing is counted.
SkipRps(r) ==
    /\ Rps[Tenant(r)] = 0
    /\ Goto(r, "arrived", "admitted")
    /\ UNCHANGED <<clock, counterVars, second, period, milli, seen, clean>>

\* Mutant of RpsAllows: the value before the INCR is compared.
RpsAllowsBefore(n, rps) == n - 1 <= rps

\* allow_rps compares the value INCR returned.
RpsAllows(n, rps) == n <= rps

\* allow_rps: INCR of the counter of the current second.
AllowRps(r) ==
    LET slot == <<Tenant(r), clock>> IN
    /\ Rps[Tenant(r)] > 0
    /\ Goto(r, "arrived",
            IF RpsAllows(burst[slot] + 1, Rps[Tenant(r)]) THEN "admitted" ELSE "limited")
    /\ burst' = [burst EXCEPT ![slot] = @ + 1]
    /\ second' = [second EXCEPT ![r] = clock]
    /\ UNCHANGED <<clock, live, keyLive, events, evictions, period, milli, seen, clean>>

\* now_parts, then the weight: from here on the request belongs to a period.
Price(r) ==
    /\ Goto(r, "admitted", "priced")
    /\ period' = [period EXCEPT ![r] = Now]
    /\ \E w \in Weights : milli' = [milli EXCEPT ![r] = w]
    /\ UNCHANGED <<clock, counterVars, second, seen, clean>>

\* incr_tenant_if_allowed with cap_milli <= 0: a plain INCRBY.
ReserveSoft(r) ==
    /\ CapMilli[Tenant(r)] = 0
    /\ Goto(r, "priced", "reserved")
    /\ AddLive(Account(r), milli[r])
    /\ UNCHANGED <<clock, burst, keyLive, events, evictions, second, period, milli, seen>>

\* WATCH of the tenant counter.
Watch(r) ==
    /\ CapMilli[Tenant(r)] > 0
    /\ Goto(r, "priced", "watching")
    /\ clean' = [clean EXCEPT ![r] = TRUE]
    /\ UNCHANGED <<clock, counterVars, second, period, milli, seen>>

\* GET of the counter and the decision taken on the value read.
ReadCounter(r) ==
    LET cur == live[Account(r)] IN
    /\ Goto(r, "watching",
            IF cur + milli[r] > CapMilli[Tenant(r)] THEN "refused" ELSE "multi")
    /\ seen' = [seen EXCEPT ![r] = cur]
    /\ UNCHANGED <<clock, counterVars, second, period, milli, clean>>

\* MULTI / INCRBY / EXEC: runs only if the counter was not touched.
Exec(r) ==
    /\ clean[r]
    /\ Goto(r, "multi", "reserved")
    /\ AddLive(Account(r), milli[r])
    /\ UNCHANGED <<clock, burst, keyLive, events, evictions, second, period, milli, seen>>

\* Mutant of Retry: re-reads without a new WATCH.
RetryUnwatched(r) ==
    /\ ~clean[r]
    /\ Goto(r, "multi", "watching")
    /\ UNCHANGED <<clock, counterVars, second, period, milli, seen, clean>>

\* WatchError: somebody touched the counter, start over with a new WATCH.
Retry(r) ==
    /\ ~clean[r]
    /\ Goto(r, "multi", "priced")
    /\ UNCHANGED <<clock, counterVars, second, period, milli, seen, clean>>

\* The upstream answers, with a status below 400 or not (502 on HTTPError).
Forward(r) ==
    /\ \E outcome \in {"served", "failed"} : Goto(r, "reserved", outcome)
    /\ UNCHANGED <<clock, counterVars, second, period, milli, seen, clean>>

\* Mutant of Refund: the period is read again from the clock.
RefundNow(r) ==
    /\ Goto(r, "failed", "refunded")
    /\ AddLive(<<Tenant(r), Now>>, 0 - milli[r])
    /\ UNCHANGED <<clock, burst, keyLive, events, evictions, second, period, milli, seen>>

\* An unserved request gives its credits back to the period it took them from.
Refund(r) ==
    /\ Goto(r, "failed", "refunded")
    /\ AddLive(Account(r), 0 - milli[r])
    /\ UNCHANGED <<clock, burst, keyLive, events, evictions, second, period, milli, seen>>

\* Mutant of CountKey: the key counter of the current period.
CountKeyNow(r) ==
    /\ Goto(r, "served", "keyed")
    /\ keyLive' = [keyLive EXCEPT ![<<KeyOf[r], Now>>] = @ + milli[r]]
    /\ UNCHANGED <<clock, burst, live, events, evictions, second, period, milli, seen, clean>>

\* incr_key.
CountKey(r) ==
    /\ Goto(r, "served", "keyed")
    /\ keyLive' = [keyLive EXCEPT ![KeyAccount(r)] = @ + milli[r]]
    /\ UNCHANGED <<clock, burst, live, events, evictions, second, period, milli, seen, clean>>

\* push_event.
PushEvent(r) ==
    /\ Goto(r, "keyed", "metered")
    /\ events' = events \cup {r}
    /\ UNCHANGED <<clock, burst, live, keyLive, evictions, second, period, milli, seen, clean>>

Step(r) ==
    \/ FreePass(r)    \/ SkipRps(r) \/ AllowRps(r) \/ Price(r)
    \/ ReserveSoft(r) \/ Watch(r)   \/ ReadCounter(r)
    \/ Exec(r)        \/ Retry(r)
    \/ Forward(r)     \/ Refund(r)  \/ CountKey(r) \/ PushEvent(r)

----------------------------------------------------------------------------
(* The environment.                                                        *)

\* The replica dies, or a Redis call raises: the handler goes no further.
\* Credits it holds stay taken ("leaked").
Crash(r) ==
    /\ pc[r] \notin Answered
    /\ pc' = [pc EXCEPT ![r] = IF pc[r] \in Charged THEN "leaked" ELSE "crashed"]
    /\ UNCHANGED <<clock, counterVars, second, period, milli, seen, clean>>

Tick ==
    /\ clock < LastTick
    /\ clock' = clock + 1
    /\ UNCHANGED <<counterVars, pc, second, period, milli, seen, clean>>

\* The shared Redis is non-persistent and LRU: a counter may vanish.
Evict(t, p) ==
    /\ evictions < MaxEvictions
    /\ live[<<t, p>>] # 0
    /\ evictions' = evictions + 1
    /\ AddLive(<<t, p>>, 0 - live[<<t, p>>])
    /\ UNCHANGED <<clock, burst, keyLive, events, pc, second, period, milli, seen>>

Next ==
    \/ \E r \in Requests : Step(r) \/ Crash(r)
    \/ Tick
    \/ \E t \in Tenants, p \in Periods : Evict(t, p)

Spec == Init /\ [][Next]_vars

(* A handler that is not killed runs on: the event loop schedules every    *)
(* coroutine whose await has completed.  Nothing forces the clock, a crash *)
(* or an eviction.                                                         *)
FairSpec == Spec /\ \A r \in Requests : WF_vars(Step(r))

----------------------------------------------------------------------------
TypeOK ==
    /\ clock \in Ticks
    /\ burst \in [Tenants \X Ticks -> Nat]
    /\ live \in [Tenants \X Periods -> Int]
    /\ keyLive \in [Keys \X Periods -> Nat]
    /\ events \subseteq Requests
    /\ evictions \in 0 .. MaxEvictions
    /\ pc \in [Requests -> Stages]
    /\ second \in [Requests -> Ticks]
    /\ period \in [Requests -> Periods]
    /\ milli \in [Requests -> Nat]
    /\ seen \in [Requests -> Int]
    /\ clean \in [Requests -> BOOLEAN]

(* The counter of a hard-capped tenant never exceeds its cap, whatever     *)
(* handlers run between a WATCH and its EXEC (incr_tenant_if_allowed).     *)
HardCap ==
    \A t \in Tenants, p \in Periods :
        CapMilli[t] > 0 => live[<<t, p>>] <= CapMilli[t]

(* What makes HardCap inductive: a transaction that may still commit has   *)
(* read the counter's current value and fits under the cap.                *)
CommitFits ==
    \A r \in Requests :
        pc[r] = "multi" =>
            /\ CapMilli[Tenant(r)] > 0
            /\ seen[r] + milli[r] <= CapMilli[Tenant(r)]
            /\ clean[r] => seen[r] = live[Account(r)]

(* A request that watches, and so may take the counter up, is capped.      *)
WatchersCapped ==
    \A r \in Requests : pc[r] = "watching" => CapMilli[Tenant(r)] > 0

HardCapInv == TypeOK /\ HardCap /\ CommitFits /\ WatchersCapped

MilliOf(rs) == SumFunctionOnSet(milli, rs)

(* While Redis keeps its keys, a tenant's counter is exactly the credits   *)
(* of the requests it was charged for and not refunded, in the period each *)
(* was priced in: no refund is doubled, missed, or put in another month.   *)
CounterAccounts ==
    evictions = 0 =>
    \A t \in Tenants, p \in Periods :
        live[<<t, p>>] =
            MilliOf({r \in Requests : pc[r] \in Charged /\ Account(r) = <<t, p>>})

(* While Redis keeps its keys billing never runs ahead of the counters:    *)
(* per tenant and period, events pushed sum to at most the per-key         *)
(* counters, and those to at most the one that enforces the quota.         *)
EventsWithinCounters ==
    evictions = 0 =>
    \A t \in Tenants, p \in Periods :
        LET keyed == SumFunctionOnSet([k \in Keys |-> keyLive[<<k, p>>]],
                                      {k \in Keys : TenantOf[k] = t})
        IN  /\ MilliOf({r \in events : Account(r) = <<t, p>>}) <= keyed
            /\ keyed <= live[<<t, p>>]

(* No second lets through more requests of a tenant than its plan's rps,   *)
(* however the replicas interleave.                                        *)
BurstCap ==
    \A t \in Tenants, s \in Ticks :
        Rps[t] > 0 =>
            Cardinality({r \in Requests :
                            /\ Tenant(r) = t /\ second[r] = s
                            /\ pc[r] \notin {"arrived", "free", "limited", "crashed"}}) <= Rps[t]

(* The counters are right: exact, ahead of the events, and within the rps. *)
CountersInv == CounterAccounts /\ EventsWithinCounters /\ BurstCap

(* The optimistic retry loop is lock-free: every request is answered, the  *)
(* WATCH conflicts of others notwithstanding.                              *)
EveryRequestAnswered == \A r \in Requests : <>(pc[r] \in Answered)

============================================================================

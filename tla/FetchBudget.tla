------------------------------ MODULE FetchBudget ------------------------------
(***************************************************************************)
(* Traffic fetched on demand (routing.py): a /route request asks a paid    *)
(* provider for the stretches of its legs that have no live speed, under   *)
(* a cap per request and a budget per day that all requests of all workers *)
(* count in Redis, read before the calls and increased after them.         *)
(*                                                                         *)
(* A leg is the number of windows it is missing; which edges a window has  *)
(* is RouteTraffic's, what becomes of the speeds is TrafficSpeeds'.        *)
(***************************************************************************)
EXTENDS Integers, FiniteSets, FiniteSetsExt

CONSTANTS
    Requests,      \* /route requests, of any worker
    MaxCalls,      \* TRAFFIC_FETCH_MAX_CALLS
    DailyBudget,   \* TRAFFIC_FETCH_DAILY_BUDGET
    MaxLegs,       \* bound: legs of a trip
    MaxWindows,    \* bound: windows a leg is missing
    LastDay,       \* bound: days
    MaxRedisErrors \* bound: errors of Redis

ASSUME FetchBudgetAssumption ==
    /\ {MaxCalls, DailyBudget, MaxWindows, MaxLegs} \subseteq Nat \ {0}
    /\ {LastDay, MaxRedisErrors} \subseteq Nat
    /\ IsFiniteSet(Requests) /\ Requests # {}

VARIABLES
    day,
    used,     \* tf:budget:{day}
    called,   \* calls made, by the day they are booked on
    trip,     \* where each request is
    redisErrors

fetchVars == <<day, used, called, trip, redisErrors>>

Days == 0 .. LastDay

\* `left` is fetch_budget, `mine` provider_calls; `windows` and `booked` are
\* of the leg at hand.
NewTrip == [at |-> "new", legs |-> 0, left |-> MaxCalls, mine |-> 0,
            windows |-> 0, key |-> 0, calls |-> 0]

FetchInit ==
    /\ day = 0
    /\ used = [d \in Days |-> 0]
    /\ called = [d \in Days |-> 0]
    /\ trip = [r \in Requests |-> NewTrip]
    /\ redisErrors = 0

----------------------------------------------------------------------------
\* A route; legs that miss nothing stand for those it does not have.
StartTrip(r) ==
    /\ trip[r].at = "new"
    /\ trip' = [trip EXCEPT ![r].at = "leg", ![r].legs = MaxLegs]
    /\ UNCHANGED <<day, used, called, redisErrors>>

\* The next leg that misses something, after the live speeds and the negative
\* marks were read; a Redis error there shows as more windows.
NextLeg(r) ==
    /\ trip[r].at = "leg" /\ trip[r].legs > 0 /\ trip[r].left > 0
    /\ \E n \in 1 .. MaxWindows :
         trip' = [trip EXCEPT ![r].at = "budget", ![r].legs = @ - 1, ![r].windows = n]
    /\ UNCHANGED <<day, used, called, redisErrors>>

\* A leg that is covered, or that there is nothing left to fetch for.
CoveredLeg(r) ==
    /\ trip[r].at = "leg" /\ trip[r].legs > 0
    /\ trip' = [trip EXCEPT ![r].legs = @ - 1]
    /\ UNCHANGED <<day, used, called, redisErrors>>

\* Mutant of Granted: the budget only says whether there are calls at all.
GrantedUncut(r, n) == IF n < DailyBudget THEN Min({trip[r].windows, trip[r].left}) ELSE 0

\* The windows that are kept, of a counter that reads n.
Granted(r, n) == Min({trip[r].windows, trip[r].left, DailyBudget - n})

Proceed(r, n) ==
    trip' = [trip EXCEPT ![r].at = IF Granted(r, n) > 0 THEN "calling" ELSE "leg",
                         ![r].key = day,
                         ![r].calls = IF Granted(r, n) > 0 THEN Granted(r, n) ELSE 0]

ReadBudget(r) ==
    /\ trip[r].at = "budget"
    /\ Proceed(r, used[day])
    /\ UNCHANGED <<day, used, called, redisErrors>>

\* Without an answer the budget counts as untouched.
ReadBudgetFails(r) ==
    /\ trip[r].at = "budget" /\ redisErrors < MaxRedisErrors
    /\ Proceed(r, 0)
    /\ redisErrors' = redisErrors + 1
    /\ UNCHANGED <<day, used, called>>

\* One call per window, all at once; a window without a middle is left out.
CallProvider(r) ==
    /\ trip[r].at = "calling"
    /\ \E n \in 0 .. trip[r].calls :
         /\ called' = [called EXCEPT ![trip[r].key] = @ + n]
         /\ trip' = [trip EXCEPT ![r].at = IF n = 0 THEN "leg" ELSE "booking", ![r].calls = n]
    /\ UNCHANGED <<day, used, redisErrors>>

Settle(r) ==
    trip' = [trip EXCEPT ![r].at = "leg", ![r].left = @ - trip[r].calls,
                         ![r].mine = @ + trip[r].calls]

\* Mutant of BookCalls: one call per leg is booked.
BookOne(r) ==
    /\ trip[r].at = "booking"
    /\ used' = [used EXCEPT ![trip[r].key] = @ + 1]
    /\ Settle(r)
    /\ UNCHANGED <<day, called, redisErrors>>

\* INCRBY of the key of the day the budget was read on.
BookCalls(r) ==
    /\ trip[r].at = "booking"
    /\ used' = [used EXCEPT ![trip[r].key] = @ + trip[r].calls]
    /\ Settle(r)
    /\ UNCHANGED <<day, called, redisErrors>>

\* The pipeline fails: the calls were made and stay unbooked.
BookingFails(r) ==
    /\ trip[r].at = "booking" /\ redisErrors < MaxRedisErrors
    /\ Settle(r)
    /\ redisErrors' = redisErrors + 1
    /\ UNCHANGED <<day, used, called>>

EndTrip(r) ==
    /\ trip[r].at = "leg" /\ trip[r].legs = 0
    /\ trip' = [trip EXCEPT ![r] = NewTrip]
    /\ UNCHANGED <<day, used, called, redisErrors>>

NewDay ==
    /\ day < LastDay
    /\ day' = day + 1
    /\ UNCHANGED <<used, called, trip, redisErrors>>

FetchNext ==
    \/ \E r \in Requests :
         \/ StartTrip(r) \/ NextLeg(r) \/ CoveredLeg(r) \/ ReadBudget(r) \/ ReadBudgetFails(r)
         \/ CallProvider(r) \/ BookCalls(r) \/ BookingFails(r) \/ EndTrip(r)
    \/ NewDay

FetchSpec == FetchInit /\ [][FetchNext]_fetchVars

----------------------------------------------------------------------------
FetchTypeOK ==
    /\ day \in Days
    /\ used \in [Days -> Nat] /\ called \in [Days -> Nat]
    /\ trip \in [Requests -> [at : {"new", "leg", "budget", "calling", "booking"},
                              legs : 0 .. MaxLegs, left : 0 .. MaxCalls, mine : 0 .. MaxCalls,
                              windows : 0 .. MaxWindows, key : Days, calls : 0 .. MaxCalls]]
    /\ redisErrors \in 0 .. MaxRedisErrors

\* What requests have called for and not booked yet.
Unbooked(d) == {r \in Requests : trip[r].key = d /\ trip[r].at = "booking"}
Pending(d)  == SumFunctionOnSet([r \in Requests |-> trip[r].calls], Unbooked(d))

(* A request never makes more than MaxCalls calls over all of its legs     *)
(* (the type of `mine`), and as long as Redis answers every call is booked *)
(* or about to be, on the day whose budget allowed it.                     *)
CallsBooked == redisErrors = 0 => \A d \in Days : called[d] = used[d] + Pending(d)

(* All requests together overdraw a day's budget by what the others were   *)
(* at: MaxCalls for every request but one, whatever the order of their     *)
(* reads and bookings.                                                     *)
OverdraftBounded ==
    redisErrors = 0 =>
        \A d \in Days : called[d] <= DailyBudget + (Cardinality(Requests) - 1) * MaxCalls

(* Calls are booked, and a budget is overdrawn by so much only.            *)
FetchInv == FetchTypeOK /\ CallsBooked /\ OverdraftBounded

(* "capped by max_calls and the daily budget".                             *)
DailyCap == redisErrors = 0 => \A d \in Days : called[d] <= DailyBudget
===============================================================================

---------------------------- MODULE Serving_proofs ----------------------------
(***************************************************************************)
(* How the API serves: the metered gateway in front of it, for any         *)
(* requests, keys and tenants, any caps, weights and clock; a place's      *)
(* document, for any messages, any polygons around it and any replicas;    *)
(* the autocomplete index, for any places, clicks and warm-ups; and the    *)
(* pages of /nearby, for any index, page size and clients.                 *)
(***************************************************************************)
EXTENDS QuotaGate, PlaceDocument, SuggestIndex, NearbyScroll, Sums_proofs

----------------------------------------------------------------------------
(* The metered gateway.                                                    *)

(* The period read from the clock is one of the periods.                   *)
LEMMA NowIsPeriod == ASSUME clock \in Ticks PROVE Now \in Periods
BY DEF Now, Periods

(* What AddLive does to the counters, given their types: the account gets  *)
(* the amount, the others keep theirs, and its watchers are invalidated.   *)
LEMMA AddLiveFacts ==
    ASSUME live \in [Tenants \X Periods -> Int], NEW a \in Tenants \X Periods,
           NEW n \in Int, clean \in [Requests -> BOOLEAN], AddLive(a, n)
    PROVE  /\ live' \in [Tenants \X Periods -> Int]
           /\ live'[a] = live[a] + n
           /\ \A b \in Tenants \X Periods : b # a => live'[b] = live[b]
           /\ clean' \in [Requests -> BOOLEAN]
           /\ \A r \in Requests : clean'[r] => clean[r] /\ Account(r) # a
<1>1. /\ live' \in [Tenants \X Periods -> Int]
      /\ live'[a] = live[a] + n
      /\ \A b \in Tenants \X Periods : b # a => live'[b] = live[b]
  BY DEF AddLive
<1>2. clean' = [r \in Requests |-> clean[r] /\ Account(r) # a]
  BY DEF AddLive
<1>3. \A r \in Requests : (clean[r] /\ Account(r) # a) \in BOOLEAN
  BY Zenon
<1>4. clean' \in [Requests -> BOOLEAN]
  BY <1>2, <1>3, Zenon
<1>5. \A r \in Requests : clean'[r] => clean[r] /\ Account(r) # a
  BY <1>2, Zenon
<1>. QED
  BY <1>1, <1>4, <1>5, Zenon

(* An account named by a request, or by its key, is one of the counters.   *)
LEMMA AccountTypes ==
    ASSUME TypeOK, NEW r \in Requests
    PROVE  /\ Tenant(r) \in Tenants
           /\ Account(r) \in Tenants \X Periods
           /\ KeyAccount(r) \in Keys \X Periods
BY QuotaGateAssumption DEF TypeOK, Tenant, Account, KeyAccount

LEMMA InitHardCapInv == Init => HardCapInv
<1> SUFFICES ASSUME Init PROVE HardCapInv
  OBVIOUS
<1> USE QuotaGateAssumption DEF Init
<1>0. 0 \in Ticks /\ 0 \in Periods
  <2>1. 0 \in Ticks
    BY DEF Ticks
  <2>2. 0 \div TicksPerPeriod = 0
    OBVIOUS
  <2>. QED
    BY <2>1, <2>2 DEF Periods
<1>1. TypeOK
  BY <1>0 DEF TypeOK, Stages
<1>2. HardCap
  BY DEF HardCap
<1>3. CommitFits /\ WatchersCapped
  BY DEF CommitFits, WatchersCapped
<1>. QED
  BY <1>1, <1>2, <1>3 DEF HardCapInv

(* No step leaves the types.                                               *)
LEMMA NextTypeOK == TypeOK /\ [Next]_vars => TypeOK'
<1> SUFFICES ASSUME TypeOK, [Next]_vars PROVE TypeOK'
  OBVIOUS
<1> USE QuotaGateAssumption
<1>1. ASSUME NEW r \in Requests, Step(r) PROVE TypeOK'
  <2>0. /\ Tenant(r) \in Tenants
        /\ Account(r) \in Tenants \X Periods
        /\ KeyAccount(r) \in Keys \X Periods
    BY AccountTypes
  <2>1. CASE FreePass(r)
    BY <2>1 DEF FreePass, Goto, TypeOK, counterVars, Stages, Answered
  <2>2. CASE SkipRps(r)
    BY <2>2 DEF SkipRps, Goto, TypeOK, counterVars, Stages
  <2>3. CASE AllowRps(r)
    BY <2>0, <2>3 DEF AllowRps, Goto, TypeOK, Stages, Answered
  <2>4. CASE Price(r)
    BY <2>4, NowIsPeriod DEF Price, Goto, TypeOK, counterVars, Stages
  <2>5. CASE ReserveSoft(r)
    <3>1. /\ live' \in [Tenants \X Periods -> Int]
          /\ clean' \in [Requests -> BOOLEAN]
      BY <2>0, <2>5, AddLiveFacts DEF ReserveSoft, TypeOK
    <3>. QED
      BY <2>5, <3>1 DEF ReserveSoft, Goto, TypeOK, Stages, Charged
  <2>6. CASE Watch(r)
    BY <2>6 DEF Watch, Goto, TypeOK, counterVars, Stages
  <2>7. CASE ReadCounter(r)
    BY <2>0, <2>7 DEF ReadCounter, Goto, TypeOK, counterVars, Stages, Answered
  <2>8. CASE Exec(r)
    <3>1. /\ live' \in [Tenants \X Periods -> Int]
          /\ clean' \in [Requests -> BOOLEAN]
      BY <2>0, <2>8, AddLiveFacts DEF Exec, TypeOK
    <3>. QED
      BY <2>8, <3>1 DEF Exec, Goto, TypeOK, Stages, Charged
  <2>9. CASE Retry(r)
    BY <2>9 DEF Retry, Goto, TypeOK, counterVars, Stages
  <2>10. CASE Forward(r)
    BY <2>10 DEF Forward, Goto, TypeOK, counterVars, Stages, Charged
  <2>11. CASE Refund(r)
    <3>1. 0 - milli[r] \in Int
      BY DEF TypeOK
    <3>2. /\ live' \in [Tenants \X Periods -> Int]
          /\ clean' \in [Requests -> BOOLEAN]
      BY <2>0, <2>11, <3>1, AddLiveFacts DEF Refund, TypeOK
    <3>. QED
      BY <2>11, <3>2 DEF Refund, Goto, TypeOK, Stages, Answered
  <2>12. CASE CountKey(r)
    BY <2>0, <2>12 DEF CountKey, Goto, TypeOK, Stages, Charged
  <2>13. CASE PushEvent(r)
    BY <2>13 DEF PushEvent, Goto, TypeOK, Stages, Answered
  <2>. QED
    BY <1>1, <2>1, <2>2, <2>3, <2>4, <2>5, <2>6, <2>7, <2>8, <2>9, <2>10,
       <2>11, <2>12, <2>13 DEF Step
<1>2. ASSUME NEW r \in Requests, Crash(r) PROVE TypeOK'
  BY <1>2 DEF Crash, TypeOK, counterVars, Stages, Answered
<1>3. CASE Tick
  BY <1>3 DEF Tick, TypeOK, counterVars, Ticks
<1>4. ASSUME NEW t \in Tenants, NEW p \in Periods, Evict(t, p) PROVE TypeOK'
  <2>1. 0 - live[<<t, p>>] \in Int
    BY DEF TypeOK
  <2>2. /\ live' \in [Tenants \X Periods -> Int]
        /\ clean' \in [Requests -> BOOLEAN]
    BY <1>4, <2>1, AddLiveFacts DEF Evict, TypeOK
  <2>. QED
    BY <1>4, <2>2 DEF Evict, TypeOK
<1>5. CASE UNCHANGED vars
  BY <1>5 DEF vars, counterVars, TypeOK
<1>. QED
  BY <1>1, <1>2, <1>3, <1>4, <1>5 DEF Next

(* Type correctness of the metered path.                                   *)
THEOREM TypeCorrect == Spec => []TypeOK
<1>1. Init => TypeOK
  BY InitHardCapInv DEF HardCapInv
<1>. QED
  BY <1>1, NextTypeOK, PTL DEF Spec

(* A step that leaves the counters alone, and at most moves one request to *)
(* a stage other than "watching" and "multi", keeps the invariant.         *)
LEMMA QuietStep ==
    ASSUME HardCapInv, TypeOK', NEW r \in Requests, NEW to,
           live' = live, clean' = clean, seen' = seen, milli' = milli,
           period' = period, pc' = [pc EXCEPT ![r] = to],
           to \notin {"watching", "multi"}
    PROVE  HardCapInv'
<1>1. HardCap'
  BY DEF HardCapInv, HardCap
<1>2. \A q \in Requests : pc'[q] \in {"watching", "multi"} => pc'[q] = pc[q]
  BY DEF HardCapInv, TypeOK
<1>3. \A q \in Requests : Account(q)' = Account(q)
  BY DEF Account, Tenant
<1>4. CommitFits'
  BY <1>2, <1>3 DEF HardCapInv, CommitFits, Tenant
<1>5. WatchersCapped'
  BY <1>2 DEF HardCapInv, WatchersCapped, Tenant
<1>. QED
  BY <1>1, <1>4, <1>5 DEF HardCapInv

(* A write to one counter that stays under its tenant's cap keeps the      *)
(* invariant: whoever had read that counter can no longer commit.          *)
LEMMA WriteStep ==
    ASSUME HardCapInv, TypeOK', NEW a \in Tenants \X Periods, NEW n \in Int,
           AddLive(a, n),
           CapMilli[a[1]] > 0 => live[a] + n <= CapMilli[a[1]],
           seen' = seen, milli' = milli, period' = period,
           \A q \in Requests : pc'[q] \in {"watching", "multi"} => pc'[q] = pc[q]
    PROVE  HardCapInv'
<1> USE QuotaGateAssumption
<1>0. /\ live'[a] = live[a] + n
      /\ \A b \in Tenants \X Periods : b # a => live'[b] = live[b]
      /\ \A q \in Requests : clean'[q] => clean[q] /\ Account(q) # a
  BY AddLiveFacts DEF HardCapInv, TypeOK
<1>1. HardCap'
  <2> SUFFICES ASSUME NEW t \in Tenants, NEW p \in Periods, CapMilli[t] > 0
               PROVE  live'[<<t, p>>] <= CapMilli[t]
    BY DEF HardCap
  <2>1. CASE <<t, p>> = a
    <3>1. a[1] = t
      BY <2>1
    <3>. QED
      BY <1>0, <2>1, <3>1
  <2>2. CASE <<t, p>> # a
    <3>1. live'[<<t, p>>] = live[<<t, p>>]
      BY <1>0, <2>2
    <3>. QED
      BY <3>1 DEF HardCapInv, HardCap
  <2>. QED
    BY <2>1, <2>2
<1>2. \A q \in Requests : Account(q)' = Account(q) /\ Tenant(q)' = Tenant(q)
  BY DEF Account, Tenant
<1>3. CommitFits'
  <2> SUFFICES ASSUME NEW q \in Requests, pc'[q] = "multi"
               PROVE  /\ CapMilli[Tenant(q)] > 0
                      /\ seen[q] + milli[q] <= CapMilli[Tenant(q)]
                      /\ clean'[q] => seen[q] = live'[Account(q)]
    BY <1>2 DEF CommitFits
  <2>1. /\ CapMilli[Tenant(q)] > 0
        /\ seen[q] + milli[q] <= CapMilli[Tenant(q)]
        /\ clean[q] => seen[q] = live[Account(q)]
    BY DEF HardCapInv, CommitFits
  <2>2. Account(q) \in Tenants \X Periods
    BY AccountTypes DEF HardCapInv
  <2>. QED
    BY <1>0, <2>1, <2>2
<1>4. WatchersCapped'
  BY <1>2 DEF HardCapInv, WatchersCapped
<1>. QED
  BY <1>1, <1>3, <1>4 DEF HardCapInv

LEMMA NextHardCapInv == HardCapInv /\ [Next]_vars => HardCapInv'
<1> SUFFICES ASSUME HardCapInv, [Next]_vars PROVE HardCapInv'
  OBVIOUS
<1> USE QuotaGateAssumption
<1>0. TypeOK /\ TypeOK'
  BY NextTypeOK DEF HardCapInv
<1>1. ASSUME NEW r \in Requests, Step(r) PROVE HardCapInv'
  <2>0. /\ Tenant(r) \in Tenants
        /\ Account(r) \in Tenants \X Periods
        /\ Account(r)[1] = Tenant(r)
        /\ milli[r] \in Nat
        /\ live[Account(r)] \in Int
        /\ pc \in [Requests -> Stages]
    BY <1>0, AccountTypes DEF TypeOK, Account
  <2>1. CASE FreePass(r)
    BY <1>0, <2>1, QuietStep DEF FreePass, Goto, counterVars
  <2>2. CASE SkipRps(r)
    BY <1>0, <2>2, QuietStep DEF SkipRps, Goto, counterVars
  <2>3. CASE AllowRps(r)
    <3>1. PICK to \in {"admitted", "limited"} : pc' = [pc EXCEPT ![r] = to]
      BY <2>3 DEF AllowRps, Goto
    <3>. QED
      BY <1>0, <2>3, <3>1, QuietStep DEF AllowRps
  <2>4. CASE Retry(r)
    <3>1. /\ pc' = [pc EXCEPT ![r] = "priced"]
          /\ live' = live /\ clean' = clean /\ seen' = seen
          /\ milli' = milli /\ period' = period
      BY <2>4 DEF Retry, Goto, counterVars
    <3>. QED
      BY <1>0, <3>1, QuietStep
  <2>5. CASE Forward(r)
    <3>1. PICK to \in {"served", "failed"} : pc' = [pc EXCEPT ![r] = to]
      BY <2>5 DEF Forward, Goto
    <3>. QED
      BY <1>0, <2>5, <3>1, QuietStep DEF Forward, counterVars
  <2>6. CASE CountKey(r)
    BY <1>0, <2>6, QuietStep DEF CountKey, Goto, counterVars
  <2>7. CASE PushEvent(r)
    BY <1>0, <2>7, QuietStep DEF PushEvent, Goto, counterVars
  <2>8. CASE Price(r)
    <3>1. /\ HardCap'
          /\ \A q \in Requests : pc'[q] \in {"watching", "multi"} => q # r /\ pc'[q] = pc[q]
      BY <2>0, <2>8 DEF Price, Goto, counterVars, HardCapInv, HardCap
    <3>2. \A q \in Requests : q # r => /\ Account(q)' = Account(q)
                                      /\ milli'[q] = milli[q]
      BY <1>0, <2>8 DEF Price, Account, Tenant, TypeOK
    <3>3. CommitFits'
      BY <2>8, <3>1, <3>2 DEF Price, counterVars, HardCapInv, CommitFits, Tenant
    <3>4. WatchersCapped'
      BY <3>1 DEF HardCapInv, WatchersCapped, Tenant
    <3>. QED
      BY <1>0, <3>1, <3>3, <3>4 DEF HardCapInv
  <2>9. CASE Watch(r)
    <3>1. HardCap'
      BY <2>9 DEF Watch, counterVars, HardCapInv, HardCap
    <3>2. \A q \in Requests : Account(q)' = Account(q)
      BY <2>9 DEF Watch, Account, Tenant
    <3>3. CommitFits'
      BY <1>0, <2>0, <2>9, <3>2 DEF Watch, Goto, counterVars, HardCapInv, CommitFits, Tenant, TypeOK
    <3>4. WatchersCapped'
      BY <2>0, <2>9 DEF Watch, Goto, HardCapInv, WatchersCapped, Tenant
    <3>. QED
      BY <1>0, <3>1, <3>3, <3>4 DEF HardCapInv
  <2>10. CASE ReadCounter(r)
    <3>1. HardCap'
      BY <2>10 DEF ReadCounter, counterVars, HardCapInv, HardCap
    <3>2. \A q \in Requests : Account(q)' = Account(q) /\ Tenant(q)' = Tenant(q)
      BY <2>10 DEF ReadCounter, Account, Tenant
    <3>3. CommitFits'
      <4> SUFFICES ASSUME NEW q \in Requests, pc'[q] = "multi"
                   PROVE  /\ CapMilli[Tenant(q)] > 0
                          /\ seen'[q] + milli[q] <= CapMilli[Tenant(q)]
                          /\ clean[q] => seen'[q] = live[Account(q)]
        BY <2>10, <3>2 DEF ReadCounter, counterVars, CommitFits
      <4>1. CASE q = r
        <5>1. CapMilli[Tenant(r)] > 0
          BY <2>10 DEF ReadCounter, Goto, HardCapInv, WatchersCapped
        <5>2. /\ seen'[r] = live[Account(r)]
              /\ live[Account(r)] + milli[r] <= CapMilli[Tenant(r)]
          BY <1>0, <2>0, <2>10, <4>1 DEF ReadCounter, Goto, TypeOK
        <5>. QED
          BY <4>1, <5>1, <5>2
      <4>2. CASE q # r
        <5>1. pc[q] = "multi" /\ seen'[q] = seen[q]
          BY <1>0, <2>0, <2>10, <4>2 DEF ReadCounter, Goto, TypeOK
        <5>. QED
          BY <5>1 DEF HardCapInv, CommitFits
      <4>. QED
        BY <4>1, <4>2
    <3>4. WatchersCapped'
      BY <2>0, <2>10, <3>2 DEF ReadCounter, Goto, HardCapInv, WatchersCapped
    <3>. QED
      BY <1>0, <3>1, <3>3, <3>4 DEF HardCapInv
  <2>11. CASE ReserveSoft(r)
    <3>1. \A q \in Requests : pc'[q] \in {"watching", "multi"} => pc'[q] = pc[q]
      BY <2>0, <2>11 DEF ReserveSoft, Goto
    <3>. QED
      BY <1>0, <2>0, <2>11, <3>1, WriteStep DEF ReserveSoft
  <2>12. CASE Exec(r)
    <3>1. \A q \in Requests : pc'[q] \in {"watching", "multi"} => pc'[q] = pc[q]
      BY <2>0, <2>12 DEF Exec, Goto
    <3>2. live[Account(r)] + milli[r] <= CapMilli[Tenant(r)]
      BY <2>0, <2>12 DEF Exec, Goto, HardCapInv, CommitFits
    <3>. QED
      BY <1>0, <2>0, <2>12, <3>1, <3>2, WriteStep DEF Exec
  <2>13. CASE Refund(r)
    <3>1. \A q \in Requests : pc'[q] \in {"watching", "multi"} => pc'[q] = pc[q]
      BY <2>0, <2>13 DEF Refund, Goto
    <3>2. /\ 0 - milli[r] \in Int
          /\ CapMilli[Tenant(r)] \in Nat
          /\ CapMilli[Tenant(r)] > 0 =>
                live[Account(r)] + (0 - milli[r]) <= CapMilli[Tenant(r)]
      <4>1. CapMilli[Tenant(r)] > 0 => live[<<Tenant(r), period[r]>>] <= CapMilli[Tenant(r)]
        BY <1>0, <2>0 DEF HardCapInv, HardCap, TypeOK
      <4>. QED
        BY <2>0, <4>1 DEF Account
    <3>. QED
      BY <1>0, <2>0, <2>13, <3>1, <3>2, WriteStep DEF Refund
  <2>. QED
    BY <1>1, <2>1, <2>2, <2>3, <2>4, <2>5, <2>6, <2>7, <2>8, <2>9, <2>10,
       <2>11, <2>12, <2>13 DEF Step
<1>2. ASSUME NEW r \in Requests, Crash(r) PROVE HardCapInv'
  <2>1. PICK to \in {"leaked", "crashed"} : pc' = [pc EXCEPT ![r] = to]
    BY <1>2 DEF Crash
  <2>. QED
    BY <1>0, <1>2, <2>1, QuietStep DEF Crash, counterVars
<1>3. CASE Tick
  <2>1. \A q \in Requests : Account(q)' = Account(q)
    BY <1>3 DEF Tick, Account, Tenant
  <2>. QED
    BY <1>0, <1>3, <2>1 DEF Tick, counterVars, HardCapInv, HardCap, CommitFits, WatchersCapped, Tenant
<1>4. ASSUME NEW t \in Tenants, NEW p \in Periods, Evict(t, p) PROVE HardCapInv'
  <2>1. /\ live[<<t, p>>] \in Int
        /\ <<t, p>> \in Tenants \X Periods
        /\ <<t, p>>[1] = t
        /\ CapMilli[t] \in Nat
    BY <1>0 DEF TypeOK
  <2>2. live[<<t, p>>] + (0 - live[<<t, p>>]) = 0
    BY <2>1
  <2>. QED
    BY <1>0, <1>4, <2>1, <2>2, WriteStep DEF Evict
<1>5. CASE UNCHANGED vars
  <2>1. \A q \in Requests : Account(q)' = Account(q)
    BY <1>5 DEF vars, Account, Tenant
  <2>. QED
    BY <1>0, <1>5, <2>1 DEF vars, counterVars, HardCapInv, HardCap, CommitFits, WatchersCapped, Tenant
<1>. QED
  BY <1>1, <1>2, <1>3, <1>4, <1>5 DEF Next

(* The inductive invariant holds, for any number of concurrent requests,   *)
(* tenants and keys, and through retries, refunds, crashes and evictions.  *)
THEOREM HardCapInvariant == Spec => []HardCapInv
BY InitHardCapInv, NextHardCapInv, PTL DEF Spec

(* The live counter of a hard-capped tenant never exceeds its cap.         *)
THEOREM HardCapHolds == Spec => []HardCap
<1>1. HardCapInv => HardCap
  BY DEF HardCapInv
<1>. QED
  BY <1>1, HardCapInvariant, PTL

----------------------------------------------------------------------------
(* The counters as sums over the requests.  Part is what a request in a    *)
(* stage of `among` adds to an account, Owed what all of them do.          *)

Part(among, a) == [q \in Requests |-> IF pc[q] \in among /\ Account(q) = a THEN milli[q] ELSE 0]
Owed(among, a) == SumFunctionOnSet(Part(among, a), Requests)

\* The stages with a counted key; of a leaked request it is not known.
Keyed   == {"keyed", "metered"}
MayKeyed == Keyed \cup {"leaked"}

\* All that is counted on the keys of a tenant in a period.
KeysTotal(a) == SumFunctionOnSet([k \in Keys |-> keyLive[<<k, a[2]>>]],
                                 {k \in Keys : TenantOf[k] = a[1]})

\* The requests of a tenant that hold a slot of a second.
InSlot(t, s) == {q \in Requests : /\ Tenant(q) = t /\ second[q] = s
                                  /\ pc[q] \notin {"arrived", "free", "limited", "crashed"}}

LiveExact     == evictions = 0 => \A a \in Tenants \X Periods : live[a] = Owed(Charged, a)
KeysBetween   == \A a \in Tenants \X Periods :
                    Owed(Keyed, a) <= KeysTotal(a) /\ KeysTotal(a) <= Owed(MayKeyed, a)
EventsMetered == \A q \in events : pc[q] = "metered"
SlotsCounted  == \A t \in Tenants, s \in Ticks :
                    Rps[t] > 0 => /\ Cardinality(InSlot(t, s)) <= Rps[t]
                                  /\ Cardinality(InSlot(t, s)) <= burst[<<t, s>>]

(* What makes the claims about the counters inductive.                     *)
AccountsInv == TypeOK /\ LiveExact /\ KeysBetween /\ EventsMetered /\ SlotsCounted

(* Parts and sums are naturals, before and after a step.                   *)
LEMMA PartTypes ==
    ASSUME TypeOK, NEW among, NEW a
    PROVE  /\ \A q \in Requests : Part(among, a)[q] \in Nat
           /\ Owed(among, a) \in Nat
<1>1. \A q \in Requests : Part(among, a)[q] \in Nat
  BY DEF Part, TypeOK
<1>. QED
  BY <1>1, QuotaGateAssumption, SumIsNat DEF Owed

LEMMA PartTypesNext ==
    ASSUME TypeOK', NEW among, NEW a
    PROVE  /\ \A q \in Requests : Part(among, a)'[q] \in Nat
           /\ Owed(among, a)' \in Nat
<1>1. \A q \in Requests : Part(among, a)'[q] \in Nat
  BY DEF Part, TypeOK
<1>. QED
  BY <1>1, QuotaGateAssumption, SumIsNat DEF Owed

(* When one request moves, the sums change by what its part does.          *)
LEMMA OwedStep ==
    ASSUME TypeOK, TypeOK', NEW r \in Requests, NEW among, NEW a,
           \A q \in Requests \ {r} :
              pc'[q] = pc[q] /\ period'[q] = period[q] /\ milli'[q] = milli[q]
    PROVE  Owed(among, a)' = Owed(among, a) - Part(among, a)[r] + Part(among, a)'[r]
<1>1. \A q \in Requests \ {r} : Part(among, a)'[q] = Part(among, a)[q]
  BY DEF Part, Account, Tenant
<1>2. \A q \in Requests : Part(among, a)[q] \in Int /\ Part(among, a)'[q] \in Int
  BY PartTypes, PartTypesNext
<1>. QED
  BY <1>1, <1>2, QuotaGateAssumption, SumChange DEF Owed

(* The total over a tenant's keys is an integer, and one key's INCRBY is   *)
(* its only change.                                                        *)
LEMMA KeysTotalTypes ==
    ASSUME TypeOK, NEW a \in Tenants \X Periods
    PROVE  /\ \A k \in Keys : keyLive[<<k, a[2]>>] \in Nat
           /\ KeysTotal(a) \in Int
<1>1. \A k \in Keys : keyLive[<<k, a[2]>>] \in Nat
  BY DEF TypeOK
<1> DEFINE f == [k \in Keys |-> keyLive[<<k, a[2]>>]]
           S == {k \in Keys : TenantOf[k] = a[1]}
<1>2. IsFiniteSet(S) /\ \A k \in S : f[k] \in Int
  BY <1>1, QuotaGateAssumption, FS_Subset
<1>3. SumFunctionOnSet(f, S) \in Int
  BY <1>2, SumIsInt
<1>. QED
  BY <1>1, <1>3 DEF KeysTotal

LEMMA KeysTotalTypesNext ==
    ASSUME TypeOK', NEW a \in Tenants \X Periods
    PROVE  KeysTotal(a)' \in Int
<1> DEFINE f == [k \in Keys |-> keyLive'[<<k, a[2]>>]]
           S == {k \in Keys : TenantOf[k] = a[1]}
<1>1. IsFiniteSet(S) /\ \A k \in S : f[k] \in Int
  BY QuotaGateAssumption, FS_Subset DEF TypeOK
<1>2. SumFunctionOnSet(f, S) \in Int
  BY <1>1, SumIsInt
<1>. QED
  BY <1>2 DEF KeysTotal

LEMMA KeysTotalStep ==
    ASSUME TypeOK, TypeOK', NEW k \in Keys, NEW p \in Periods, NEW n \in Nat,
           keyLive' = [keyLive EXCEPT ![<<k, p>>] = @ + n],
           NEW a \in Tenants \X Periods
    PROVE  KeysTotal(a)' = KeysTotal(a) + IF a = <<TenantOf[k], p>> THEN n ELSE 0
<1> DEFINE f == [j \in Keys |-> keyLive[<<j, a[2]>>]]
           g == [j \in Keys |-> keyLive'[<<j, a[2]>>]]
           S == {j \in Keys : TenantOf[j] = a[1]}
<1>1. \A j \in Keys : f[j] \in Int /\ g[j] \in Int
  BY DEF TypeOK
<1>2. IsFiniteSet(S) /\ S \subseteq Keys
  BY QuotaGateAssumption, FS_Subset
<1>3. /\ KeysTotal(a) = SumFunctionOnSet(f, S) /\ KeysTotal(a)' = SumFunctionOnSet(g, S)
      /\ SumFunctionOnSet(f, S) \in Int
  BY <1>1, <1>2, SumIsInt DEF KeysTotal
<1>4. \A j \in Keys : g[j] = IF j = k /\ a[2] = p THEN f[j] + n ELSE f[j]
  BY DEF TypeOK
<1>5. CASE a = <<TenantOf[k], p>>
  <2>1. k \in S /\ a[2] = p
    BY <1>5
  <2> HIDE DEF f, g, S
  <2>2. \A j \in S \ {k} : g[j] = f[j]
    BY <1>2, <1>4
  <2>3. SumFunctionOnSet(g, S) = SumFunctionOnSet(f, S) - f[k] + g[k]
    BY <1>1, <1>2, <2>1, <2>2, SumChange
  <2>4. g[k] = f[k] + n /\ f[k] \in Int
    BY <1>1, <1>4, <2>1
  <2>. QED
    BY <1>3, <1>5, <2>3, <2>4
<1>6. CASE a # <<TenantOf[k], p>>
  <2>1. \A j \in S : ~(j = k /\ a[2] = p)
    BY <1>6
  <2> HIDE DEF f, g, S
  <2>2. \A j \in S : f[j] \in Int /\ g[j] = f[j]
    BY <1>1, <1>2, <1>4, <2>1
  <2>3. SumFunctionOnSet(g, S) = SumFunctionOnSet(f, S)
    BY <1>2, <2>2, SumsEqual
  <2>. QED
    BY <1>3, <1>6, <2>3
<1>. QED
  BY <1>5, <1>6

(* A step of one request keeps the accounts if the counters move with it.  *)
LEMMA MovedWithCounters ==
    ASSUME AccountsInv, TypeOK', NEW r \in Requests, evictions' = evictions,
           \A q \in Requests \ {r} :
              pc'[q] = pc[q] /\ period'[q] = period[q] /\ milli'[q] = milli[q],
           \A a \in Tenants \X Periods :
              /\ live'[a] - live[a] = Part(Charged, a)'[r] - Part(Charged, a)[r]
              /\ Part(Keyed, a)'[r] - Part(Keyed, a)[r] <= KeysTotal(a)' - KeysTotal(a)
              /\ KeysTotal(a)' - KeysTotal(a) <= Part(MayKeyed, a)'[r] - Part(MayKeyed, a)[r]
    PROVE  LiveExact' /\ KeysBetween'
<1>0. TypeOK /\ LiveExact /\ KeysBetween
  BY DEF AccountsInv
<1>1. ASSUME evictions = 0, NEW a \in Tenants \X Periods
      PROVE  live'[a] = Owed(Charged, a)'
  <2>1. Owed(Charged, a)' = Owed(Charged, a) - Part(Charged, a)[r] + Part(Charged, a)'[r]
    BY <1>0, OwedStep
  <2>2. /\ Owed(Charged, a) \in Int /\ Part(Charged, a)[r] \in Int
        /\ Part(Charged, a)'[r] \in Int
    BY <1>0, PartTypes, PartTypesNext
  <2>3. live[a] \in Int /\ live'[a] \in Int /\ live[a] = Owed(Charged, a)
    BY <1>0, <1>1 DEF LiveExact, TypeOK
  <2>. QED
    BY <2>1, <2>2, <2>3
<1>2. ASSUME NEW a \in Tenants \X Periods
      PROVE  Owed(Keyed, a)' <= KeysTotal(a)' /\ KeysTotal(a)' <= Owed(MayKeyed, a)'
  <2>1. /\ Owed(Keyed, a)' = Owed(Keyed, a) - Part(Keyed, a)[r] + Part(Keyed, a)'[r]
        /\ Owed(MayKeyed, a)' = Owed(MayKeyed, a) - Part(MayKeyed, a)[r] + Part(MayKeyed, a)'[r]
    BY <1>0, OwedStep
  <2>2. /\ Owed(Keyed, a) \in Int /\ Part(Keyed, a)[r] \in Int /\ Part(Keyed, a)'[r] \in Int
        /\ Owed(MayKeyed, a) \in Int /\ Part(MayKeyed, a)[r] \in Int
        /\ Part(MayKeyed, a)'[r] \in Int
    BY <1>0, PartTypes, PartTypesNext
  <2>3. KeysTotal(a) \in Int /\ KeysTotal(a)' \in Int
    BY <1>0, KeysTotalTypes, KeysTotalTypesNext
  <2>4. Owed(Keyed, a) <= KeysTotal(a) /\ KeysTotal(a) <= Owed(MayKeyed, a)
    BY <1>0 DEF KeysBetween
  <2>. QED
    BY <2>1, <2>2, <2>3, <2>4
<1>3. LiveExact'
  BY <1>1 DEF LiveExact
<1>4. KeysBetween'
  BY <1>2 DEF KeysBetween
<1>. QED
  BY <1>3, <1>4

(* A step that writes no counter, and neither charges nor refunds.         *)
LEMMA NoCounterStep ==
    ASSUME AccountsInv, TypeOK', NEW r \in Requests, NEW to, pc' = [pc EXCEPT ![r] = to],
           UNCHANGED <<live, keyLive, evictions>>,
           \A q \in Requests \ {r} : period'[q] = period[q] /\ milli'[q] = milli[q],
           pc[r] \in Charged \/ to \in Charged =>
              period'[r] = period[r] /\ milli'[r] = milli[r],
           pc[r] \in Charged <=> to \in Charged,
           to \in Keyed => pc[r] \in Keyed,
           pc[r] \in MayKeyed => to \in MayKeyed
    PROVE  LiveExact' /\ KeysBetween'
<1>0. TypeOK /\ pc'[r] = to /\ \A q \in Requests \ {r} : pc'[q] = pc[q]
  BY DEF AccountsInv, TypeOK
<1>1. Keyed \subseteq Charged /\ MayKeyed \subseteq Charged
  BY DEF Keyed, MayKeyed, Charged
<1>2. ASSUME NEW a \in Tenants \X Periods
      PROVE  /\ live'[a] - live[a] = Part(Charged, a)'[r] - Part(Charged, a)[r]
             /\ Part(Keyed, a)'[r] - Part(Keyed, a)[r] <= KeysTotal(a)' - KeysTotal(a)
             /\ KeysTotal(a)' - KeysTotal(a) <= Part(MayKeyed, a)'[r] - Part(MayKeyed, a)[r]
  <2>1. /\ live[a] \in Int /\ live'[a] = live[a]
        /\ KeysTotal(a) \in Int /\ KeysTotal(a)' = KeysTotal(a)
    BY <1>0, KeysTotalTypes DEF TypeOK, KeysTotal
  <2>2. /\ Part(Charged, a)[r] \in Nat /\ Part(Keyed, a)[r] \in Nat /\ Part(MayKeyed, a)[r] \in Nat
        /\ Part(Charged, a)'[r] \in Nat /\ Part(Keyed, a)'[r] \in Nat
        /\ Part(MayKeyed, a)'[r] \in Nat
    BY <1>0, PartTypes, PartTypesNext
  <2>3. CASE pc[r] \in Charged
    <3>1. Account(r)' = Account(r) /\ milli'[r] = milli[r]
      BY <2>3 DEF Account, Tenant
    <3>2. /\ Part(Charged, a)'[r] = Part(Charged, a)[r]
          /\ Part(Keyed, a)'[r] <= Part(Keyed, a)[r]
          /\ Part(MayKeyed, a)[r] <= Part(MayKeyed, a)'[r]
      BY <1>0, <2>2, <3>1 DEF Part
    <3>. QED
      BY <2>1, <2>2, <3>2
  <2>4. CASE pc[r] \notin Charged
    <3>1. /\ Part(Charged, a)'[r] = 0 /\ Part(Charged, a)[r] = 0
          /\ Part(Keyed, a)'[r] = 0 /\ Part(Keyed, a)[r] = 0
          /\ Part(MayKeyed, a)'[r] = 0 /\ Part(MayKeyed, a)[r] = 0
      BY <1>0, <1>1, <2>4 DEF Part
    <3>. QED
      BY <2>1, <3>1
  <2>. QED
    BY <2>3, <2>4
<1>. QED
  BY <1>0, <1>2, MovedWithCounters

(* A step that moves AddLive with the request that is charged or refunded. *)
LEMMA LiveStep ==
    ASSUME AccountsInv, TypeOK', NEW r \in Requests, NEW to, pc' = [pc EXCEPT ![r] = to],
           NEW n, AddLive(Account(r), n),
           UNCHANGED <<keyLive, evictions, period, milli>>,
           n = (IF to \in Charged THEN milli[r] ELSE 0)
                 - (IF pc[r] \in Charged THEN milli[r] ELSE 0),
           pc[r] \notin MayKeyed, to \notin MayKeyed
    PROVE  LiveExact' /\ KeysBetween'
<1>0. TypeOK /\ pc'[r] = to /\ \A q \in Requests \ {r} : pc'[q] = pc[q]
  BY DEF AccountsInv, TypeOK
<1>1. Account(r) \in Tenants \X Periods /\ milli[r] \in Nat
  BY <1>0, AccountTypes DEF TypeOK
<1>2. n \in Int
  BY <1>1
<1>3. /\ live'[Account(r)] = live[Account(r)] + n
      /\ \A b \in Tenants \X Periods : b # Account(r) => live'[b] = live[b]
  BY <1>0, <1>1, <1>2, AddLiveFacts DEF TypeOK
<1>4. Account(r)' = Account(r)
  BY DEF Account, Tenant
<1>5. ASSUME NEW a \in Tenants \X Periods
      PROVE  /\ live'[a] - live[a] = Part(Charged, a)'[r] - Part(Charged, a)[r]
             /\ Part(Keyed, a)'[r] - Part(Keyed, a)[r] <= KeysTotal(a)' - KeysTotal(a)
             /\ KeysTotal(a)' - KeysTotal(a) <= Part(MayKeyed, a)'[r] - Part(MayKeyed, a)[r]
  <2>1. live[a] \in Int /\ KeysTotal(a) \in Int /\ KeysTotal(a)' = KeysTotal(a)
    BY <1>0, KeysTotalTypes DEF TypeOK, KeysTotal
  <2>2. live'[a] = IF a = Account(r) THEN live[a] + n ELSE live[a]
    BY <1>3
  <2>3. /\ Part(Charged, a)[r] = IF pc[r] \in Charged /\ Account(r) = a THEN milli[r] ELSE 0
        /\ Part(Charged, a)'[r] = IF to \in Charged /\ Account(r) = a THEN milli[r] ELSE 0
    BY <1>0, <1>4 DEF Part
  <2>4. /\ Part(Keyed, a)'[r] = 0 /\ Part(Keyed, a)[r] = 0
        /\ Part(MayKeyed, a)'[r] = 0 /\ Part(MayKeyed, a)[r] = 0
    BY <1>0 DEF Part, MayKeyed
  <2>. QED
    BY <1>1, <2>1, <2>2, <2>3, <2>4
<1>. QED
  BY <1>0, <1>5, MovedWithCounters

(* A step after which no second holds another request of a capped tenant.  *)
LEMMA SlotsKept ==
    ASSUME AccountsInv, UNCHANGED <<burst, second>>,
           \A q \in Requests :
              /\ Rps[Tenant(q)] > 0
              /\ pc[q] \in {"arrived", "free", "limited", "crashed"}
              => pc'[q] \in {"arrived", "free", "limited", "crashed"}
    PROVE  SlotsCounted'
<1> SUFFICES ASSUME NEW t \in Tenants, NEW s \in Ticks, Rps[t] > 0
             PROVE  /\ Cardinality(InSlot(t, s)') <= Rps[t]
                    /\ Cardinality(InSlot(t, s)') <= burst[<<t, s>>]
  BY DEF SlotsCounted
<1>1. InSlot(t, s)' \subseteq InSlot(t, s)
  BY DEF InSlot, Tenant
<1>2. IsFiniteSet(InSlot(t, s))
  BY QuotaGateAssumption, FS_Subset DEF InSlot
<1>3. /\ Cardinality(InSlot(t, s)') <= Cardinality(InSlot(t, s))
      /\ Cardinality(InSlot(t, s)') \in Int /\ Cardinality(InSlot(t, s)) \in Int
  BY <1>1, <1>2, FS_Subset, FS_CardinalityType
<1>4. /\ Cardinality(InSlot(t, s)) <= Rps[t] /\ Cardinality(InSlot(t, s)) <= burst[<<t, s>>]
      /\ Rps[t] \in Int /\ burst[<<t, s>>] \in Int
  BY QuotaGateAssumption DEF AccountsInv, SlotsCounted, TypeOK
<1>. QED
  BY <1>3, <1>4

(* INCR and the comparison of what it returned admit one more at most.     *)
LEMMA SlotTaken ==
    ASSUME AccountsInv, TypeOK', NEW r \in Requests, AllowRps(r)
    PROVE  SlotsCounted'
<1> DEFINE slot == <<Tenant(r), clock>>
           Out == {"arrived", "free", "limited", "crashed"}
<1>0. TypeOK /\ Tenant(r) \in Tenants /\ clock \in Ticks
  BY AccountTypes DEF AccountsInv, TypeOK
<1>1. /\ pc[r] = "arrived"
      /\ pc' = [pc EXCEPT ![r] = IF burst[slot] + 1 <= Rps[Tenant(r)] THEN "admitted" ELSE "limited"]
      /\ burst' = [burst EXCEPT ![slot] = @ + 1]
      /\ second' = [second EXCEPT ![r] = clock]
  BY DEF AllowRps, Goto, RpsAllows
<1> SUFFICES ASSUME NEW t \in Tenants, NEW s \in Ticks, Rps[t] > 0
             PROVE  /\ Cardinality(InSlot(t, s)') <= Rps[t]
                    /\ Cardinality(InSlot(t, s)') <= burst'[<<t, s>>]
  BY DEF SlotsCounted
<1>2. IsFiniteSet(InSlot(t, s)) /\ IsFiniteSet(InSlot(t, s)') /\ r \notin InSlot(t, s)
  BY <1>1, QuotaGateAssumption, FS_Subset DEF InSlot
<1>3. /\ Cardinality(InSlot(t, s)) <= Rps[t] /\ Cardinality(InSlot(t, s)) <= burst[<<t, s>>]
      /\ Cardinality(InSlot(t, s)) \in Int /\ Cardinality(InSlot(t, s)') \in Int
      /\ Rps[t] \in Int /\ burst[<<t, s>>] \in Int
  BY <1>0, <1>2, QuotaGateAssumption, FS_CardinalityType DEF AccountsInv, SlotsCounted, TypeOK
<1>4. /\ burst'[<<t, s>>] = IF <<t, s>> = slot THEN burst[<<t, s>>] + 1 ELSE burst[<<t, s>>]
  BY <1>0, <1>1 DEF TypeOK
<1>5. /\ pc'[r] = IF burst[slot] + 1 <= Rps[Tenant(r)] THEN "admitted" ELSE "limited"
      /\ second'[r] = clock
      /\ \A q \in Requests \ {r} : pc'[q] = pc[q] /\ second'[q] = second[q]
  BY <1>0, <1>1 DEF TypeOK
<1>6. InSlot(t, s)' = IF r \in InSlot(t, s)' THEN InSlot(t, s) \cup {r} ELSE InSlot(t, s)
  BY <1>2, <1>5 DEF InSlot, Tenant
<1>7. CASE r \in InSlot(t, s)'
  <2>1. <<t, s>> = slot /\ pc'[r] \notin Out
    BY <1>5, <1>7 DEF InSlot, Tenant
  <2>2. burst[<<t, s>>] + 1 <= Rps[t]
    BY <1>5, <2>1
  <2>3. Cardinality(InSlot(t, s)') = Cardinality(InSlot(t, s)) + 1
    BY <1>2, <1>6, <1>7, FS_AddElement
  <2>. QED
    BY <1>3, <1>4, <2>1, <2>2, <2>3
<1>8. CASE r \notin InSlot(t, s)'
  BY <1>3, <1>4, <1>6, <1>8
<1>. QED
  BY <1>7, <1>8

LEMMA InitAccountsInv == Init => AccountsInv
<1> SUFFICES ASSUME Init PROVE AccountsInv
  OBVIOUS
<1>1. TypeOK
  BY InitHardCapInv DEF HardCapInv
<1>2. ASSUME NEW among, NEW a, "arrived" \notin among PROVE Owed(among, a) = 0
  <2>1. \A q \in Requests : Part(among, a)[q] = 0
    BY <1>2 DEF Init, Part
  <2>. QED
    BY <2>1, QuotaGateAssumption, SumOfZeros DEF Owed
<1>3. LiveExact
  BY <1>2 DEF Init, LiveExact, Charged
<1>4. ASSUME NEW a \in Tenants \X Periods PROVE KeysTotal(a) = 0
  <2> DEFINE f == [k \in Keys |-> keyLive[<<k, a[2]>>]]
             S == {k \in Keys : TenantOf[k] = a[1]}
  <2>1. IsFiniteSet(S) /\ \A k \in S : f[k] = 0
    BY QuotaGateAssumption, FS_Subset DEF Init
  <2>2. SumFunctionOnSet(f, S) = 0
    BY <2>1, SumOfZeros
  <2>. QED
    BY <2>2 DEF KeysTotal
<1>5. KeysBetween
  BY <1>2, <1>4 DEF KeysBetween, Keyed, MayKeyed
<1>6. EventsMetered
  BY DEF Init, EventsMetered
<1>7. SlotsCounted
  <2> SUFFICES ASSUME NEW t \in Tenants, NEW s \in Ticks, Rps[t] > 0
               PROVE  /\ Cardinality(InSlot(t, s)) <= Rps[t]
                      /\ Cardinality(InSlot(t, s)) <= burst[<<t, s>>]
    BY DEF SlotsCounted
  <2>1. InSlot(t, s) = {}
    BY DEF InSlot, Init
  <2>. QED
    BY <2>1, FS_EmptySet, QuotaGateAssumption DEF Init
<1>. QED
  BY <1>1, <1>3, <1>5, <1>6, <1>7 DEF AccountsInv

(* An event is pushed by the last step of a handler.                       *)
LEMMA EventsStay ==
    ASSUME EventsMetered, TypeOK, NEW r \in Requests, pc[r] # "metered", NEW to,
           pc' = [pc EXCEPT ![r] = to], events' = events
    PROVE  EventsMetered'
BY DEF EventsMetered, TypeOK

(* incr_key moves the key's counter with the request.                      *)
LEMMA KeyStep ==
    ASSUME AccountsInv, TypeOK', NEW r \in Requests, CountKey(r)
    PROVE  LiveExact' /\ KeysBetween'
<1>0. /\ TypeOK /\ milli[r] \in Nat /\ KeyOf[r] \in Keys /\ period[r] \in Periods
      /\ pc[r] = "served" /\ pc' = [pc EXCEPT ![r] = "keyed"]
      /\ UNCHANGED <<live, evictions, period, milli>>
  BY QuotaGateAssumption DEF AccountsInv, TypeOK, CountKey, Goto
<1>1. pc'[r] = "keyed" /\ \A q \in Requests \ {r} : pc'[q] = pc[q]
  BY <1>0 DEF TypeOK
<1>2. keyLive' = [keyLive EXCEPT ![<<KeyOf[r], period[r]>>] = @ + milli[r]]
  BY DEF CountKey, KeyAccount
<1>3. Account(r)' = Account(r) /\ Account(r) = <<TenantOf[KeyOf[r]], period[r]>>
  BY <1>0 DEF Account, Tenant
<1>4. ASSUME NEW a \in Tenants \X Periods
      PROVE  /\ live'[a] - live[a] = Part(Charged, a)'[r] - Part(Charged, a)[r]
             /\ Part(Keyed, a)'[r] - Part(Keyed, a)[r] <= KeysTotal(a)' - KeysTotal(a)
             /\ KeysTotal(a)' - KeysTotal(a) <= Part(MayKeyed, a)'[r] - Part(MayKeyed, a)[r]
  <2>1. live[a] \in Int /\ live'[a] = live[a] /\ KeysTotal(a) \in Int
    BY <1>0, KeysTotalTypes DEF TypeOK
  <2>2. KeysTotal(a)' = KeysTotal(a) + IF a = Account(r) THEN milli[r] ELSE 0
    <3>1. /\ keyLive \in [Keys \X Periods -> Nat] /\ KeyOf[r] \in Keys /\ period[r] \in Periods
          /\ milli[r] \in Nat
      BY <1>0 DEF TypeOK
    <3>. QED
      <4>1. KeysTotal(a)' = KeysTotal(a) + IF a = <<TenantOf[KeyOf[r]], period[r]>> THEN milli[r] ELSE 0
        BY <1>0, <1>2, <3>1, KeysTotalStep, ZenonT(60)
      <4>. QED
        BY <1>3, <4>1
  <2>3. /\ Part(Charged, a)'[r] = Part(Charged, a)[r]
        /\ Part(Charged, a)[r] = IF a = Account(r) THEN milli[r] ELSE 0
    BY <1>0, <1>1, <1>3 DEF Part, Charged
  <2>4. /\ Part(Keyed, a)[r] = 0 /\ Part(MayKeyed, a)[r] = 0
        /\ Part(Keyed, a)'[r] = IF a = Account(r) THEN milli[r] ELSE 0
        /\ Part(MayKeyed, a)'[r] = IF a = Account(r) THEN milli[r] ELSE 0
    BY <1>0, <1>1, <1>3 DEF Part, Keyed, MayKeyed
  <2>. QED
    BY <1>0, <2>1, <2>2, <2>3, <2>4
<1>. QED
  BY <1>0, <1>1, <1>4, MovedWithCounters

LEMMA NextAccountsInv == AccountsInv /\ [Next]_vars => AccountsInv'
<1> SUFFICES ASSUME AccountsInv, [Next]_vars PROVE AccountsInv'
  OBVIOUS
<1> USE QuotaGateAssumption
<1>0. TypeOK /\ TypeOK' /\ LiveExact /\ KeysBetween /\ EventsMetered /\ SlotsCounted
  BY NextTypeOK DEF AccountsInv
<1>1. ASSUME NEW r \in Requests, FreePass(r) \/ SkipRps(r) \/ Price(r)
      PROVE  AccountsInv'
  <2>1. PICK to \in {"free", "admitted", "priced"} :
            /\ pc' = [pc EXCEPT ![r] = to]
            /\ to = "free" \/ pc[r] = "admitted" \/ Rps[Tenant(r)] = 0
    BY <1>1 DEF FreePass, SkipRps, Price, Goto
  <2>2. /\ pc[r] \in {"arrived", "admitted"}
        /\ UNCHANGED <<burst, live, keyLive, events, evictions, second>>
        /\ \A q \in Requests \ {r} : period'[q] = period[q] /\ milli'[q] = milli[q]
    BY <1>0, <1>1 DEF FreePass, SkipRps, Price, Goto, counterVars, TypeOK
  <2>3. LiveExact' /\ KeysBetween'
    BY <1>0, <2>1, <2>2, NoCounterStep DEF Charged, Keyed, MayKeyed
  <2>4. EventsMetered'
    BY <1>0, <2>1, <2>2, EventsStay
  <2>5. SlotsCounted'
    BY <1>0, <2>1, <2>2, SlotsKept DEF TypeOK
  <2>. QED
    BY <1>0, <2>3, <2>4, <2>5 DEF AccountsInv
<1>2. ASSUME NEW r \in Requests, AllowRps(r) PROVE AccountsInv'
  <2>1. PICK to \in {"admitted", "limited"} : pc' = [pc EXCEPT ![r] = to]
    BY <1>2 DEF AllowRps, Goto
  <2>2. pc[r] = "arrived" /\ UNCHANGED <<live, keyLive, events, evictions, period, milli>>
    BY <1>2 DEF AllowRps, Goto
  <2>3. LiveExact' /\ KeysBetween'
    BY <1>0, <2>1, <2>2, NoCounterStep DEF Charged, Keyed, MayKeyed
  <2>4. EventsMetered'
    BY <1>0, <2>1, <2>2, EventsStay
  <2>. QED
    BY <1>0, <1>2, <2>3, <2>4, SlotTaken DEF AccountsInv
<1>3. ASSUME NEW r \in Requests, ReserveSoft(r) \/ Exec(r) PROVE AccountsInv'
  <2>1. /\ pc[r] \in {"priced", "multi"} /\ pc' = [pc EXCEPT ![r] = "reserved"]
        /\ AddLive(Account(r), milli[r])
        /\ UNCHANGED <<burst, keyLive, events, evictions, second, period, milli>>
    BY <1>3 DEF ReserveSoft, Exec, Goto
  <2>2. /\ milli[r] = (IF "reserved" \in Charged THEN milli[r] ELSE 0)
                        - (IF pc[r] \in Charged THEN milli[r] ELSE 0)
        /\ pc[r] \notin MayKeyed /\ "reserved" \notin MayKeyed
    BY <1>0, <2>1 DEF TypeOK, Charged, Keyed, MayKeyed
  <2>3. LiveExact' /\ KeysBetween'
    BY <1>0, <2>1, <2>2, LiveStep
  <2>4. EventsMetered'
    BY <1>0, <2>1, EventsStay
  <2>5. SlotsCounted'
    BY <1>0, <2>1, SlotsKept DEF TypeOK
  <2>. QED
    BY <1>0, <2>3, <2>4, <2>5 DEF AccountsInv
<1>4. ASSUME NEW r \in Requests,
             Watch(r) \/ ReadCounter(r) \/ Retry(r) \/ Forward(r) \/ PushEvent(r)
      PROVE  AccountsInv'
  <2>1. PICK to \in {"watching", "refused", "multi", "priced", "served", "failed", "metered"} :
            /\ pc' = [pc EXCEPT ![r] = to]
            /\ to \in {"served", "failed"} <=> pc[r] = "reserved"
            /\ to = "metered" <=> pc[r] = "keyed"
    BY <1>4 DEF Watch, ReadCounter, Retry, Forward, PushEvent, Goto
  <2>2. /\ pc[r] \in {"priced", "watching", "multi", "reserved", "keyed"}
        /\ UNCHANGED <<burst, live, keyLive, evictions, second, period, milli>>
    BY <1>4 DEF Watch, ReadCounter, Retry, Forward, PushEvent, Goto, counterVars
  <2>3. LiveExact' /\ KeysBetween'
    BY <1>0, <2>1, <2>2, NoCounterStep DEF Charged, Keyed, MayKeyed
  <2>4. EventsMetered'
    <3>1. CASE PushEvent(r)
      BY <1>0, <3>1 DEF PushEvent, Goto, EventsMetered, TypeOK
    <3>2. CASE Watch(r) \/ ReadCounter(r) \/ Retry(r) \/ Forward(r)
      <4>1. events' = events
        BY <3>2 DEF Watch, ReadCounter, Retry, Forward, counterVars
      <4>. QED
        BY <1>0, <2>1, <2>2, <4>1, EventsStay
    <3>. QED
      BY <1>4, <3>1, <3>2
  <2>5. SlotsCounted'
    BY <1>0, <2>1, <2>2, SlotsKept DEF TypeOK
  <2>. QED
    BY <1>0, <2>3, <2>4, <2>5 DEF AccountsInv
<1>5. ASSUME NEW r \in Requests, Refund(r) PROVE AccountsInv'
  <2>1. /\ pc[r] = "failed" /\ pc' = [pc EXCEPT ![r] = "refunded"]
        /\ AddLive(Account(r), 0 - milli[r])
        /\ UNCHANGED <<burst, keyLive, events, evictions, second, period, milli>>
    BY <1>5 DEF Refund, Goto
  <2>2. LiveExact' /\ KeysBetween'
    <3>1. /\ 0 - milli[r] = (IF "refunded" \in Charged THEN milli[r] ELSE 0)
                              - (IF pc[r] \in Charged THEN milli[r] ELSE 0)
          /\ pc[r] \notin MayKeyed /\ "refunded" \notin MayKeyed
      BY <1>0, <2>1 DEF TypeOK, Charged, Keyed, MayKeyed
    <3>. QED
      BY <1>0, <2>1, <3>1, LiveStep
  <2>3. EventsMetered'
    BY <1>0, <2>1, EventsStay
  <2>4. SlotsCounted'
    BY <1>0, <2>1, SlotsKept DEF TypeOK
  <2>. QED
    BY <1>0, <2>2, <2>3, <2>4 DEF AccountsInv
<1>6. ASSUME NEW r \in Requests, CountKey(r) PROVE AccountsInv'
  <2>1. /\ pc[r] = "served" /\ pc' = [pc EXCEPT ![r] = "keyed"]
        /\ UNCHANGED <<burst, second, events>>
    BY <1>6 DEF CountKey, Goto
  <2>2. EventsMetered' /\ SlotsCounted'
    BY <1>0, <2>1, EventsStay, SlotsKept DEF TypeOK
  <2>. QED
    BY <1>0, <1>6, <2>2, KeyStep DEF AccountsInv
<1>7. ASSUME NEW r \in Requests, Crash(r) PROVE AccountsInv'
  <2> DEFINE to == IF pc[r] \in Charged THEN "leaked" ELSE "crashed"
  <2>1. /\ pc[r] \notin Answered /\ pc' = [pc EXCEPT ![r] = to]
        /\ UNCHANGED <<burst, live, keyLive, events, evictions, second, period, milli>>
    BY <1>7 DEF Crash, counterVars
  <2>2. LiveExact' /\ KeysBetween'
    <3>1. /\ pc[r] \in Charged <=> to \in Charged
          /\ to \in Keyed => pc[r] \in Keyed
          /\ pc[r] \in MayKeyed => to \in MayKeyed
      BY DEF Charged, Keyed, MayKeyed
    <3> HIDE DEF to
    <3>. QED
      BY <1>0, <2>1, <3>1, NoCounterStep
  <2>3. EventsMetered'
    BY <1>0, <2>1, EventsStay DEF Answered
  <2>4. SlotsCounted'
    <3>1. pc[r] \in {"arrived", "free", "limited", "crashed"} => to = "crashed"
      BY DEF Charged
    <3> HIDE DEF to
    <3>. QED
      BY <1>0, <2>1, <3>1, SlotsKept DEF TypeOK
  <2>. QED
    BY <1>0, <2>2, <2>3, <2>4 DEF AccountsInv
<1>8. CASE Tick \/ UNCHANGED vars
  <2>1. UNCHANGED <<counterVars, pc, second, period, milli>>
    BY <1>8 DEF Tick, vars
  <2>2. /\ \A among, a : Owed(among, a)' = Owed(among, a)
        /\ \A a : KeysTotal(a)' = KeysTotal(a)
        /\ \A t, s : InSlot(t, s)' = InSlot(t, s)
    BY <2>1 DEF Owed, Part, Account, Tenant, KeysTotal, InSlot, counterVars
  <2>. QED
    BY <1>0, <2>1, <2>2
       DEF AccountsInv, LiveExact, KeysBetween, EventsMetered, SlotsCounted, counterVars
<1>9. ASSUME NEW t \in Tenants, NEW p \in Periods, Evict(t, p) PROVE AccountsInv'
  <2>1. /\ UNCHANGED <<burst, keyLive, events, pc, second, period, milli>>
        /\ evictions' = evictions + 1
    BY <1>9 DEF Evict
  <2>2. /\ \A among, a : Owed(among, a)' = Owed(among, a)
        /\ \A a : KeysTotal(a)' = KeysTotal(a)
        /\ \A u, s : InSlot(u, s)' = InSlot(u, s)
    BY <2>1 DEF Owed, Part, Account, Tenant, KeysTotal, InSlot
  <2>3. evictions' # 0
    BY <1>0, <2>1 DEF TypeOK
  <2>. QED
    BY <1>0, <2>1, <2>2, <2>3
       DEF AccountsInv, LiveExact, KeysBetween, EventsMetered, SlotsCounted
<1>. QED
  BY <1>1, <1>2, <1>3, <1>4, <1>5, <1>6, <1>7, <1>8, <1>9 DEF Next, Step

\* The requests in a stage of `among` that are on an account.
Holding(among, a) == {r \in Requests : pc[r] \in among /\ Account(r) = a}

LEMMA AccountsImplyCounters == AccountsInv => CountersInv
<1> SUFFICES ASSUME AccountsInv PROVE CountersInv
  OBVIOUS
<1> USE QuotaGateAssumption
<1>0. TypeOK /\ LiveExact /\ KeysBetween /\ EventsMetered /\ SlotsCounted
  BY DEF AccountsInv
<1>1. ASSUME NEW among, NEW a
      PROVE  IsFiniteSet(Holding(among, a)) /\ Owed(among, a) = MilliOf(Holding(among, a))
  <2> DEFINE S == Holding(among, a)
  <2>1. S \subseteq Requests /\ IsFiniteSet(S)
    BY FS_Subset DEF Holding
  <2>2. /\ \A r \in S : milli[r] \in Int /\ Part(among, a)[r] = milli[r]
        /\ \A r \in Requests \ S : Part(among, a)[r] = 0
    BY <1>0 DEF Part, TypeOK, Holding
  <2> HIDE DEF S
  <2>3. SumFunctionOnSet(Part(among, a), Requests) = SumFunctionOnSet(milli, S)
    BY <2>1, <2>2, SumOverSubset
  <2>. QED
    BY <2>1, <2>3 DEF Owed, MilliOf, S
<1>2. CounterAccounts
  <2> SUFFICES ASSUME evictions = 0, NEW t \in Tenants, NEW p \in Periods
               PROVE  live[<<t, p>>] =
                        MilliOf({r \in Requests : pc[r] \in Charged /\ Account(r) = <<t, p>>})
    BY DEF CounterAccounts
  <2>. QED
    BY <1>0, <1>1 DEF LiveExact, Holding
<1>3. EventsWithinCounters
  <2> SUFFICES ASSUME evictions = 0, NEW t \in Tenants, NEW p \in Periods
               PROVE  /\ MilliOf({r \in events : Account(r) = <<t, p>>}) <= KeysTotal(<<t, p>>)
                      /\ KeysTotal(<<t, p>>) <= live[<<t, p>>]
    BY DEF EventsWithinCounters, KeysTotal
  <2> DEFINE a == <<t, p>>
             E == {r \in events : Account(r) = a}
             K == Holding(Keyed, a)
             L == Holding(MayKeyed, a)
             C == Holding(Charged, a)
  <2>1. /\ Owed(Keyed, a) = MilliOf(K) /\ Owed(MayKeyed, a) = MilliOf(L)
        /\ Owed(Charged, a) = MilliOf(C)
        /\ IsFiniteSet(K) /\ IsFiniteSet(L) /\ IsFiniteSet(C)
    BY <1>1
  <2>2. /\ E \subseteq K /\ L \subseteq C
        /\ \A r \in Requests : milli[r] \in Nat
    BY <1>0 DEF TypeOK, EventsMetered, Keyed, MayKeyed, Charged, Holding
  <2>3. /\ \A r \in K : milli[r] \in Nat
        /\ \A r \in C : milli[r] \in Nat
    BY <2>2 DEF Holding
  <2>4. a \in Tenants \X Periods
    OBVIOUS
  <2> HIDE DEF a, E, K, L, C
  <2>5. MilliOf(E) <= MilliOf(K) /\ MilliOf(L) <= MilliOf(C)
    BY <2>1, <2>2, <2>3, SumSubset DEF MilliOf
  <2>6. /\ MilliOf(E) \in Int /\ MilliOf(K) \in Int /\ MilliOf(L) \in Int /\ MilliOf(C) \in Int
    <3>1. IsFiniteSet(E)
      BY <2>1, <2>2, FS_Subset
    <3>2. /\ \A r \in E : milli[r] \in Int
          /\ \A r \in L : milli[r] \in Int
      BY <2>2, <2>3
    <3>. QED
      BY <2>1, <2>3, <3>1, <3>2, SumIsInt DEF MilliOf
  <2>7. /\ MilliOf(K) <= KeysTotal(a) /\ KeysTotal(a) <= MilliOf(L)
        /\ KeysTotal(a) \in Int /\ live[a] = MilliOf(C)
    BY <1>0, <2>1, <2>4, KeysTotalTypes DEF KeysBetween, LiveExact
  <2>. QED
    BY <2>5, <2>6, <2>7 DEF a, E
<1>4. BurstCap
  <2>1. \A t \in Tenants, s \in Ticks : Rps[t] > 0 => Cardinality(InSlot(t, s)) <= Rps[t]
    BY <1>0 DEF SlotsCounted
  <2>. QED
    BY <2>1, Zenon DEF BurstCap, InSlot
<1>. QED
  BY <1>2, <1>3, <1>4 DEF CountersInv

(* The counters are right whatever the replicas interleave: as long as no  *)
(* counter is evicted, a tenant's counter is exactly what its unrefunded   *)
(* requests were charged and billing is behind the key counters, which are *)
(* behind it; and no second admits more than the plan's rps (usage.py      *)
(* incr_tenant_if_allowed, refund_tenant, incr_key, allow_rps).            *)
THEOREM CountersRight == Spec => []CountersInv
BY InitAccountsInv, NextAccountsInv, AccountsImplyCounters, PTL DEF Spec

----------------------------------------------------------------------------
(* A place's document.                                                     *)

\* An address, or none yet.
Addresses == {{}} \cup {{a} : a \in Address}

Mapped == Areas \cup {0}

DocOK ==
    /\ doc = [tags |-> doc.tags, text |-> doc.text, area |-> doc.area, pop |-> doc.pop,
              address |-> doc.address, about |-> doc.about]
    /\ doc.area \in Mapped /\ doc.pop \in -1 .. PopularityMax /\ doc.address \in Addresses

TasksOK ==
    /\ ingest.at \in {"none", "write"} /\ ingest.area \in Mapped
    /\ enrich \in [Processes -> [at : {"none", "find", "write"}, area : Mapped, address : Addresses]]
    /\ \A m \in Misses : describe[m].at \in {"none", "generate"}
    /\ describe = [m \in Misses |-> describe[m]]
    /\ indexed \subseteq Around \cup {Street}

PlaceIInv == DocOK /\ TasksOK /\ FreshWhenWritten /\ TextFollowsTags

\* What enrich_address makes needs no refresh.
LEMMA FoundIsFresh ==
    ASSUME NEW known \in SUBSET (Around \cup {Street}), NEW area \in Mapped
    PROVE  Found(known, area) \in Address /\ ~ NeedsRefresh({Found(known, area)}, area)
<1>1. PICK a : a = Found(known, area)
  OBVIOUS
<1>2. /\ a.street = (~ SkipStreet(area) /\ Street \in known)
      /\ a.parents = {q \in (Around \ {Self}) \cap known : Encloses(q, area)}
      /\ a = [street |-> a.street, parents |-> a.parents]
  BY <1>1 DEF Found
<1>3. a \in Address
  BY <1>2 DEF Address
<1>4. area \in Nat /\ \A p \in Around : AreaOf[p] \in Nat
  BY PlaceDocumentAssumption DEF Mapped
<1>5. ASSUME NEW p \in a.parents PROVE ~ (area > 0 /\ AreaOf[p] <= area)
  <2>1. p \in Around /\ Encloses(p, area)
    BY <1>2
  <2>2. PICK n \in Nat : n = AreaOf[p]
    BY <1>4, <2>1
  <2>. QED
    BY <1>4, <2>1, <2>2 DEF Encloses
<1>6. Self \notin a.parents /\ ~ (SkipStreet(area) /\ a.street)
  BY <1>2
<1>7. ~ NeedsRefresh({a}, area)
  BY <1>5, <1>6 DEF NeedsRefresh
<1>. QED
  BY <1>1, <1>3, <1>7

\* A message never takes from the tags, and its text is in the merged tags.
LEMMA MergedText ==
    ASSUME NEW old, NEW new
    PROVE  TextOf(new) \subseteq TextOf(Merged(old, new))
BY DEF TextOf, Merged

LEMMA InitPlace == PlaceInit => PlaceIInv
<1>. SUFFICES ASSUME PlaceInit PROVE PlaceIInv
  OBVIOUS
<1>1. DocOK
  BY PlaceDocumentAssumption DEF PlaceInit, NoDoc, DocOK, Mapped, Addresses
<1>2. TasksOK
  BY DEF PlaceInit, TasksOK, NoIngest, NoEnrich, NoDescribe, Mapped, Addresses
<1>3. FreshWhenWritten /\ TextFollowsTags
  BY DEF PlaceInit, FreshWhenWritten, TextFollowsTags, NoEnrich, NoDoc, Exists
<1>. QED
  BY <1>1, <1>2, <1>3 DEF PlaceIInv

\* A step that leaves the document, the address in hand and what was read.
LEMMA IngestReadsStep ==
    ASSUME PlaceIInv, NEW t, NEW a \in Areas, IngestReads(t, a)
    PROVE  PlaceIInv'
BY DEF PlaceIInv, DocOK, TasksOK, FreshWhenWritten, TextFollowsTags, IngestReads, Mapped,
       Exists

LEMMA IngestWritesStep ==
    ASSUME PlaceIInv, IngestWrites
    PROVE  PlaceIInv'
<1>1. PICK w : w = Written(doc, ingest.tags, ingest.area)
  OBVIOUS
<1>2. /\ w = [tags |-> w.tags, text |-> w.text, area |-> w.area, pop |-> w.pop,
              address |-> w.address, about |-> w.about]
      /\ w.tags = Merged(doc.tags, ingest.tags)
      /\ w.text = TextOf(IF google THEN w.tags ELSE ingest.tags)
      /\ w.area = ingest.area /\ w.address = doc.address
      /\ w.pop = IF doc.pop < 0 THEN 0 ELSE doc.pop
  BY <1>1 DEF Written, PlaceIInv, DocOK
<1>3. doc' = doc \/ doc' = w
  BY <1>1 DEF IngestWrites
<1>4. DocOK'
  <2>1. w.pop \in -1 .. PopularityMax
    BY <1>2, PlaceDocumentAssumption DEF PlaceIInv, DocOK
  <2>. QED
    BY <1>2, <1>3, <2>1 DEF PlaceIInv, DocOK, TasksOK
<1>5. TasksOK' /\ FreshWhenWritten'
  BY DEF IngestWrites, PlaceIInv, TasksOK, FreshWhenWritten, NoIngest, Mapped
<1>6. TextFollowsTags'
  <2>1. w.text \subseteq TextOf(w.tags) /\ (google => w.text = TextOf(w.tags))
    BY <1>2, MergedText
  <2>2. google' = google
    BY DEF IngestWrites, boundVars
  <2>. QED
    BY <1>3, <2>1, <2>2 DEF PlaceIInv, TextFollowsTags, Exists
<1>. QED
  BY <1>4, <1>5, <1>6 DEF PlaceIInv

\* Another writer of the document leaves its tags and its text.
LEMMA OtherWrites ==
    ASSUME PlaceIInv, NEW pop \in -1 .. PopularityMax, NEW address \in Addresses, NEW about,
           pop >= 0 => Exists,
           doc' = [doc EXCEPT !.pop = pop, !.address = address, !.about = about],
           google' = google
    PROVE  DocOK' /\ TextFollowsTags'
<1>1. /\ doc' = [tags |-> doc.tags, text |-> doc.text, area |-> doc.area, pop |-> pop,
                 address |-> address, about |-> about]
  BY DEF PlaceIInv, DocOK
<1>2. DocOK'
  BY <1>1 DEF DocOK, PlaceIInv
<1>3. TextFollowsTags'
  BY <1>1 DEF TextFollowsTags, PlaceIInv, Exists
<1>. QED
  BY <1>2, <1>3

LEMMA EnrichStep ==
    ASSUME PlaceIInv, NEW r \in Processes,
           Search(r) \/ FindAddress(r) \/ MgetFails(r) \/ EnrichFails(r)
    PROVE  PlaceIInv'
<1>1. PICK e \in [at : {"none", "find", "write"}, area : Mapped, address : Addresses] :
        e = enrich[r]
  BY DEF PlaceIInv, TasksOK
<1>2. ASSUME NEW known \in SUBSET (Around \cup {Street}), NEW area \in Mapped
      PROVE  /\ {Found(known, area)} \in Addresses /\ ~ NeedsRefresh({Found(known, area)}, area)
  BY <1>2, FoundIsFresh DEF Addresses
<1>3. PICK f \in [at : {"none", "find", "write"}, area : Mapped, address : Addresses] :
        /\ enrich' = [enrich EXCEPT ![r] = f]
        /\ f.at = "write" => ~ NeedsRefresh(f.address, f.area)
  <2>1. CASE Search(r)
    <3>1. PICK f : f = [at |-> "find", area |-> doc.area, address |-> {}]
      OBVIOUS
    <3>2. f \in [at : {"none", "find", "write"}, area : Mapped, address : Addresses]
      BY <3>1 DEF PlaceIInv, DocOK, Addresses
    <3>. QED
      BY <2>1, <3>1, <3>2 DEF Search
  <2>2. ASSUME NEW known \in SUBSET (Around \cup {Street}),
               enrich' = [enrich EXCEPT ![r] =
                    [@ EXCEPT !.at = "write", !.address = {Found(known, enrich[r].area)}]]
        PROVE  \E f \in [at : {"none", "find", "write"}, area : Mapped, address : Addresses] :
                  /\ enrich' = [enrich EXCEPT ![r] = f]
                  /\ f.at = "write" => ~ NeedsRefresh(f.address, f.area)
    <3>1. PICK a : a = {Found(known, e.area)}
      OBVIOUS
    <3>2. a \in Addresses /\ ~ NeedsRefresh(a, e.area)
      BY <1>2, <3>1
    <3>3. PICK f : f = [e EXCEPT !.at = "write", !.address = a]
      OBVIOUS
    <3>4. f \in [at : {"none", "find", "write"}, area : Mapped, address : Addresses]
      BY <3>2, <3>3
    <3>5. f.area = e.area /\ f.address = a
      BY <3>3, <3>4
    <3>6. enrich' = [enrich EXCEPT ![r] = f]
      <4>1. enrich' = [enrich EXCEPT ![r] =
                        [enrich[r] EXCEPT !.at = "write", !.address = {Found(known, enrich[r].area)}]]
        BY <2>2
      <4>. QED
        BY <1>1, <3>1, <3>3, <4>1
    <3>. QED
      BY <3>2, <3>4, <3>5, <3>6
  <2>3. CASE FindAddress(r)
    BY <2>2, <2>3 DEF FindAddress, PlaceIInv, TasksOK
  <2>4. CASE MgetFails(r)
    <3>1. {} \in SUBSET (Around \cup {Street})
      OBVIOUS
    <3>. QED
      BY <2>2, <2>4, <3>1 DEF MgetFails
  <2>5. CASE EnrichFails(r)
    <3>1. NoEnrich \in [at : {"none", "find", "write"}, area : Mapped, address : Addresses]
      BY DEF NoEnrich, Mapped, Addresses
    <3>. QED
      BY <2>5, <3>1 DEF EnrichFails, NoEnrich
  <2>. QED
    BY <2>1, <2>3, <2>4, <2>5
<1>4. UNCHANGED <<doc, ingest, describe, indexed, google>>
  BY DEF Search, FindAddress, MgetFails, EnrichFails, boundVars
<1>5. TasksOK' /\ DocOK' /\ TextFollowsTags'
  BY <1>3, <1>4 DEF PlaceIInv, TasksOK, DocOK, TextFollowsTags, Exists
<1>6. FreshWhenWritten'
  BY <1>3 DEF PlaceIInv, TasksOK, FreshWhenWritten
<1>. QED
  BY <1>5, <1>6 DEF PlaceIInv

LEMMA WriteAddressStep ==
    ASSUME PlaceIInv, NEW r \in Processes, WriteAddress(r)
    PROVE  PlaceIInv' /\ doc'.address # {} /\ doc'.pop = doc.pop /\ doc'.about = doc.about
<1>1. PICK address \in Addresses : address = enrich[r].address /\ address # {}
  BY DEF WriteAddress, PlaceIInv, TasksOK, FreshWhenWritten, NeedsRefresh
<1>2. doc' = [doc EXCEPT !.pop = doc.pop, !.address = address, !.about = doc.about]
  BY <1>1 DEF WriteAddress, PlaceIInv, DocOK
<1>4. DocOK' /\ TextFollowsTags'
  <2>1. google' = google /\ (doc.pop >= 0 => Exists)
    BY DEF WriteAddress, boundVars, Exists
  <2>2. doc.pop \in -1 .. PopularityMax
    BY DEF PlaceIInv, DocOK
  <2>. QED
    BY <1>2, <2>1, <2>2, OtherWrites
<1>5. TasksOK' /\ FreshWhenWritten'
  <2>1. NoEnrich \in [at : {"none", "find", "write"}, area : Mapped, address : Addresses]
        /\ NoEnrich.at = "none"
    BY DEF NoEnrich, Mapped, Addresses
  <2>2. /\ enrich' = [enrich EXCEPT ![r] = NoEnrich]
        /\ ingest' = [ingest EXCEPT !.overtaken = ingest.at = "write"]
        /\ UNCHANGED <<describe, indexed>>
    BY DEF WriteAddress, Overtake
  <2>. QED
    BY <2>1, <2>2 DEF PlaceIInv, TasksOK, FreshWhenWritten
<1>6. doc'.address = address /\ doc'.pop = doc.pop /\ doc'.about = doc.about
  BY <1>2 DEF PlaceIInv, DocOK
<1>. QED
  BY <1>1, <1>4, <1>5, <1>6 DEF PlaceIInv

LEMMA FeedbackStep ==
    ASSUME PlaceIInv, Feedback
    PROVE  PlaceIInv' /\ doc'.pop = doc.pop + 1 /\ doc'.address = doc.address /\ doc'.about = doc.about
<1>1. doc.pop \in 0 .. PopularityMax /\ doc.pop + 1 \in 0 .. PopularityMax
  BY PlaceDocumentAssumption DEF Feedback, PlaceIInv, DocOK, Exists
<1>2. doc' = [doc EXCEPT !.pop = doc.pop + 1, !.address = doc.address, !.about = doc.about]
  BY DEF Feedback, PlaceIInv, DocOK
<1>3. DocOK' /\ TextFollowsTags'
  <2>1. google' = google /\ Exists
    BY DEF Feedback, boundVars
  <2>2. doc.pop + 1 \in -1 .. PopularityMax /\ doc.address \in Addresses
    BY <1>1 DEF PlaceIInv, DocOK
  <2>. QED
    BY <1>2, <2>1, <2>2, OtherWrites
<1>4. TasksOK' /\ FreshWhenWritten'
  BY DEF Feedback, Overtake, PlaceIInv, TasksOK, FreshWhenWritten
<1>5. doc'.address = doc.address /\ doc'.pop = doc.pop + 1 /\ doc'.about = doc.about
  BY <1>2 DEF PlaceIInv, DocOK
<1>. QED
  BY <1>3, <1>4, <1>5 DEF PlaceIInv

LEMMA CacheDescriptionStep ==
    ASSUME PlaceIInv, NEW m \in Misses, CacheDescription(m)
    PROVE  PlaceIInv' /\ doc'.about # {} /\ doc'.pop = doc.pop /\ doc'.address = doc.address
<1>1. PICK about : about = {describe[m].tags}
  OBVIOUS
<1>2. doc' = [doc EXCEPT !.pop = doc.pop, !.address = doc.address, !.about = about]
  BY <1>1 DEF CacheDescription, PlaceIInv, DocOK
<1>3. DocOK' /\ TextFollowsTags'
  <2>1. google' = google /\ (doc.pop >= 0 => Exists)
    BY DEF CacheDescription, boundVars, Exists
  <2>2. doc.pop \in -1 .. PopularityMax /\ doc.address \in Addresses
    BY DEF PlaceIInv, DocOK
  <2>. QED
    BY <1>2, <2>1, <2>2, OtherWrites
<1>4. TasksOK' /\ FreshWhenWritten'
  BY DEF CacheDescription, Overtake, PlaceIInv, TasksOK, FreshWhenWritten, NoDescribe
<1>5. doc'.about = about /\ doc'.pop = doc.pop /\ doc'.address = doc.address
  BY <1>2 DEF PlaceIInv, DocOK
<1>. QED
  BY <1>1, <1>3, <1>4, <1>5 DEF PlaceIInv

LEMMA OthersStep ==
    ASSUME PlaceIInv,
           \/ \E x \in Around \cup {Street} : IndexOther(x)
           \/ \E m \in Misses : Describe(m) \/ DescribeFails(m)
    PROVE  PlaceIInv'
<1>1. UNCHANGED <<doc, ingest, enrich, google>>
  BY DEF IndexOther, Describe, DescribeFails, boundVars
<1>2. indexed' \subseteq Around \cup {Street}
  BY DEF IndexOther, Describe, DescribeFails, PlaceIInv, TasksOK
<1>3. /\ \A m \in Misses : describe'[m].at \in {"none", "generate"}
      /\ describe' = [m \in Misses |-> describe'[m]]
  BY DEF IndexOther, Describe, DescribeFails, PlaceIInv, TasksOK, NoDescribe
<1>. QED
  BY <1>1, <1>2, <1>3 DEF PlaceIInv, DocOK, TasksOK, FreshWhenWritten, TextFollowsTags, Exists

LEMMA NextPlace == PlaceIInv /\ [PlaceNext]_placeVars => PlaceIInv'
<1>. SUFFICES ASSUME PlaceIInv, [PlaceNext]_placeVars PROVE PlaceIInv'
  OBVIOUS
<1>1. CASE UNCHANGED placeVars
  BY <1>1 DEF placeVars, PlaceIInv, DocOK, TasksOK, FreshWhenWritten, TextFollowsTags, Exists
<1>. QED
  BY <1>1, IngestReadsStep, IngestWritesStep, FeedbackStep, EnrichStep, WriteAddressStep,
     CacheDescriptionStep, OthersStep DEF PlaceNext

(* However the bulk updates, /feedback, the enrichments of all replicas and  *)
(* the descriptions overlap and fail: an address that was made needs no      *)
(* refresh, and the searchable text says what the tags say and no more.      *)
THEOREM PlaceInvariant == PlaceSpec => []PlaceInv
<1>1. PlaceIInv => PlaceInv
  <2>. SUFFICES ASSUME PlaceIInv PROVE PlaceInv
    OBVIOUS
  <2>1. ASSUME NEW a \in Addresses PROVE a \subseteq Address /\ Cardinality(a) <= 1
    <3>1. a = {} \/ \E x : a = {x}
      BY <2>1 DEF Addresses
    <3>2. Cardinality(a) = 0 \/ Cardinality(a) = 1
      BY <3>1, FS_EmptySet, FS_Singleton
    <3>. QED
      BY <2>1, <3>2 DEF Addresses
  <2>2. PlaceTypeOK
    BY <2>1 DEF PlaceIInv, DocOK, TasksOK, PlaceTypeOK, Mapped
  <2>. QED
    BY <2>2 DEF PlaceIInv, PlaceInv
<1>2. PlaceSpec => []PlaceIInv
  BY InitPlace, NextPlace, PTL DEF PlaceSpec
<1>. QED
  BY <1>1, <1>2, PTL

(* No message, and no other writer, takes back a boost of /feedback, an     *)
(* address or a description.                                                *)
THEOREM OthersAreKept == PlaceSpec => OthersKept
<1>1. ASSUME PlaceIInv, [PlaceNext]_placeVars
      PROVE  [/\ doc'.pop >= doc.pop
              /\ doc.address # {} => doc'.address # {}
              /\ doc.about # {} => doc'.about # {}]_placeVars
  <2>1. doc.pop \in Int
    BY <1>1 DEF PlaceIInv, DocOK
  <2>2. CASE doc' = doc
    BY <2>1, <2>2
  <2>3. CASE IngestWrites
    BY <1>1, <2>1, <2>3 DEF IngestWrites, Written, PlaceIInv, DocOK
  <2>4. CASE Feedback
    BY <1>1, <2>1, <2>4, FeedbackStep
  <2>5. ASSUME NEW r \in Processes, WriteAddress(r)
        PROVE  doc'.pop >= doc.pop /\ doc'.address # {} /\ doc'.about = doc.about
    BY <1>1, <2>1, <2>5, WriteAddressStep
  <2>6. ASSUME NEW m \in Misses, CacheDescription(m)
        PROVE  doc'.pop >= doc.pop /\ doc'.about # {} /\ doc'.address = doc.address
    BY <1>1, <2>1, <2>6, CacheDescriptionStep
  <2>7. PlaceNext => \/ doc' = doc \/ IngestWrites \/ Feedback
                     \/ \E r \in Processes : WriteAddress(r)
                     \/ \E m \in Misses : CacheDescription(m)
    BY DEF PlaceNext, IngestReads, IndexOther, Search, FindAddress, MgetFails, EnrichFails,
           Describe, DescribeFails
  <2>8. UNCHANGED placeVars => doc' = doc
    BY DEF placeVars
  <2>. QED
    BY <1>1, <2>2, <2>3, <2>4, <2>5, <2>6, <2>7, <2>8
<1>2. PlaceSpec => []PlaceIInv
  BY InitPlace, NextPlace, PTL DEF PlaceSpec
<1>. QED
  BY <1>1, <1>2, PTL DEF PlaceSpec, OthersKept

----------------------------------------------------------------------------
(* The autocomplete index.                                                 *)

ClickSpots == {{}} \cup {{p} : p \in Places}
ClickAts   == {"none", "read", "meta", "bucket"}
ClickRecs  == [at : ClickAts, place : ClickSpots, boost : Boosts \cup {0}, doc : 0 .. Versions,
               seen : Popularities, new : Popularities]
WarmerAts  == {"asleep", "scan", "index", "end", "release"}
WarmerRecs == [at : WarmerAts, todo : SUBSET Members, last : SUBSET Members, count : Nat, lag : Nat]

SuggestTypes ==
    /\ places \in [Places -> Documents] /\ searchable \in [Places -> Documents]
    /\ meta \in [Places -> Documents \cup {NoMeta}]
    /\ bucket \subseteq Members /\ IsFiniteSet(bucket)
    /\ click \in [Clicks -> ClickRecs]
    /\ \A c \in Clicks : click[c].at # "none" => click[c].place # {}
    /\ warmer \in [Warmers -> WarmerRecs]
    /\ \A w \in Warmers : /\ warmer[w].at # "index" => warmer[w].todo = {}
                          /\ warmer[w].at = "asleep" => warmer[w].lag = 0
    /\ lease \in [of : SUBSET Warmers, age : 0 .. LeaseTTL - 1]
    /\ lastWarm \in Unwarmed .. Rewarm
    /\ entangled \subseteq Places
    /\ overran \in BOOLEAN

\* Until a warm-up takes too long, who is awake has the lease, and has had it
\* for as long as it has been awake.
LeaseHeld ==
    ~ overran =>
        \A w \in Warmers : warmer[w].at # "asleep" =>
            lease.of = {w} /\ lease.age = warmer[w].lag

Clicking(c, p) == click[c].at # "none" /\ p \in click[c].place
Warming(w, p)  == \E m \in warmer[w].todo : m.place = p

\* Of p, the bucket has members of versions before d, and at most that of d.
Own(p, d) == \A m \in bucket : m.place = p => m.doc < d.doc \/ m = Member(p, d)

\* Between the steps of a /feedback request.
Midway(k, p) ==
    \/ /\ k.at = "read" /\ Own(p, meta[p])
       /\ meta[p] # NoMeta => places[p].pop = Raised(meta[p].pop, k.boost)
    \/ /\ k.at = "meta" /\ Own(p, meta[p]) /\ meta[p] = [doc |-> k.doc, pop |-> k.seen]
       /\ k.new = places[p].pop /\ k.seen <= k.new
    \/ /\ k.at = "bucket" /\ Own(p, [doc |-> k.doc, pop |-> k.seen])
       /\ meta[p] = [doc |-> k.doc, pop |-> k.new]
       /\ k.new = places[p].pop /\ k.seen <= k.new

\* What a warm-up is about to index of p.
Fresh(m, p) == m.pop = places[p].pop /\ meta[p].doc <= m.doc /\ m.doc <= searchable[p].doc

\* One writer at a time brings the index to what Elasticsearch has, from one
\* version of the document to the same or a later one.
Follows(p) ==
    /\ meta[p].doc <= searchable[p].doc /\ searchable[p].doc <= places[p].doc
    /\ \A c, d \in Clicks : Clicking(c, p) /\ Clicking(d, p) => c = d
    /\ \A c \in Clicks, w \in Warmers : ~ (Clicking(c, p) /\ Warming(w, p))
    /\ \A c \in Clicks : Clicking(c, p) => Midway(click[c], p)
    /\ (\A c \in Clicks : ~ Clicking(c, p)) =>
          Own(p, meta[p]) /\ (meta[p] # NoMeta => meta[p].pop = places[p].pop)
    /\ \A w \in Warmers : \A m \in warmer[w].todo : m.place = p => Fresh(m, p)
    /\ \A v, w \in Warmers : \A m \in warmer[v].todo, n \in warmer[w].todo :
          m.place = p /\ n.place = p => m = n

EachFollows == \A p \in Places \ entangled : Follows(p)

SuggestIInv == SuggestTypes /\ LeaseHeld /\ EachFollows /\ BestStay

LEMMA RaisedFacts ==
    ASSUME NEW n \in Popularities, NEW b \in Nat
    PROVE  Raised(n, b) \in Popularities /\ n <= Raised(n, b)
BY SuggestIndexAssumption DEF Popularities, Raised

LEMMA ScoreFacts ==
    /\ \A m \in Members : Score(m) \in Nat
    /\ \A m, n \in Members : m.place = n.place /\ m.doc = n.doc /\ m.pop <= n.pop
                             => Score(m) <= Score(n)
<1>1. ASSUME NEW m \in Members PROVE Score(m) = RankOf(m) + 4 * m.pop /\ RankOf(m) \in Nat /\ m.pop \in Nat
  <2>1. m.place \in Places /\ m.doc \in 0 .. Versions /\ m.pop \in Popularities
    BY DEF Members
  <2>2. <<m.place, m.doc>> \in Places \X (0 .. Versions)
    BY <2>1
  <2>3. RankOf(m) \in Nat
    BY <2>2, SuggestIndexAssumption DEF RankOf
  <2>. QED
    BY <2>1, <2>3, SuggestIndexAssumption DEF Score, Popularities
<1>2. ASSUME NEW m \in Members PROVE Score(m) \in Nat
  <2>1. PICK r \in Nat, i \in Nat : Score(m) = r + 4 * i
    BY <1>1
  <2>. QED
    BY <2>1
<1>3. ASSUME NEW m \in Members, NEW n \in Members, m.place = n.place, m.doc = n.doc, m.pop <= n.pop
      PROVE  Score(m) <= Score(n)
  <2>1. RankOf(m) = RankOf(n)
    BY <1>3 DEF RankOf
  <2>2. PICK r \in Nat, i \in Nat, j \in Nat :
          Score(m) = r + 4 * i /\ Score(n) = r + 4 * j /\ i <= j
    BY <1>1, <1>3, <2>1
  <2>. QED
    BY <2>2
<1>. QED
  BY <1>2, <1>3

(* Whoever had TopK better ones before a trim has them after it.           *)
LEMMA TrimKeeps ==
    ASSUME NEW B, B \subseteq Members, IsFiniteSet(B), NEW x \in Nat,
           TopK <= Cardinality({m \in B : Score(m) > x})
    PROVE  TopK <= Cardinality({m \in Trimmed(B) : Score(m) > x})
<1> DEFINE U == {m \in B : Score(m) > x}
           V == {m \in Trimmed(B) : Score(m) > x}
           Better(m) == {n \in B : Score(n) > Score(m)}
<1>1. /\ Trimmed(B) = {m \in B : Cardinality(Better(m)) < TopK}
      /\ V \subseteq U /\ U \subseteq B
  BY DEF Trimmed
<1>2. /\ IsFiniteSet(U) /\ IsFiniteSet(V)
      /\ Cardinality(U) \in Nat /\ Cardinality(V) \in Nat /\ TopK \in Nat
      /\ \A m : IsFiniteSet(Better(m)) /\ Cardinality(Better(m)) \in Nat
  BY <1>1, FS_Subset, FS_CardinalityType, SuggestIndexAssumption
<1>3. \A m \in B : Score(m) \in Nat
  BY ScoreFacts
<1>4. TopK <= Cardinality(U)
  OBVIOUS
<1>. HIDE DEF U, V, Better
<1>5. SUFFICES ASSUME Cardinality(V) < TopK PROVE FALSE
  BY <1>2 DEF V
<1>6. U # V
  BY <1>2, <1>4, <1>5
<1>7. PICK R : R = {Cardinality(Better(m)) : m \in U \ V}
  OBVIOUS
<1>8. R \subseteq Nat /\ R # {}
  BY <1>1, <1>2, <1>6, <1>7
<1>9. PICK k \in R : \A j \in R : k <= j
  BY <1>8, LeastOf
<1>10. PICK u \in U \ V : k = Cardinality(Better(u))
  BY <1>7, <1>9
<1>11. u \in B /\ Score(u) > x /\ u \notin Trimmed(B)
  BY <1>10 DEF U, V
<1>12. TopK <= Cardinality(Better(u))
  BY <1>1, <1>2, <1>11
<1>13. Better(u) \subseteq V
  <2>1. SUFFICES ASSUME NEW n \in Better(u), n \notin V PROVE FALSE
    OBVIOUS
  <2>2. n \in B /\ Score(n) > Score(u)
    BY DEF Better
  <2>3. Score(n) \in Nat /\ Score(u) \in Nat
    BY <1>3, <1>11, <2>2
  <2>4. n \in U \ V
    BY <1>11, <2>1, <2>2, <2>3 DEF U
  <2>5. Better(n) \subseteq Better(u)
    BY <1>3, <2>2, <2>3 DEF Better
  <2>6. n \notin Better(n)
    BY <2>3 DEF Better
  <2>7. Better(n) # Better(u)
    BY <2>1, <2>6
  <2>8. Cardinality(Better(n)) < Cardinality(Better(u))
    <3>1. /\ Cardinality(Better(n)) <= Cardinality(Better(u))
          /\ Cardinality(Better(n)) # Cardinality(Better(u))
      BY <1>2, <2>5, <2>7, FS_Subset
    <3>. QED
      BY <1>2, <3>1
  <2>9. Cardinality(Better(n)) \in R
    BY <1>7, <2>4
  <2>. QED
    BY <1>2, <1>9, <1>10, <2>8, <2>9
<1>14. Cardinality(Better(u)) <= Cardinality(V)
  BY <1>2, <1>13, FS_Subset
<1>. QED
  BY <1>2, <1>5, <1>12, <1>14

(* What is trimmed away has TopK better ones in the bucket.                *)
LEMMA TrimmedAway ==
    ASSUME NEW B, B \subseteq Members, IsFiniteSet(B), NEW m \in B, m \notin Trimmed(B)
    PROVE  TopK <= Cardinality({n \in Trimmed(B) : Score(n) > Score(m)})
<1>1. /\ IsFiniteSet({n \in B : Score(n) > Score(m)})
      /\ Cardinality({n \in B : Score(n) > Score(m)}) \in Nat /\ TopK \in Nat
  BY FS_Subset, FS_CardinalityType, SuggestIndexAssumption
<1>2. TopK <= Cardinality({n \in B : Score(n) > Score(m)})
  BY <1>1 DEF Trimmed
<1>. QED
  BY <1>2, ScoreFacts, TrimKeeps

(* A place nobody new writes follows on, whatever is ingested or refreshed. *)
LEMMA FollowsOn ==
    ASSUME SuggestTypes, SuggestTypes', NEW p \in Places, Follows(p),
           places'[p].pop = places[p].pop, meta'[p] = meta[p],
           searchable[p].doc <= searchable'[p].doc, searchable'[p].doc <= places'[p].doc,
           \A m \in bucket' : m.place = p => m \in bucket,
           \A c \in Clicks : Clicking(c, p) \/ Clicking(c, p)' => click'[c] = click[c],
           \A w \in Warmers : \A m \in warmer'[w].todo : m.place = p => m \in warmer[w].todo
    PROVE  Follows(p)'
<1>1. \A c \in Clicks : Clicking(c, p)' <=> Clicking(c, p)
  BY DEF Clicking
<1>2. \A w \in Warmers : Warming(w, p)' => Warming(w, p)
  BY DEF Warming
<1>3. \A d : Own(p, d) => Own(p, d)'
  BY DEF Own
<1>4. Own(p, meta[p]) => Own(p, meta[p])'
  BY DEF Own
<1>5. ASSUME NEW c \in Clicks, Clicking(c, p)' PROVE Midway(click[c], p)'
  <2>1. Clicking(c, p) /\ click'[c] = click[c] /\ Midway(click[c], p)
    BY <1>1, <1>5 DEF Follows
  <2>2. PICK k : k = click[c]
    OBVIOUS
  <2>3. Own(p, [doc |-> k.doc, pop |-> k.seen]) => Own(p, [doc |-> k.doc, pop |-> k.seen])'
    BY DEF Own
  <2>4. Midway(k, p)'
    BY <1>4, <2>1, <2>2, <2>3 DEF Midway
  <2>. QED
    BY <2>1, <2>2, <2>4
<1>6. (\A c \in Clicks : ~ Clicking(c, p)') =>
          Own(p, meta[p])' /\ (meta'[p] # NoMeta => meta'[p].pop = places'[p].pop)
  BY <1>1, <1>4 DEF Follows
<1>7. ASSUME NEW w \in Warmers, NEW m \in warmer'[w].todo, m.place = p PROVE Fresh(m, p)'
  <2>1. m \in warmer[w].todo
    BY <1>7
  <2>2. Fresh(m, p)
    BY <1>7, <2>1 DEF Follows
  <2>3. m.doc \in Int /\ searchable[p].doc \in Int /\ searchable'[p].doc \in Int
    BY <2>1 DEF SuggestTypes, WarmerRecs, Members, Documents
  <2>. QED
    BY <2>2, <2>3 DEF Fresh
<1>8. \A v, w \in Warmers : \A m \in warmer'[v].todo, n \in warmer'[w].todo :
          m.place = p /\ n.place = p => m = n
  BY DEF Follows
<1>9. meta'[p].doc <= searchable'[p].doc
  <2>1. meta[p].doc \in Int /\ searchable[p].doc \in Int /\ searchable'[p].doc \in Int
    BY DEF SuggestTypes, Documents, NoMeta, Unwarmed
  <2>. QED
    BY <2>1 DEF Follows
<1>10. /\ \A c, d \in Clicks : Clicking(c, p)' /\ Clicking(d, p)' => c = d
       /\ \A c \in Clicks, w \in Warmers : ~ (Clicking(c, p)' /\ Warming(w, p)')
  BY <1>1, <1>2 DEF Follows
<1>. QED
  BY <1>5, <1>6, <1>7, <1>8, <1>9, <1>10 DEF Follows

(* The best stay as long as nobody is added, removed or finished.          *)
LEMMA BestOn ==
    ASSUME BestStay, entangled' = {} => entangled = {}, bucket' = bucket,
           entangled' = {} => \A p \in Places : Quiet(p)' /\ Indexed(p)'
                                                => Quiet(p) /\ meta'[p] = meta[p]
    PROVE  BestStay'
<1>. SUFFICES ASSUME entangled' = {}, NEW p \in Places, Quiet(p)', Indexed(p)',
                     Current(p)' \notin bucket'
              PROVE  TopK <= Cardinality({m \in bucket' : Score(m) > Score(Current(p)')})
  BY DEF BestStay
<1>1. entangled = {} /\ Quiet(p) /\ meta'[p] = meta[p] /\ Indexed(p)
  BY DEF Indexed
<1>2. Current(p)' = Current(p)
  BY <1>1 DEF Current
<1>3. TopK <= Cardinality({m \in bucket : Score(m) > Score(Current(p))})
  BY <1>1, <1>2 DEF BestStay
<1>. QED
  BY <1>2, <1>3

\* Who writes a place.
LEMMA QuietMeans ==
    ASSUME NEW p
    PROVE  /\ Quiet(p) <=> /\ \A c \in Clicks : ~ Clicking(c, p)
                           /\ \A w \in Warmers : ~ Warming(w, p)
           /\ Writing(p) <=> ~ Quiet(p)
BY DEF Quiet, Writing, Clicking, Warming

\* The same of the next state.
LEMMA QuietNext ==
    ASSUME NEW p
    PROVE  Quiet(p)' <=> /\ \A c \in Clicks : ~ Clicking(c, p)'
                         /\ \A w \in Warmers : ~ Warming(w, p)'
BY DEF Quiet, Writing, Clicking, Warming

LEMMA InitSuggest == SuggestInit => SuggestIInv
<1>. SUFFICES ASSUME SuggestInit PROVE SuggestIInv
  OBVIOUS
<1>1. 0 \in Popularities /\ 0 \in 0 .. Versions /\ Unheard \in ClickRecs /\ Lounging \in WarmerRecs
  BY SuggestIndexAssumption
     DEF Popularities, Unheard, Lounging, ClickRecs, WarmerRecs, ClickSpots, ClickAts, WarmerAts
<1>2. SuggestTypes
  <2>1. /\ places \in [Places -> Documents] /\ searchable \in [Places -> Documents]
        /\ meta \in [Places -> Documents \cup {NoMeta}]
    BY <1>1 DEF SuggestInit, Documents
  <2>2. click \in [Clicks -> ClickRecs] /\ warmer \in [Warmers -> WarmerRecs]
    BY <1>1 DEF SuggestInit
  <2>3. lease \in [of : SUBSET Warmers, age : 0 .. LeaseTTL - 1] /\ lastWarm \in Unwarmed .. Rewarm
    BY SuggestIndexAssumption DEF SuggestInit, NoLease, Unwarmed
  <2>4. /\ \A c \in Clicks : click[c].at # "none" => click[c].place # {}
        /\ \A w \in Warmers : /\ warmer[w].at # "index" => warmer[w].todo = {}
                              /\ warmer[w].at = "asleep" => warmer[w].lag = 0
    BY DEF SuggestInit, Unheard, Lounging
  <2>5. bucket \subseteq Members /\ IsFiniteSet(bucket) /\ entangled \subseteq Places
        /\ overran \in BOOLEAN
    BY FS_EmptySet DEF SuggestInit
  <2>. QED
    BY <2>1, <2>2, <2>3, <2>4, <2>5 DEF SuggestTypes
<1>3. LeaseHeld
  BY DEF SuggestInit, LeaseHeld, Lounging
<1>4. ASSUME NEW p \in Places PROVE Follows(p)
  <2>1. /\ meta[p] = NoMeta /\ NoMeta.doc = -1 /\ places[p].doc = 0 /\ searchable[p].doc = 0
        /\ bucket = {}
    BY DEF SuggestInit, NoMeta, Unwarmed
  <2>2. /\ \A c \in Clicks : ~ Clicking(c, p)
        /\ \A w \in Warmers : warmer[w].todo = {}
    BY DEF SuggestInit, Clicking, Unheard, Lounging
  <2>. QED
    BY <2>1, <2>2 DEF Follows, Own
<1>5. BestStay
  BY DEF SuggestInit, BestStay, Indexed
<1>. QED
  BY <1>2, <1>3, <1>4, <1>5 DEF SuggestIInv, EachFollows

(* What a click may be.                                                    *)
LEMMA ClickFacts ==
    ASSUME SuggestTypes, NEW c \in Clicks
    PROVE  /\ click[c] \in ClickRecs /\ click[c].boost \in Nat
           /\ \A p \in click[c].place : p \in Places /\ click[c].place = {p}
<1>1. click[c] \in ClickRecs
  BY DEF SuggestTypes
<1>2. click[c].boost \in Nat /\ click[c].place \in ClickSpots
  <2>1. click[c].boost \in Boosts \cup {0} /\ click[c].place \in ClickSpots
    BY <1>1 DEF ClickRecs
  <2>2. Boosts \subseteq Nat
    BY SuggestIndexAssumption
  <2>3. PICK b : b = click[c].boost
    OBVIOUS
  <2>4. b \in Boosts \cup {0}
    BY <2>1, <2>3
  <2>5. b \in Nat
    BY <2>2, <2>4
  <2>. QED
    BY <2>1, <2>3, <2>5
<1>. QED
  BY <1>1, <1>2 DEF ClickSpots

LEMMA MetaFacts ==
    ASSUME SuggestTypes, NEW p \in Places
    PROVE  /\ meta[p] # NoMeta =>
                meta[p] \in Documents /\ meta[p].doc \in 0 .. Versions /\ meta[p].pop \in Popularities
           /\ meta[p] = [doc |-> meta[p].doc, pop |-> meta[p].pop]
BY DEF SuggestTypes, Documents, NoMeta

(* The click of c becomes k.                                               *)
LEMMA ClickTyped ==
    ASSUME SuggestTypes, NEW c \in Clicks, NEW k \in ClickRecs, k.at # "none" => k.place # {},
           click' = [click EXCEPT ![c] = k]
    PROVE  /\ click' \in [Clicks -> ClickRecs]
           /\ \A d \in Clicks : click'[d].at # "none" => click'[d].place # {}
           /\ click'[c] = k /\ \A d \in Clicks : d # c => click'[d] = click[d]
BY DEF SuggestTypes

LEMMA UnheardTyped == Unheard \in ClickRecs /\ Unheard.at = "none"
BY SuggestIndexAssumption DEF Popularities, Unheard, ClickRecs, ClickSpots, ClickAts

LEMMA BoostStep ==
    ASSUME SuggestIInv, NEW c \in Clicks, NEW p \in Places, NEW b \in Boosts,
           Boost(c, p, b) \/ BoostFails(c, p, b)
    PROVE  SuggestIInv'
<1>1. PICK k : k = [Unheard EXCEPT !.at = "read", !.place = {p}, !.boost = b]
  OBVIOUS
<1>2. k \in ClickRecs /\ k.at = "read" /\ k.place = {p} /\ k.boost = b
  <2>1. k = [at |-> "read", place |-> {p}, boost |-> b, doc |-> 0, seen |-> 0, new |-> 0]
    BY <1>1 DEF Unheard
  <2>2. 0 \in Popularities /\ 0 \in 0 .. Versions /\ {p} \in ClickSpots /\ "read" \in ClickAts
    BY SuggestIndexAssumption DEF Popularities, ClickSpots, ClickAts
  <2>. QED
    BY <2>1, <2>2 DEF ClickRecs
<1>3. /\ click[c].at = "none" /\ click' = [click EXCEPT ![c] = k]
      /\ UNCHANGED <<searchable, meta, bucket, warmer, lease, lastWarm, overran>>
      /\ entangled' \subseteq Places /\ entangled \subseteq entangled'
      /\ p \notin entangled' => ~ Writing(p)
      /\ p \in entangled' \/ places' = [places EXCEPT ![p].pop = Raised(@, b)]
      /\ places' = [places EXCEPT ![p].pop = Raised(@, b)] \/ places' = places
  BY <1>1 DEF Boost, BoostFails, Entangle, SuggestIInv, SuggestTypes, storeVars, indexVars, leaseVars
<1>4. /\ click' \in [Clicks -> ClickRecs]
      /\ \A d \in Clicks : click'[d].at # "none" => click'[d].place # {}
      /\ click'[c] = k /\ \A d \in Clicks : d # c => click'[d] = click[d]
  BY <1>2, <1>3, ClickTyped DEF SuggestIInv
<1>5. PICK e \in Documents : e = places[p]
  BY DEF SuggestIInv, SuggestTypes
<1>6. PICK f \in Documents : f = [e EXCEPT !.pop = Raised(e.pop, b)] /\ f.doc = e.doc
                             /\ f.pop = Raised(e.pop, b)
  <2>1. b \in Nat /\ e.pop \in Popularities
    BY SuggestIndexAssumption DEF Documents
  <2>2. PICK r \in Popularities : r = Raised(e.pop, b)
    BY <2>1, RaisedFacts
  <2>3. PICK g : g = [doc |-> e.doc, pop |-> r]
    OBVIOUS
  <2>4. g \in Documents /\ [e EXCEPT !.pop = r] = g
    BY <2>3 DEF Documents
  <2>. QED
    BY <2>2, <2>3, <2>4
<1>7. p \in entangled' \/ places' = [places EXCEPT ![p] = f]
  BY <1>3, <1>5, <1>6
<1>8. /\ places' \in [Places -> Documents] /\ places'[p].doc = places[p].doc
      /\ \A x \in Places : x # p => places'[x] = places[x]
  <2>1. CASE places' = places
    BY <2>1 DEF SuggestIInv, SuggestTypes
  <2>2. CASE places' = [places EXCEPT ![p] = f]
    BY <1>5, <1>6, <2>2 DEF SuggestIInv, SuggestTypes
  <2>. QED
    BY <1>3, <1>5, <1>6, <2>1, <2>2
<1>9. SuggestTypes'
  BY <1>3, <1>4, <1>8 DEF SuggestIInv, SuggestTypes
<1>10. LeaseHeld'
  BY <1>3 DEF SuggestIInv, LeaseHeld
<1>11. ASSUME NEW x \in Places \ entangled' PROVE Follows(x)'
  <2>1. Follows(x)
    BY <1>3 DEF SuggestIInv, EachFollows
  <2>2. CASE x # p
    <3>1. searchable[x].doc \in Int /\ searchable[x].doc <= places[x].doc
      BY <2>1 DEF Follows, SuggestIInv, SuggestTypes, Documents
    <3>2. \A d \in Clicks : Clicking(d, x) \/ Clicking(d, x)' => click'[d] = click[d]
      BY <1>2, <1>3, <1>4, <2>2 DEF Clicking
    <3>. QED
      BY <1>3, <1>8, <1>9, <2>1, <2>2, <3>1, <3>2, FollowsOn DEF SuggestIInv
  <2>3. CASE x = p
    <3>1. \A d \in Clicks : ~ Clicking(d, p)
      BY <1>3, <2>3, QuietMeans
    <3>2. \A w \in Warmers : ~ Warming(w, p) /\ ~ Warming(w, p)'
      BY <1>3, <2>3, QuietMeans DEF Warming
    <3>3. Own(p, meta[p])' /\ (meta'[p] # NoMeta => meta'[p] = meta[p] /\ meta[p].pop = places[p].pop)
      BY <1>3, <2>1, <2>3, <3>1 DEF Follows, Own
    <3>4. places'[p].pop = Raised(places[p].pop, b)
      BY <1>5, <1>6, <1>7, <2>3 DEF SuggestIInv, SuggestTypes
    <3>5. Midway(click[c], p)'
      BY <1>2, <1>4, <3>3, <3>4 DEF Midway
    <3>6. \A d \in Clicks : Clicking(d, p)' <=> d = c
      BY <1>2, <1>4, <3>1 DEF Clicking
    <3>7. \A w \in Warmers : \A m \in warmer'[w].todo : m.place # p
      BY <3>2 DEF Warming
    <3>8. meta'[p].doc <= searchable'[p].doc /\ searchable'[p].doc <= places'[p].doc
      BY <1>3, <1>8, <2>1, <2>3 DEF Follows
    <3>. QED
      BY <2>3, <3>2, <3>5, <3>6, <3>7, <3>8 DEF Follows
  <2>. QED
    BY <2>2, <2>3
<1>12. BestStay'
  <2>1. ASSUME NEW x \in Places, Quiet(x)' PROVE Quiet(x)
    <3>1. (\A d \in Clicks : ~ Clicking(d, x)') /\ \A w \in Warmers : ~ Warming(w, x)'
      BY <2>1, QuietNext
    <3>2. \A d \in Clicks : Clicking(d, x) => Clicking(d, x)'
      BY <1>3, <1>4 DEF Clicking
    <3>3. \A w \in Warmers : Warming(w, x) => Warming(w, x)'
      BY <1>3 DEF Warming
    <3>. QED
      BY <3>1, <3>2, <3>3, QuietMeans
  <2>. QED
    BY <1>3, <2>1, BestOn DEF SuggestIInv
<1>. QED
  BY <1>9, <1>10, <1>11, <1>12 DEF SuggestIInv, EachFollows

LEMMA ReadMetaStep ==
    ASSUME SuggestIInv, NEW c \in Clicks, ReadMeta(c)
    PROVE  SuggestIInv'
<1>1. PICK p \in click[c].place :
        /\ click[c].at = "read"
        /\ click' = [click EXCEPT ![c] =
             IF meta[p] = NoMeta THEN Unheard
             ELSE [@ EXCEPT !.at = "meta", !.doc = meta[p].doc, !.seen = meta[p].pop,
                            !.new = Raised(meta[p].pop, click[c].boost)]]
        /\ UNCHANGED <<storeVars, indexVars, warmer, leaseVars, entangled, limitVars>>
  BY DEF ReadMeta
<1>2. PICK q \in ClickRecs :
        q = click[c] /\ q.boost \in Nat /\ p \in Places /\ q.place = {p} /\ q.at = "read"
  BY <1>1, ClickFacts DEF SuggestIInv
<1>3. PICK k \in ClickRecs :
        /\ click' = [click EXCEPT ![c] = k] /\ (k.at # "none" => k.place # {})
        /\ IF meta[p] = NoMeta THEN k.at = "none"
           ELSE /\ k.at = "meta" /\ k.place = {p} /\ k.doc = meta[p].doc /\ k.seen = meta[p].pop
                /\ k.new = Raised(meta[p].pop, q.boost) /\ k.seen <= k.new
  <2>1. CASE meta[p] = NoMeta
    BY <1>1, <2>1, UnheardTyped
  <2>2. CASE meta[p] # NoMeta
    <3>1. PICK v \in 0 .. Versions, a \in Popularities : v = meta[p].doc /\ a = meta[p].pop
      BY <1>2, <2>2, MetaFacts DEF SuggestIInv
    <3>2. PICK z \in Popularities : z = Raised(a, q.boost) /\ a <= z
      BY <1>2, RaisedFacts
    <3>3. PICK k : k = [q EXCEPT !.at = "meta", !.doc = v, !.seen = a, !.new = z]
      OBVIOUS
    <3>4. k = [at |-> "meta", place |-> q.place, boost |-> q.boost, doc |-> v, seen |-> a, new |-> z]
      BY <3>3 DEF ClickRecs
    <3>5. k \in ClickRecs
      <4>1. "meta" \in ClickAts /\ q.place \in ClickSpots /\ q.boost \in Boosts \cup {0}
        BY DEF ClickRecs, ClickAts
      <4>. QED
        BY <3>4, <4>1 DEF ClickRecs
    <3>6. click' = [click EXCEPT ![c] = k]
      BY <1>1, <1>2, <2>2, <3>1, <3>2, <3>3
    <3>. QED
      BY <1>2, <2>2, <3>1, <3>2, <3>4, <3>5, <3>6
  <2>. QED
    BY <2>1, <2>2
<1>4. /\ click' \in [Clicks -> ClickRecs]
      /\ \A d \in Clicks : click'[d].at # "none" => click'[d].place # {}
      /\ click'[c] = k /\ \A d \in Clicks : d # c => click'[d] = click[d]
  BY <1>3, ClickTyped DEF SuggestIInv
<1>5. UNCHANGED <<places, searchable, meta, bucket, warmer, lease, lastWarm, overran, entangled>>
  BY <1>1 DEF storeVars, indexVars, leaseVars
<1>6. SuggestTypes' /\ LeaseHeld'
  BY <1>4, <1>5 DEF SuggestIInv, SuggestTypes, LeaseHeld
<1>7. ASSUME NEW x \in Places \ entangled' PROVE Follows(x)'
  <2>1. Follows(x)
    BY <1>5 DEF SuggestIInv, EachFollows
  <2>2. CASE x # p
    <3>1. \A d \in Clicks : Clicking(d, x) \/ Clicking(d, x)' => click'[d] = click[d]
      BY <1>2, <1>3, <1>4, <2>2 DEF Clicking
    <3>2. searchable[x].doc <= places[x].doc /\ searchable[x].doc \in Int
      BY <2>1 DEF Follows, SuggestIInv, SuggestTypes, Documents
    <3>. QED
      BY <1>5, <1>6, <2>1, <3>1, <3>2, FollowsOn DEF SuggestIInv
  <2>3. CASE x = p
    <3>1. Clicking(c, p) /\ Midway(q, p) /\ \A d \in Clicks : Clicking(d, p) => d = c
      BY <1>2, <2>1, <2>3 DEF Follows, Clicking
    <3>2. Own(p, meta[p]) /\ (meta[p] # NoMeta => places[p].pop = Raised(meta[p].pop, q.boost))
      BY <1>2, <3>1 DEF Midway
    <3>3. \A d \in Clicks : Clicking(d, p)' => d = c
      BY <1>4, <3>1 DEF Clicking
    <3>4. \A w \in Warmers : ~ Warming(w, p)' /\ \A m \in warmer'[w].todo : m.place # p
      BY <1>5, <2>1, <2>3, <3>1 DEF Follows, Warming
    <3>5. Own(p, meta[p])'
      BY <1>5, <3>2 DEF Own
    <3>6. meta'[p].doc <= searchable'[p].doc /\ searchable'[p].doc <= places'[p].doc
      BY <1>5, <2>1, <2>3 DEF Follows
    <3>7. CASE meta[p] = NoMeta
      <4>1. \A d \in Clicks : ~ Clicking(d, p)'
        BY <1>3, <1>4, <3>3, <3>7 DEF Clicking
      <4>. QED
        BY <1>5, <2>3, <3>4, <3>5, <3>6, <3>7, <4>1 DEF Follows
    <3>8. CASE meta[p] # NoMeta
      <4>1. meta[p] = [doc |-> k.doc, pop |-> k.seen]
        BY <1>2, <1>3, <3>8, MetaFacts DEF SuggestIInv
      <4>2. Midway(click[c], p)'
        BY <1>3, <1>4, <1>5, <3>2, <3>5, <3>8, <4>1 DEF Midway
      <4>3. Clicking(c, p)'
        BY <1>3, <1>4, <3>8 DEF Clicking
      <4>. QED
        BY <2>3, <3>3, <3>4, <3>6, <4>2, <4>3 DEF Follows
    <3>. QED
      BY <3>7, <3>8
  <2>. QED
    BY <2>2, <2>3
<1>8. BestStay'
  <2>1. ASSUME NEW x \in Places, Quiet(x)', Indexed(x)' PROVE Quiet(x)
    <3>1. (\A d \in Clicks : ~ Clicking(d, x)') /\ \A w \in Warmers : ~ Warming(w, x)'
      BY <2>1, QuietNext
    <3>2. \A w \in Warmers : ~ Warming(w, x)
      BY <1>5, <3>1 DEF Warming
    <3>3. ~ Clicking(c, x)
      BY <1>2, <1>3, <1>4, <1>5, <2>1, <3>1 DEF Clicking, Indexed
    <3>4. \A d \in Clicks : ~ Clicking(d, x)
      BY <1>4, <3>1, <3>3 DEF Clicking
    <3>. QED
      BY <3>2, <3>4, QuietMeans
  <2>. QED
    BY <1>5, <2>1, BestOn DEF SuggestIInv
<1>. QED
  BY <1>6, <1>7, <1>8 DEF SuggestIInv, EachFollows

(* A click that goes on only with what it writes: all but p stays.         *)
LEMMA SetMetaStep ==
    ASSUME SuggestIInv, NEW c \in Clicks, SetMeta(c)
    PROVE  SuggestIInv'
<1>1. PICK p \in click[c].place :
        /\ click[c].at = "meta" /\ meta' = [meta EXCEPT ![p] = [doc |-> click[c].doc, pop |-> click[c].new]]
        /\ click' = [click EXCEPT ![c].at = "bucket"]
        /\ UNCHANGED <<storeVars, bucket, warmer, leaseVars, entangled, limitVars>>
  BY DEF SetMeta
<1>2. PICK q \in ClickRecs :
        q = click[c] /\ p \in Places /\ q.place = {p} /\ q.at = "meta"
  BY <1>1, ClickFacts DEF SuggestIInv
<1>3. PICK k \in ClickRecs :
        /\ click' = [click EXCEPT ![c] = k] /\ k.place = {p} /\ k.at = "bucket"
        /\ k.doc = q.doc /\ k.seen = q.seen /\ k.new = q.new
  <2>1. PICK k : k = [q EXCEPT !.at = "bucket"]
    OBVIOUS
  <2>2. "bucket" \in ClickAts
    BY DEF ClickAts
  <2>3. k \in ClickRecs
    BY <2>1, <2>2 DEF ClickRecs
  <2>4. click' = [click EXCEPT ![c] = k]
    BY <1>1, <1>2, <2>1
  <2>. QED
    BY <1>2, <2>1, <2>3, <2>4 DEF ClickRecs
<1>4. /\ click' \in [Clicks -> ClickRecs]
      /\ \A d \in Clicks : click'[d].at # "none" => click'[d].place # {}
      /\ click'[c] = k /\ \A d \in Clicks : d # c => click'[d] = click[d]
  BY <1>3, ClickTyped DEF SuggestIInv
<1>5. UNCHANGED <<places, searchable, bucket, warmer, lease, lastWarm, overran, entangled>>
  BY <1>1 DEF storeVars, leaseVars
<1>6. PICK e \in Documents : e = [doc |-> q.doc, pop |-> q.new]
  BY DEF ClickRecs, Documents
<1>7. /\ meta' \in [Places -> Documents \cup {NoMeta}] /\ meta'[p] = e
      /\ \A x \in Places \ {p} : meta'[x] = meta[x]
  BY <1>1, <1>2, <1>6 DEF SuggestIInv, SuggestTypes
<1>8. SuggestTypes' /\ LeaseHeld'
  BY <1>4, <1>5, <1>7 DEF SuggestIInv, SuggestTypes, LeaseHeld
<1>9. ASSUME NEW x \in Places \ entangled' PROVE Follows(x)'
  <2>1. Follows(x)
    BY <1>5 DEF SuggestIInv, EachFollows
  <2>2. CASE x # p
    <3>1. \A d \in Clicks : Clicking(d, x) \/ Clicking(d, x)' => click'[d] = click[d]
      BY <1>2, <1>3, <1>4, <2>2 DEF Clicking
    <3>2. searchable[x].doc <= places[x].doc /\ searchable[x].doc \in Int
      BY <2>1 DEF Follows, SuggestIInv, SuggestTypes, Documents
    <3>. QED
      BY <1>5, <1>7, <1>8, <2>1, <2>2, <3>1, <3>2, FollowsOn DEF SuggestIInv
  <2>3. CASE x = p
    <3>1. Clicking(c, p) /\ Midway(q, p) /\ \A d \in Clicks : Clicking(d, p) => d = c
      BY <1>2, <2>1, <2>3 DEF Follows, Clicking
    <3>2. /\ Own(p, meta[p]) /\ meta[p] = [doc |-> q.doc, pop |-> q.seen]
          /\ q.new = places[p].pop /\ q.seen <= q.new
      BY <1>2, <3>1 DEF Midway
    <3>3. Own(p, [doc |-> k.doc, pop |-> k.seen])
      BY <1>3, <3>2
    <3>4. \A m \in bucket : m.place = p => m.doc < k.doc \/ m = Member(p, [doc |-> k.doc, pop |-> k.seen])
      BY <3>3 DEF Own
    <3>5. Midway(k, p)'
      BY <1>3, <1>5, <1>6, <1>7, <3>2, <3>4 DEF Midway, Own
    <3>6. \A d \in Clicks : Clicking(d, p)' => d = c
      BY <1>4, <3>1 DEF Clicking
    <3>7. \A w \in Warmers : ~ Warming(w, p)' /\ \A m \in warmer'[w].todo : m.place # p
      BY <1>5, <2>1, <2>3, <3>1 DEF Follows, Warming
    <3>8. Clicking(c, p)' /\ Midway(click[c], p)'
      BY <1>3, <1>4, <3>5 DEF Clicking
    <3>9. meta'[p].doc <= searchable'[p].doc /\ searchable'[p].doc <= places'[p].doc
      BY <1>5, <1>6, <1>7, <2>1, <2>3, <3>2 DEF Follows
    <3>. QED
      BY <2>3, <3>6, <3>7, <3>8, <3>9 DEF Follows
  <2>. QED
    BY <2>2, <2>3
<1>10. BestStay'
  <2>1. ASSUME NEW x \in Places, Quiet(x)' PROVE Quiet(x) /\ meta'[x] = meta[x]
    <3>1. (\A d \in Clicks : ~ Clicking(d, x)') /\ \A w \in Warmers : ~ Warming(w, x)'
      BY <2>1, QuietNext
    <3>2. x # p
      BY <1>3, <1>4, <3>1 DEF Clicking
    <3>3. \A w \in Warmers : ~ Warming(w, x)
      BY <1>5, <3>1 DEF Warming
    <3>4. \A d \in Clicks : ~ Clicking(d, x)
      BY <1>2, <1>4, <3>1, <3>2 DEF Clicking
    <3>. QED
      BY <1>7, <3>2, <3>3, <3>4, QuietMeans
  <2>. QED
    BY <1>5, <2>1, BestOn DEF SuggestIInv
<1>. QED
  BY <1>8, <1>9, <1>10 DEF SuggestIInv, EachFollows

(* A bucket in which a member gets better has as many better ones.         *)
LEMMA SwapKeeps ==
    ASSUME NEW B, B \subseteq Members, IsFiniteSet(B), NEW o \in Members, NEW n \in Members,
           Score(o) <= Score(n), n \in B => n = o, NEW x \in Nat,
           TopK <= Cardinality({m \in B : Score(m) > x})
    PROVE  TopK <= Cardinality({m \in (B \ {o}) \cup {n} : Score(m) > x})
<1>1. Score(o) \in Nat /\ Score(n) \in Nat
  BY ScoreFacts
<1>2. PICK U : U = {m \in B : Score(m) > x}
  OBVIOUS
<1>3. PICK V : V = {m \in (B \ {o}) \cup {n} : Score(m) > x}
  OBVIOUS
<1>4. IsFiniteSet(U) /\ IsFiniteSet(V) /\ Cardinality(U) \in Nat /\ Cardinality(V) \in Nat /\ TopK \in Nat
  <2>1. IsFiniteSet((B \ {o}) \cup {n})
    BY FS_RemoveElement, FS_AddElement
  <2>. QED
    BY <1>2, <1>3, <2>1, FS_Subset, FS_CardinalityType, SuggestIndexAssumption
<1>5. Cardinality(U) <= Cardinality(V)
  <2>1. CASE o \notin U
    <3>1. U \subseteq V
      BY <1>2, <1>3, <2>1
    <3>. QED
      BY <1>4, <3>1, FS_Subset
  <2>2. CASE o \in U
    <3>1. PICK W : W = U \ {o}
      OBVIOUS
    <3>2. IsFiniteSet(W) /\ Cardinality(W) = Cardinality(U) - 1
      BY <1>4, <2>2, <3>1, FS_RemoveElement
    <3>3. n \notin W
      BY <1>2, <3>1
    <3>4. IsFiniteSet(W \cup {n}) /\ Cardinality(W \cup {n}) = Cardinality(U)
      <4>1. IsFiniteSet(W \cup {n}) /\ Cardinality(W \cup {n}) = Cardinality(W) + 1
        BY <3>2, <3>3, FS_AddElement
      <4>. QED
        BY <1>4, <3>2, <4>1
    <3>5. W \cup {n} \subseteq V
      BY <1>1, <1>2, <1>3, <2>2, <3>1
    <3>. QED
      BY <1>4, <3>4, <3>5, FS_Subset
  <2>. QED
    BY <2>1, <2>2
<1>6. TopK <= Cardinality(V)
  BY <1>2, <1>4, <1>5
<1>. QED
  BY <1>3, <1>6

LEMMA SwapMemberStep ==
    ASSUME SuggestIInv, NEW c \in Clicks, SwapMember(c)
    PROVE  SuggestIInv'
<1>1. PICK p \in click[c].place :
        /\ click[c].at = "bucket" /\ bucket' = Swapped(OldMember(c, p), NewMember(c, p))
        /\ click' = [click EXCEPT ![c] = Unheard]
        /\ UNCHANGED <<storeVars, meta, warmer, leaseVars, entangled, limitVars>>
  BY DEF SwapMember
<1>2. PICK q \in ClickRecs :
        q = click[c] /\ p \in Places /\ q.place = {p} /\ q.at = "bucket"
  BY <1>1, ClickFacts DEF SuggestIInv
<1>3. PICK o \in Members, n \in Members :
        /\ o = [place |-> p, doc |-> q.doc, pop |-> q.seen] /\ o = OldMember(c, p)
        /\ n = [place |-> p, doc |-> q.doc, pop |-> q.new] /\ n = NewMember(c, p)
        /\ o.place = p /\ n.place = p /\ o.doc = q.doc /\ n.doc = q.doc
        /\ o.pop = q.seen /\ n.pop = q.new
  <2>1. q.doc \in 0 .. Versions /\ q.seen \in Popularities /\ q.new \in Popularities
    BY DEF ClickRecs
  <2>2. /\ [place |-> p, doc |-> q.doc, pop |-> q.seen] \in Members
        /\ [place |-> p, doc |-> q.doc, pop |-> q.new] \in Members
    BY <1>2, <2>1 DEF Members
  <2>3. /\ OldMember(c, p) = [place |-> p, doc |-> q.doc, pop |-> q.seen]
        /\ NewMember(c, p) = [place |-> p, doc |-> q.doc, pop |-> q.new]
    BY <1>2 DEF OldMember, NewMember, Member
  <2>. QED
    BY <2>2, <2>3
<1>4. /\ click' \in [Clicks -> ClickRecs]
      /\ \A d \in Clicks : click'[d].at # "none" => click'[d].place # {}
      /\ click'[c] = Unheard /\ \A d \in Clicks : d # c => click'[d] = click[d]
  BY <1>1, UnheardTyped, ClickTyped DEF SuggestIInv
<1>5. UNCHANGED <<places, searchable, meta, warmer, lease, lastWarm, overran, entangled>>
  BY <1>1 DEF storeVars, leaseVars
<1>6. bucket' = (bucket \ {o}) \cup {n}
  BY <1>1, <1>3 DEF Swapped
<1>7. SuggestTypes' /\ LeaseHeld'
  <2>1. bucket' \subseteq Members /\ IsFiniteSet(bucket')
    <3>1. IsFiniteSet(bucket \ {o})
      BY FS_RemoveElement DEF SuggestIInv, SuggestTypes
    <3>. QED
      BY <1>6, <3>1, FS_AddElement DEF SuggestIInv, SuggestTypes
  <2>. QED
    BY <1>4, <1>5, <2>1 DEF SuggestIInv, SuggestTypes, LeaseHeld
<1>8. \A m : m.place # p => (m \in bucket' <=> m \in bucket)
  BY <1>3, <1>6
<1>9. ASSUME p \notin entangled
      PROVE  /\ Clicking(c, p) /\ \A d \in Clicks : Clicking(d, p) => d = c
             /\ \A m \in bucket : m.place = p => m.doc < q.doc \/ m = o
             /\ meta[p] = [doc |-> q.doc, pop |-> q.new] /\ q.new = places[p].pop /\ q.seen <= q.new
  <2>1. Follows(p)
    BY <1>2, <1>9 DEF SuggestIInv, EachFollows
  <2>2. Clicking(c, p) /\ Midway(q, p) /\ \A d \in Clicks : Clicking(d, p) => d = c
    BY <1>2, <2>1 DEF Follows, Clicking
  <2>3. /\ Own(p, [doc |-> q.doc, pop |-> q.seen])
        /\ meta[p] = [doc |-> q.doc, pop |-> q.new] /\ q.new = places[p].pop /\ q.seen <= q.new
    BY <1>2, <2>2 DEF Midway
  <2>4. \A m \in bucket : m.place = p => m.doc < q.doc \/ m = o
    BY <1>3, <2>3 DEF Own, Member
  <2>. QED
    BY <2>2, <2>3, <2>4
<1>10. ASSUME NEW x \in Places \ entangled' PROVE Follows(x)'
  <2>1. Follows(x)
    BY <1>5 DEF SuggestIInv, EachFollows
  <2>2. CASE x # p
    <3>1. \A d \in Clicks : Clicking(d, x) \/ Clicking(d, x)' => click'[d] = click[d]
      BY <1>2, <1>4, <2>2, UnheardTyped DEF Clicking
    <3>2. searchable[x].doc <= places[x].doc /\ searchable[x].doc \in Int
      BY <2>1 DEF Follows, SuggestIInv, SuggestTypes, Documents
    <3>3. \A m \in bucket' : m.place = x => m \in bucket
      BY <1>8, <2>2
    <3>. QED
      BY <1>5, <1>7, <2>1, <3>1, <3>2, <3>3, FollowsOn DEF SuggestIInv
  <2>3. CASE x = p
    <3>1. \A d \in Clicks : ~ Clicking(d, p)'
      BY <1>4, <1>5, <1>9, <2>3, UnheardTyped DEF Clicking
    <3>2. meta'[p] = [doc |-> q.doc, pop |-> q.new] /\ meta'[p].pop = places'[p].pop
      BY <1>5, <1>9, <2>3
    <3>3. Member(p, [doc |-> q.doc, pop |-> q.new]) = n
      BY <1>3 DEF Member
    <3>4. \A m \in bucket' : m.place = p => m.doc < q.doc \/ m = n
      BY <1>5, <1>6, <1>9, <2>3
    <3>5. Own(p, meta[p])'
      BY <3>2, <3>3, <3>4 DEF Own
    <3>6. \A w \in Warmers : ~ Warming(w, p)' /\ \A m \in warmer'[w].todo : m.place # p
      BY <1>5, <1>9, <2>1, <2>3 DEF Follows, Warming
    <3>7. meta'[p].doc <= searchable'[p].doc /\ searchable'[p].doc <= places'[p].doc
      BY <1>5, <2>1, <2>3 DEF Follows
    <3>. QED
      BY <2>3, <3>1, <3>2, <3>5, <3>6, <3>7 DEF Follows
  <2>. QED
    BY <2>2, <2>3
<1>11. BestStay'
  <2>. SUFFICES ASSUME entangled' = {}, NEW x \in Places, Quiet(x)', Indexed(x)',
                       Current(x)' \notin bucket'
                PROVE  TopK <= Cardinality({m \in bucket' : Score(m) > Score(Current(x)')})
    BY DEF BestStay
  <2>1. entangled = {} /\ p \notin entangled
    BY <1>5
  <2>2. x # p
    <3>1. Current(p)' = n
      BY <1>3, <1>5, <1>9, <2>1 DEF Current, Member
    <3>. QED
      BY <1>6, <3>1
  <2>3. Quiet(x)
    <3>1. (\A d \in Clicks : ~ Clicking(d, x)') /\ \A w \in Warmers : ~ Warming(w, x)'
      BY QuietNext
    <3>2. \A w \in Warmers : ~ Warming(w, x)
      BY <1>5, <3>1 DEF Warming
    <3>3. \A d \in Clicks : ~ Clicking(d, x)
      BY <1>2, <1>4, <2>2, <3>1 DEF Clicking
    <3>. QED
      BY <3>2, <3>3, QuietMeans
  <2>4. /\ Current(x)' = Current(x) /\ Indexed(x) /\ Current(x) \in Members
        /\ Current(x) \notin bucket
    <3>1. Current(x)' = Current(x) /\ Indexed(x)
      BY <1>5 DEF Current, Indexed
    <3>2. Current(x) \in Members /\ Current(x).place = x
      BY <3>1, MetaFacts DEF Current, Indexed, Member, Members, SuggestIInv
    <3>. QED
      BY <1>8, <2>2, <3>1, <3>2
  <2>5. PICK s \in Nat : s = Score(Current(x))
    BY <2>4, ScoreFacts
  <2>6. TopK <= Cardinality({m \in bucket : Score(m) > s})
    BY <2>1, <2>3, <2>4, <2>5 DEF SuggestIInv, BestStay
  <2>7. Score(o) <= Score(n)
    BY <1>3, <1>9, <2>1, ScoreFacts
  <2>8. n \in bucket => n = o
    <3>1. q.doc \in Int
      BY DEF ClickRecs
    <3>. QED
      BY <1>3, <1>9, <2>1, <3>1
  <2>9. bucket \subseteq Members /\ IsFiniteSet(bucket)
    BY DEF SuggestIInv, SuggestTypes
  <2>10. TopK <= Cardinality({m \in (bucket \ {o}) \cup {n} : Score(m) > s})
    BY <2>6, <2>7, <2>8, <2>9, SwapKeeps
  <2>. QED
    BY <1>6, <2>4, <2>5, <2>10
<1>. QED
  BY <1>7, <1>10, <1>11 DEF SuggestIInv, EachFollows

LEMMA ClickFailsStep ==
    ASSUME SuggestIInv, NEW c \in Clicks, ClickFails(c)
    PROVE  SuggestIInv'
<1>1. /\ click[c].at # "none" /\ click' = [click EXCEPT ![c] = Unheard]
      /\ entangled' = entangled \cup click[c].place
      /\ UNCHANGED <<places, searchable, meta, bucket, warmer, lease, lastWarm, overran>>
  BY DEF ClickFails, storeVars, indexVars, leaseVars
<1>2. click[c].place \subseteq Places /\ click[c].place # {}
  BY <1>1, ClickFacts DEF SuggestIInv, SuggestTypes
<1>3. /\ click' \in [Clicks -> ClickRecs]
      /\ \A d \in Clicks : click'[d].at # "none" => click'[d].place # {}
      /\ click'[c] = Unheard /\ \A d \in Clicks : d # c => click'[d] = click[d]
  BY <1>1, UnheardTyped, ClickTyped DEF SuggestIInv
<1>4. SuggestTypes' /\ LeaseHeld'
  BY <1>1, <1>2, <1>3 DEF SuggestIInv, SuggestTypes, LeaseHeld
<1>5. BestStay'
  BY <1>1, <1>2 DEF BestStay
<1>6. ASSUME NEW x \in Places \ entangled' PROVE Follows(x)'
  <2>1. Follows(x) /\ ~ Clicking(c, x) /\ ~ Clicking(c, x)'
    BY <1>1, <1>3, UnheardTyped DEF SuggestIInv, EachFollows, Clicking
  <2>2. \A d \in Clicks : Clicking(d, x) \/ Clicking(d, x)' => click'[d] = click[d]
    BY <1>3, <2>1
  <2>3. searchable[x].doc <= places[x].doc /\ searchable[x].doc \in Int
    BY <2>1 DEF Follows, SuggestIInv, SuggestTypes, Documents
  <2>. QED
    BY <1>1, <1>4, <2>1, <2>2, <2>3, FollowsOn DEF SuggestIInv
<1>. QED
  BY <1>4, <1>5, <1>6 DEF SuggestIInv, EachFollows

(* What is ingested, and what becomes searchable.                          *)
LEMMA StoreStep ==
    ASSUME SuggestIInv, (\E p \in Places : Reingest(p)) \/ Refresh
    PROVE  SuggestIInv'
<1>1. UNCHANGED <<meta, bucket, click, warmer, lease, lastWarm, overran, entangled>>
  BY DEF Reingest, Refresh, indexVars, leaseVars
<1>2. /\ places' \in [Places -> Documents] /\ searchable' \in [Places -> Documents]
      /\ \A x \in Places : /\ places'[x].pop = places[x].pop
                           /\ searchable[x].doc <= places[x].doc =>
                                /\ searchable[x].doc <= searchable'[x].doc
                                /\ searchable'[x].doc <= places'[x].doc
  <2>1. CASE Refresh
    <3>1. places' = places /\ searchable' = places
      BY <2>1 DEF Refresh
    <3>2. \A x \in Places : places[x].doc \in Int
      BY DEF SuggestIInv, SuggestTypes, Documents
    <3>. QED
      BY <3>1, <3>2 DEF SuggestIInv, SuggestTypes
  <2>2. ASSUME NEW p \in Places, Reingest(p)
        PROVE  /\ places' \in [Places -> Documents] /\ searchable' = searchable
               /\ \A x \in Places : places'[x].pop = places[x].pop /\ places[x].doc <= places'[x].doc
    <3>1. PICK e \in Documents : e = places[p] /\ e.doc \in 0 .. Versions /\ e.doc < Versions
      BY <2>2 DEF Reingest, SuggestIInv, SuggestTypes, Documents
    <3>2. PICK f \in Documents : f = [e EXCEPT !.doc = @ + 1] /\ f.pop = e.pop /\ f.doc = e.doc + 1
      <4>1. PICK v \in 0 .. Versions : v = e.doc + 1
        BY <3>1, SuggestIndexAssumption
      <4>2. PICK g : g = [doc |-> v, pop |-> e.pop]
        OBVIOUS
      <4>3. g \in Documents /\ [e EXCEPT !.doc = v] = g
        BY <4>2 DEF Documents
      <4>. QED
        BY <4>1, <4>2, <4>3
    <3>3. places' = [places EXCEPT ![p] = f] /\ searchable' = searchable
      BY <2>2, <3>1, <3>2 DEF Reingest
    <3>4. \A x \in Places : places[x].doc \in Int
      BY DEF SuggestIInv, SuggestTypes, Documents
    <3>. QED
      BY <3>1, <3>2, <3>3, <3>4 DEF SuggestIInv, SuggestTypes
  <2>3. CASE \E p \in Places : Reingest(p)
    <3>1. /\ places' \in [Places -> Documents] /\ searchable' = searchable
          /\ \A x \in Places : places'[x].pop = places[x].pop /\ places[x].doc <= places'[x].doc
      BY <2>2, <2>3
    <3>2. \A x \in Places : places[x].doc \in Int /\ places'[x].doc \in Int /\ searchable[x].doc \in Int
      BY <3>1 DEF SuggestIInv, SuggestTypes, Documents
    <3>. QED
      BY <3>1, <3>2 DEF SuggestIInv, SuggestTypes
  <2>. QED
    BY <2>1, <2>3
<1>3. SuggestTypes' /\ LeaseHeld'
  BY <1>1, <1>2 DEF SuggestIInv, SuggestTypes, LeaseHeld
<1>4. ASSUME NEW x \in Places \ entangled' PROVE Follows(x)'
  <2>1. Follows(x) /\ searchable[x].doc <= places[x].doc
    BY <1>1 DEF SuggestIInv, EachFollows, Follows
  <2>. QED
    BY <1>1, <1>2, <1>3, <2>1, FollowsOn DEF SuggestIInv
<1>5. BestStay'
  BY <1>1 DEF SuggestIInv, BestStay, Quiet, Writing, Current, Indexed
<1>. QED
  BY <1>3, <1>4, <1>5 DEF SuggestIInv, EachFollows

----------------------------------------------------------------------------
(* The warm-up.                                                            *)

LEMMA WarmerTyped ==
    ASSUME SuggestTypes, NEW w \in Warmers, NEW k \in WarmerRecs,
           k.at # "index" => k.todo = {}, k.at = "asleep" => k.lag = 0,
           warmer' = [warmer EXCEPT ![w] = k]
    PROVE  /\ warmer' \in [Warmers -> WarmerRecs]
           /\ \A v \in Warmers : /\ warmer'[v].at # "index" => warmer'[v].todo = {}
                                 /\ warmer'[v].at = "asleep" => warmer'[v].lag = 0
           /\ warmer'[w] = k /\ \A v \in Warmers : v # w => warmer'[v] = warmer[v]
BY DEF SuggestTypes

(* A warmer moves on, and with it at most the lease and the clock.         *)
LEMMA WarmOn ==
    ASSUME SuggestIInv, NEW w \in Warmers, NEW k \in WarmerRecs,
           k.at # "index" => k.todo = {}, k.at = "asleep" => k.lag = 0,
           warmer' = [warmer EXCEPT ![w] = k],
           UNCHANGED <<places, searchable, meta, bucket, click, overran>>,
           \/ entangled' = entangled /\ k.todo = warmer[w].todo
           \/ entangled' = entangled \cup {m.place : m \in warmer[w].todo} /\ k.todo = {},
           lease' \in [of : SUBSET Warmers, age : 0 .. LeaseTTL - 1],
           lastWarm' \in Unwarmed .. Rewarm, LeaseHeld'
    PROVE  SuggestIInv'
<1>1. /\ warmer' \in [Warmers -> WarmerRecs]
      /\ \A v \in Warmers : /\ warmer'[v].at # "index" => warmer'[v].todo = {}
                            /\ warmer'[v].at = "asleep" => warmer'[v].lag = 0
      /\ warmer'[w] = k /\ \A v \in Warmers : v # w => warmer'[v] = warmer[v]
  BY WarmerTyped DEF SuggestIInv
<1>2. entangled \subseteq entangled' /\ entangled' \subseteq Places
  <2>1. \A m \in warmer[w].todo : m.place \in Places
    BY DEF SuggestIInv, SuggestTypes, WarmerRecs, Members
  <2>. QED
    BY <2>1 DEF SuggestIInv, SuggestTypes
<1>3. SuggestTypes'
  BY <1>1, <1>2 DEF SuggestIInv, SuggestTypes
<1>4. \A v \in Warmers : \A m \in warmer'[v].todo : m \in warmer[v].todo
  BY <1>1
<1>5. \A x : x \notin entangled' => \A v \in Warmers : Warming(v, x) => Warming(v, x)'
  BY <1>1 DEF Warming
<1>6. ASSUME NEW x \in Places \ entangled' PROVE Follows(x)'
  <2>1. Follows(x)
    BY <1>2 DEF SuggestIInv, EachFollows
  <2>2. searchable[x].doc <= places[x].doc /\ searchable[x].doc \in Int
    BY <2>1 DEF Follows, SuggestIInv, SuggestTypes, Documents
  <2>. QED
    BY <1>3, <1>4, <2>1, <2>2, FollowsOn DEF SuggestIInv
<1>7. BestStay'
  <2>1. ASSUME entangled' = {}, NEW x \in Places, Quiet(x)' PROVE Quiet(x)
    <3>1. (\A d \in Clicks : ~ Clicking(d, x)') /\ \A v \in Warmers : ~ Warming(v, x)'
      BY <2>1, QuietNext
    <3>2. \A v \in Warmers : ~ Warming(v, x)
      BY <1>5, <2>1, <3>1
    <3>3. \A d \in Clicks : ~ Clicking(d, x)
      BY <3>1 DEF Clicking
    <3>. QED
      BY <3>2, <3>3, QuietMeans
  <2>2. entangled' = {} => entangled = {}
    BY <1>2
  <2>. QED
    BY <2>1, <2>2, BestOn DEF SuggestIInv
<1>. QED
  BY <1>3, <1>6, <1>7 DEF SuggestIInv, EachFollows

LEMMA LoungingTyped ==
    /\ Lounging \in WarmerRecs /\ Lounging.at = "asleep" /\ Lounging.todo = {} /\ Lounging.lag = 0
    /\ \A n \in Nat : \E k \in WarmerRecs :
          /\ k = [Lounging EXCEPT !.at = "release", !.lag = n]
          /\ k.at = "release" /\ k.todo = {} /\ k.lag = n
<1>1. Lounging \in WarmerRecs /\ Lounging.at = "asleep" /\ Lounging.todo = {} /\ Lounging.lag = 0
  BY DEF Lounging, WarmerRecs, WarmerAts
<1>2. ASSUME NEW n \in Nat
      PROVE  \E k \in WarmerRecs : /\ k = [Lounging EXCEPT !.at = "release", !.lag = n]
                                   /\ k.at = "release" /\ k.todo = {} /\ k.lag = n
  <2>1. PICK k : k = [Lounging EXCEPT !.at = "release", !.lag = n]
    OBVIOUS
  <2>2. k = [at |-> "release", todo |-> {}, last |-> {}, count |-> 0, lag |-> n]
    BY <2>1 DEF Lounging
  <2>3. k \in WarmerRecs
    BY <2>2 DEF WarmerRecs, WarmerAts
  <2>. QED
    BY <2>1, <2>2, <2>3
<1>. QED
  BY <1>1, <1>2

(* A warmer's record with another place in the loop.                       *)
LEMMA Onward ==
    ASSUME NEW u \in WarmerRecs, NEW a \in WarmerAts, u.todo = {}
    PROVE  \E k \in WarmerRecs : /\ k = [u EXCEPT !.at = a]
                                 /\ k.at = a /\ k.todo = {} /\ k.lag = u.lag
<1>1. PICK k : k = [at |-> a, todo |-> u.todo, last |-> u.last, count |-> u.count, lag |-> u.lag]
  OBVIOUS
<1>2. k \in WarmerRecs /\ k = [u EXCEPT !.at = a]
  BY <1>1 DEF WarmerRecs
<1>. QED
  BY <1>1, <1>2

(* Whoever stays awake keeps the lease it had.                             *)
LEMMA LeaseKept ==
    ASSUME SuggestIInv, NEW w \in Warmers, NEW k \in WarmerRecs,
           k.at # "index" => k.todo = {}, k.at = "asleep" => k.lag = 0,
           warmer' = [warmer EXCEPT ![w] = k], UNCHANGED <<lease, overran>>,
           k.at # "asleep" => warmer[w].at # "asleep" /\ k.lag = warmer[w].lag
    PROVE  LeaseHeld'
<1>1. warmer'[w] = k /\ \A v \in Warmers : v # w => warmer'[v] = warmer[v]
  BY WarmerTyped DEF SuggestIInv
<1>2. ASSUME ~ overran, NEW v \in Warmers, warmer'[v].at # "asleep"
      PROVE  lease.of = {v} /\ lease.age = warmer'[v].lag
  BY <1>1, <1>2 DEF SuggestIInv, LeaseHeld
<1>. QED
  BY <1>2 DEF LeaseHeld

LEMMA TakeLeaseStep ==
    ASSUME SuggestIInv, NEW w \in Warmers, TakeLease(w)
    PROVE  SuggestIInv'
<1>1. /\ warmer[w].at = "asleep" /\ lease = NoLease /\ lease' = [of |-> {w}, age |-> 0]
      /\ warmer' = [warmer EXCEPT ![w].at = "scan"]
      /\ UNCHANGED <<places, searchable, meta, bucket, click, lastWarm, overran, entangled>>
  BY DEF TakeLease, storeVars, indexVars
<1>2. PICK u \in WarmerRecs : u = warmer[w] /\ u.todo = {} /\ u.lag = 0
  BY <1>1 DEF SuggestIInv, SuggestTypes
<1>3. PICK k \in WarmerRecs : /\ k = [u EXCEPT !.at = "scan"]
                              /\ k.at = "scan" /\ k.todo = {} /\ k.lag = 0
  <2>1. "scan" \in WarmerAts
    BY DEF WarmerAts
  <2>. QED
    BY <1>2, <2>1, Onward
<1>4. warmer' = [warmer EXCEPT ![w] = k]
  BY <1>1, <1>2, <1>3
<1>5. lease' \in [of : SUBSET Warmers, age : 0 .. LeaseTTL - 1]
  BY <1>1, SuggestIndexAssumption
<1>6. LeaseHeld'
  <2>1. ASSUME ~ overran, NEW v \in Warmers, v # w PROVE warmer[v].at = "asleep"
    BY <1>1, <2>1 DEF SuggestIInv, LeaseHeld, NoLease
  <2>2. warmer'[w] = k /\ \A v \in Warmers : v # w => warmer'[v] = warmer[v]
    BY <1>3, <1>4, WarmerTyped DEF SuggestIInv
  <2>. QED
    BY <1>1, <1>3, <2>1, <2>2 DEF LeaseHeld
<1>7. lastWarm' \in Unwarmed .. Rewarm /\ k.todo = warmer[w].todo
  BY <1>1, <1>2, <1>3 DEF SuggestIInv, SuggestTypes
<1>. QED
  BY <1>1, <1>3, <1>4, <1>5, <1>6, <1>7, WarmOn

LEMMA EndWarmStep ==
    ASSUME SuggestIInv, NEW w \in Warmers, EndWarm(w)
    PROVE  SuggestIInv'
<1>1. /\ warmer[w].at = "end" /\ (lastWarm' = 0 \/ lastWarm' = lastWarm)
      /\ warmer' = [warmer EXCEPT ![w] = [Lounging EXCEPT !.at = "release", !.lag = warmer[w].lag]]
      /\ UNCHANGED <<places, searchable, meta, bucket, click, lease, overran, entangled>>
  BY DEF EndWarm, storeVars, indexVars
<1>2. warmer[w].todo = {} /\ warmer[w].lag \in Nat
  BY <1>1 DEF SuggestIInv, SuggestTypes, WarmerRecs
<1>3. PICK k \in WarmerRecs : /\ warmer' = [warmer EXCEPT ![w] = k]
                              /\ k.at = "release" /\ k.todo = {} /\ k.lag = warmer[w].lag
  BY <1>1, <1>2, LoungingTyped
<1>4. LeaseHeld'
  BY <1>1, <1>3, LeaseKept
<1>5. lastWarm' \in Unwarmed .. Rewarm /\ lease' \in [of : SUBSET Warmers, age : 0 .. LeaseTTL - 1]
  BY <1>1, SuggestIndexAssumption DEF Unwarmed, SuggestIInv, SuggestTypes
<1>. QED
  BY <1>1, <1>2, <1>3, <1>4, <1>5, WarmOn

LEMMA ReleaseStep ==
    ASSUME SuggestIInv, NEW w \in Warmers, Release(w)
    PROVE  SuggestIInv'
<1>1. /\ warmer[w].at = "release" /\ lease' = NoLease
      /\ warmer' = [warmer EXCEPT ![w] = Lounging]
      /\ UNCHANGED <<places, searchable, meta, bucket, click, lastWarm, overran, entangled>>
  BY DEF Release, storeVars, indexVars
<1>2. warmer[w].todo = {}
  BY <1>1 DEF SuggestIInv, SuggestTypes
<1>3. LeaseHeld'
  <2>1. ASSUME ~ overran, NEW v \in Warmers, v # w PROVE warmer[v].at = "asleep"
    BY <1>1, <2>1 DEF SuggestIInv, LeaseHeld
  <2>2. warmer'[w] = Lounging /\ \A v \in Warmers : v # w => warmer'[v] = warmer[v]
    BY <1>1, LoungingTyped, WarmerTyped DEF SuggestIInv
  <2>. QED
    BY <1>1, <2>1, <2>2, LoungingTyped DEF LeaseHeld
<1>4. lease' \in [of : SUBSET Warmers, age : 0 .. LeaseTTL - 1]
  BY <1>1, SuggestIndexAssumption DEF NoLease
<1>. QED
  BY <1>1, <1>2, <1>3, <1>4, LoungingTyped, WarmOn DEF SuggestIInv, SuggestTypes

LEMMA WarmTroubleStep ==
    ASSUME SuggestIInv, NEW w \in Warmers, WarmFails(w) \/ SearchFails(w) \/ WarmerDies(w)
    PROVE  SuggestIInv'
<1>1. /\ UNCHANGED <<places, searchable, meta, bucket, click, lease, lastWarm, overran>>
      /\ warmer[w].at # "asleep"
  BY DEF WarmFails, SearchFails, WarmerDies, storeVars, indexVars, leaseVars
<1>2. PICK u \in WarmerRecs : u = warmer[w] /\ u.lag \in Nat /\ (u.at # "index" => u.todo = {})
  BY DEF SuggestIInv, SuggestTypes, WarmerRecs
<1>3. PICK k \in WarmerRecs :
        /\ warmer' = [warmer EXCEPT ![w] = k] /\ k.todo = {}
        /\ k.lag = IF k.at = "asleep" THEN 0 ELSE u.lag
        /\ \/ entangled' = entangled /\ u.todo = {}
           \/ entangled' = entangled \cup {m.place : m \in warmer[w].todo}
  <2>1. CASE WarmFails(w)
    BY <1>2, <2>1, LoungingTyped DEF WarmFails
  <2>2. CASE SearchFails(w)
    <3>1. u.at = "scan" /\ u.todo = {} /\ "end" \in WarmerAts
      BY <1>2, <2>2 DEF SearchFails, WarmerAts
    <3>2. PICK k \in WarmerRecs : /\ k = [u EXCEPT !.at = "end"]
                                  /\ k.at = "end" /\ k.todo = {} /\ k.lag = u.lag
      BY <3>1, Onward
    <3>3. warmer' = [warmer EXCEPT ![w] = k] /\ entangled' = entangled
      BY <1>2, <2>2, <3>2 DEF SearchFails
    <3>. QED
      BY <3>1, <3>2, <3>3
  <2>3. CASE WarmerDies(w)
    <3>1. /\ warmer' = [warmer EXCEPT ![w] = Lounging]
          /\ entangled' = entangled \cup {m.place : m \in warmer[w].todo}
      BY <2>3 DEF WarmerDies
    <3>. QED
      BY <3>1, LoungingTyped
  <2>. QED
    BY <2>1, <2>2, <2>3
<1>4. LeaseHeld'
  BY <1>1, <1>2, <1>3, LeaseKept
<1>5. \/ entangled' = entangled /\ k.todo = warmer[w].todo
      \/ entangled' = entangled \cup {m.place : m \in warmer[w].todo} /\ k.todo = {}
  BY <1>2, <1>3
<1>. QED
  BY <1>1, <1>3, <1>4, <1>5, WarmOn DEF SuggestIInv, SuggestTypes

(* What a search finds: of every place, what was last made searchable.     *)
LEMMA HitFacts ==
    ASSUME SuggestTypes, NEW w \in Warmers
    PROVE  \A m \in Page(w) : /\ m \in Members /\ m.place \in Places
                              /\ m = Member(m.place, searchable[m.place])
                              /\ m.doc = searchable[m.place].doc
<1>1. Page(w) \subseteq Hits
  BY DEF Page, Foremost, Unread
<1>2. ASSUME NEW p \in Places
      PROVE  LET m == Member(p, searchable[p])
             IN  m \in Members /\ m.place = p /\ m.doc = searchable[p].doc
  BY DEF SuggestTypes, Documents, Member, Members
<1>. QED
  BY <1>1, <1>2 DEF Hits

LEMMA ScanPageStep ==
    ASSUME SuggestIInv, NEW w \in Warmers, ScanPage(w)
    PROVE  SuggestIInv'
<1>1. /\ warmer[w].at = "scan"
      /\ UNCHANGED <<places, searchable, meta, bucket, click, lease, lastWarm, overran>>
  BY DEF ScanPage, storeVars, indexVars, leaseVars
<1>2. PICK u \in WarmerRecs : u = warmer[w] /\ u.todo = {} /\ u.at = "scan"
  BY <1>1 DEF SuggestIInv, SuggestTypes
<1>3. CASE Unread(w) = {}
  <2>1. PICK k \in WarmerRecs : /\ k = [u EXCEPT !.at = "end"]
                                /\ k.at = "end" /\ k.todo = {} /\ k.lag = u.lag
    <3>1. "end" \in WarmerAts
      BY DEF WarmerAts
    <3>2. u.todo = {}
      BY <1>2
    <3>. QED
      BY <3>1, <3>2, Onward
  <2>2. warmer' = [warmer EXCEPT ![w] = k] /\ entangled' = entangled
    BY <1>2, <1>3, <2>1 DEF ScanPage
  <2>3. LeaseHeld'
    BY <1>1, <1>2, <2>1, <2>2, LeaseKept
  <2>4. k.todo = warmer[w].todo
    BY <1>2, <2>1
  <2>. QED
    BY <1>1, <2>1, <2>2, <2>3, <2>4, WarmOn DEF SuggestIInv, SuggestTypes
<1>4. CASE Unread(w) # {}
  <2>1. PICK T : T = Page(w)
    OBVIOUS
  <2>2. \A m \in T : /\ m \in Members /\ m.place \in Places
                     /\ m = Member(m.place, searchable[m.place])
                     /\ m.doc = searchable[m.place].doc
    BY <2>1, HitFacts DEF SuggestIInv
  <2>3. PICK l \in SUBSET Members : l = {m \in T : \A n \in T : ~ RanksAbove(m, n)}
    BY <2>2
  <2>4. /\ warmer' = [warmer EXCEPT ![w] = [@ EXCEPT !.at = "index", !.todo = T, !.last = l]]
        /\ entangled' = entangled \cup
              {m.place : m \in {n \in T : Writing(n.place) \/ n.pop # places[n.place].pop}}
    BY <1>4, <2>1, <2>3 DEF ScanPage
  <2>5. PICK k : k = [u EXCEPT !.at = "index", !.todo = T, !.last = l]
    OBVIOUS
  <2>6. k = [at |-> "index", todo |-> T, last |-> l, count |-> u.count, lag |-> u.lag]
    BY <2>5 DEF WarmerRecs
  <2>7. k \in WarmerRecs
    BY <2>2, <2>6 DEF WarmerRecs, WarmerAts
  <2>8. warmer' = [warmer EXCEPT ![w] = k] /\ k.at = "index" /\ k.todo = T /\ k.lag = u.lag
    BY <1>2, <2>4, <2>5, <2>6
  <2>9. /\ warmer' \in [Warmers -> WarmerRecs]
        /\ \A v \in Warmers : /\ warmer'[v].at # "index" => warmer'[v].todo = {}
                              /\ warmer'[v].at = "asleep" => warmer'[v].lag = 0
        /\ warmer'[w] = k /\ \A v \in Warmers : v # w => warmer'[v] = warmer[v]
    BY <2>7, <2>8, WarmerTyped DEF SuggestIInv
  <2>10. SuggestTypes'
    BY <1>1, <2>2, <2>4, <2>9 DEF SuggestIInv, SuggestTypes
  <2>11. LeaseHeld'
    BY <1>1, <1>2, <2>7, <2>8, LeaseKept
  <2>12. ASSUME NEW x \in Places \ entangled' PROVE Follows(x)'
    <3>1. Follows(x)
      BY <2>4 DEF SuggestIInv, EachFollows
    <3>2. CASE \A m \in T : m.place # x
      <4>1. \A v \in Warmers : \A m \in warmer'[v].todo : m.place = x => m \in warmer[v].todo
        BY <2>8, <2>9, <3>2
      <4>2. searchable[x].doc <= places[x].doc /\ searchable[x].doc \in Int
        BY <3>1 DEF Follows, SuggestIInv, SuggestTypes, Documents
      <4>. QED
        BY <1>1, <2>10, <3>1, <4>1, <4>2, FollowsOn DEF SuggestIInv
    <3>3. ASSUME NEW t \in T, t.place = x PROVE Follows(x)'
      <4>1. ~ Writing(x) /\ t.pop = places[x].pop
        BY <2>4, <3>3
      <4>2. /\ \A c \in Clicks : ~ Clicking(c, x) /\ ~ Clicking(c, x)'
            /\ \A v \in Warmers : ~ Warming(v, x)
        BY <1>1, <4>1, QuietMeans DEF Clicking
      <4>3. Own(x, meta[x])' /\ (meta'[x] # NoMeta => meta'[x].pop = places'[x].pop)
        BY <1>1, <3>1, <4>2 DEF Follows, Own
      <4>4. ASSUME NEW v \in Warmers, NEW m \in warmer'[v].todo, m.place = x PROVE m = t
        <5>1. v = w
          BY <2>9, <4>2, <4>4 DEF Warming
        <5>. QED
          BY <2>2, <2>8, <2>9, <3>3, <4>4, <5>1
      <4>5. meta[x].doc <= searchable[x].doc /\ searchable[x].doc <= places[x].doc
        BY <3>1 DEF Follows
      <4>6. Fresh(t, x)'
        <5>1. searchable[x].doc \in Int
          BY DEF SuggestIInv, SuggestTypes, Documents
        <5>. QED
          BY <1>1, <2>2, <3>3, <4>1, <4>5, <5>1 DEF Fresh
      <4>7. \A v \in Warmers : \A m \in warmer'[v].todo : m.place = x => Fresh(m, x)'
        BY <4>4, <4>6
      <4>8. \A v, y \in Warmers : \A m \in warmer'[v].todo, n \in warmer'[y].todo :
               m.place = x /\ n.place = x => m = n
        BY <4>4
      <4>. QED
        BY <1>1, <4>2, <4>3, <4>5, <4>7, <4>8 DEF Follows
    <3>. QED
      BY <3>2, <3>3
  <2>13. BestStay'
    <3>1. ASSUME NEW x \in Places, Quiet(x)' PROVE Quiet(x)
      <4>1. (\A d \in Clicks : ~ Clicking(d, x)') /\ \A v \in Warmers : ~ Warming(v, x)'
        BY <3>1, QuietNext
      <4>2. \A v \in Warmers : ~ Warming(v, x)
        BY <1>2, <2>9, <4>1 DEF Warming
      <4>3. \A d \in Clicks : ~ Clicking(d, x)
        BY <1>1, <4>1 DEF Clicking
      <4>. QED
        BY <4>2, <4>3, QuietMeans
    <3>2. entangled' = {} => entangled = {}
      BY <2>4
    <3>. QED
      BY <1>1, <3>1, <3>2, BestOn DEF SuggestIInv
  <2>. QED
    BY <2>10, <2>11, <2>12, <2>13 DEF SuggestIInv, EachFollows
<1>. QED
  BY <1>3, <1>4

LEMMA IndexEntryStep ==
    ASSUME SuggestIInv, NEW w \in Warmers, IndexEntry(w)
    PROVE  SuggestIInv'
<1>1. PICK m \in warmer[w].todo :
        /\ warmer[w].at = "index" /\ meta' = [meta EXCEPT ![m.place] = [doc |-> m.doc, pop |-> m.pop]]
        /\ bucket' = Trimmed(bucket \cup {m})
        /\ warmer' = [warmer EXCEPT ![w] =
              [@ EXCEPT !.todo = warmer[w].todo \ {m}, !.count = warmer[w].count + 1,
                        !.at = IF warmer[w].todo = {m} THEN PageDone(w, warmer[w].count + 1)
                                                       ELSE "index"]]
        /\ UNCHANGED <<places, searchable, click, lease, lastWarm, overran, entangled>>
  BY DEF IndexEntry, Foremost, storeVars, leaseVars
<1>2. PICK u \in WarmerRecs : u = warmer[w] /\ u.at = "index"
  BY <1>1 DEF SuggestIInv, SuggestTypes
<1>3. u.todo \subseteq Members /\ m \in u.todo /\ u.count \in Nat /\ u.lag \in Nat
  BY <1>1, <1>2 DEF WarmerRecs
<1>4. PICK p \in Places, e \in Documents :
        /\ m.place = p /\ e = [doc |-> m.doc, pop |-> m.pop] /\ m = Member(p, e) /\ m \in Members
        /\ e.doc = m.doc /\ e.pop = m.pop
  <2>1. m \in Members
    BY <1>3
  <2>2. m.place \in Places /\ m.doc \in 0 .. Versions /\ m.pop \in Popularities
        /\ m = [place |-> m.place, doc |-> m.doc, pop |-> m.pop]
    BY <2>1 DEF Members
  <2>3. PICK e : e = [doc |-> m.doc, pop |-> m.pop]
    OBVIOUS
  <2>4. e \in Documents /\ m = Member(m.place, e)
    BY <2>2, <2>3 DEF Documents, Member
  <2>. QED
    BY <2>1, <2>2, <2>3, <2>4
<1>5. PICK a \in WarmerAts : /\ a = (IF u.todo = {m} THEN PageDone(w, u.count + 1) ELSE "index")
                             /\ a # "asleep" /\ (a # "index" => u.todo = {m})
  BY <1>2 DEF PageDone, WarmerAts
<1>6. PICK k : k = [u EXCEPT !.todo = u.todo \ {m}, !.count = u.count + 1, !.at = a]
  OBVIOUS
<1>7. k = [at |-> a, todo |-> u.todo \ {m}, last |-> u.last, count |-> u.count + 1, lag |-> u.lag]
  BY <1>6 DEF WarmerRecs
<1>8. k \in WarmerRecs
  <2>1. PICK t \in SUBSET Members : t = u.todo \ {m}
    BY <1>3
  <2>2. PICK n \in Nat, l \in SUBSET Members, g \in Nat : n = u.count + 1 /\ l = u.last /\ g = u.lag
    BY <1>3 DEF WarmerRecs
  <2>3. k = [at |-> a, todo |-> t, last |-> l, count |-> n, lag |-> g]
    BY <1>7, <2>1, <2>2
  <2>. QED
    BY <2>3 DEF WarmerRecs
<1>9. /\ warmer' = [warmer EXCEPT ![w] = k] /\ k.todo = u.todo \ {m} /\ k.lag = u.lag /\ k.at = a
      /\ k.at # "index" => k.todo = {}
  <2>2. warmer' = [warmer EXCEPT ![w] = k]
    BY <1>1, <1>2, <1>5, <1>6
  <2>3. k.todo = u.todo \ {m} /\ k.lag = u.lag /\ k.at = a
    BY <1>7
  <2>4. a # "index" => u.todo \ {m} = {}
    BY <1>5
  <2>. QED
    BY <2>2, <2>3, <2>4
<1>10. /\ warmer' \in [Warmers -> WarmerRecs]
       /\ \A v \in Warmers : /\ warmer'[v].at # "index" => warmer'[v].todo = {}
                             /\ warmer'[v].at = "asleep" => warmer'[v].lag = 0
       /\ warmer'[w] = k /\ \A v \in Warmers : v # w => warmer'[v] = warmer[v]
  BY <1>5, <1>8, <1>9, WarmerTyped DEF SuggestIInv
<1>11. meta' \in [Places -> Documents \cup {NoMeta}] /\ meta'[p] = e
       /\ \A x \in Places : x # p => meta'[x] = meta[x]
  BY <1>1, <1>4 DEF SuggestIInv, SuggestTypes
<1>12. PICK B : B = bucket \cup {m}
  OBVIOUS
<1>13. B \subseteq Members /\ IsFiniteSet(B) /\ bucket' = Trimmed(B) /\ m \in B /\ bucket \subseteq B
  BY <1>1, <1>4, <1>12, FS_AddElement DEF SuggestIInv, SuggestTypes
<1>14. bucket' \subseteq B
  BY <1>13 DEF Trimmed
<1>15. SuggestTypes'
  <2>1. bucket' \subseteq Members /\ IsFiniteSet(bucket')
    BY <1>13, <1>14, FS_Subset
  <2>. QED
    BY <1>1, <1>10, <1>11, <2>1 DEF SuggestIInv, SuggestTypes
<1>16. LeaseHeld'
  BY <1>1, <1>2, <1>5, <1>8, <1>9, LeaseKept
<1>17. \A v \in Warmers : \A n \in warmer'[v].todo : n \in warmer[v].todo
  BY <1>2, <1>9, <1>10
<1>18. ASSUME NEW x \in Places \ entangled' PROVE Follows(x)'
  <2>1. Follows(x)
    BY <1>1 DEF SuggestIInv, EachFollows
  <2>2. CASE x # p
    <3>1. \A n \in bucket' : n.place = x => n \in bucket
      BY <1>4, <1>12, <1>14, <2>2
    <3>2. searchable[x].doc <= places[x].doc /\ searchable[x].doc \in Int
      BY <2>1 DEF Follows, SuggestIInv, SuggestTypes, Documents
    <3>3. /\ places'[x].pop = places[x].pop /\ meta'[x] = meta[x]
          /\ searchable[x].doc <= searchable'[x].doc /\ searchable'[x].doc <= places'[x].doc
          /\ \A c \in Clicks : click'[c] = click[c]
      BY <1>1, <1>11, <2>2, <3>2
    <3>4. SuggestTypes
      BY DEF SuggestIInv
    <3>5. \A v \in Warmers : \A n \in warmer'[v].todo : n.place = x => n \in warmer[v].todo
      BY <1>17
    <3>. QED
      BY <1>15, <2>1, <3>1, <3>3, <3>4, <3>5, FollowsOn
  <2>3. CASE x = p
    <3>1. Warming(w, p)
      BY <1>1, <1>4 DEF Warming
    <3>2. \A c \in Clicks : ~ Clicking(c, p) /\ ~ Clicking(c, p)'
      BY <1>1, <2>1, <2>3, <3>1 DEF Follows, Clicking
    <3>3. /\ e.pop = places[p].pop /\ meta[p].doc <= e.doc /\ e.doc <= searchable[p].doc
          /\ searchable[p].doc <= places[p].doc
      BY <1>1, <1>4, <2>1, <2>3 DEF Follows, Fresh
    <3>4. Own(p, meta[p]) /\ (meta[p] # NoMeta => meta[p].pop = e.pop)
      BY <2>1, <2>3, <3>2, <3>3 DEF Follows
    <3>5. ASSUME NEW n \in B, n.place = p PROVE n.doc < e.doc \/ n = m
      <4>1. CASE n \in bucket
        <5>1. n.doc < meta[p].doc \/ n = Member(p, meta[p])
          BY <3>4, <3>5, <4>1 DEF Own
        <5>2. n.doc \in Nat /\ e.doc \in Nat /\ meta[p].doc \in Int
          BY <1>13, <3>5, SuggestIndexAssumption
             DEF Members, Documents, NoMeta, Unwarmed, SuggestIInv, SuggestTypes
        <5>3. CASE n.doc < meta[p].doc
          BY <3>3, <5>2, <5>3
        <5>4. CASE n = Member(p, meta[p])
          <6>1. n.doc = meta[p].doc
            BY <5>4 DEF Member
          <6>2. meta[p] # NoMeta
            BY <5>2, <6>1 DEF NoMeta, Unwarmed
          <6>3. CASE meta[p].doc = e.doc
            <7>1. Member(p, meta[p]) = Member(p, e)
              BY <3>4, <6>2, <6>3 DEF Member
            <7>. QED
              BY <1>4, <5>4, <7>1
          <6>4. CASE meta[p].doc # e.doc
            BY <3>3, <5>2, <6>1, <6>4
          <6>. QED
            BY <6>3, <6>4
        <5>. QED
          BY <5>1, <5>3, <5>4
      <4>. QED
        BY <1>12, <3>5, <4>1
    <3>6. Own(p, e)'
      BY <1>4, <1>14, <3>5 DEF Own
    <3>7. Own(p, meta[p])'
      BY <1>11, <3>6 DEF Own
    <3>8. ASSUME NEW v \in Warmers, NEW n \in warmer'[v].todo, n.place = p PROVE Fresh(n, p)'
      <4>1. n = m
        BY <1>1, <1>4, <1>17, <2>1, <2>3, <3>8 DEF Follows
      <4>2. e.doc \in Int
        BY DEF Documents
      <4>. QED
        BY <1>1, <1>4, <1>11, <3>3, <4>1, <4>2 DEF Fresh
    <3>9. \A v, y \in Warmers : \A n \in warmer'[v].todo, o \in warmer'[y].todo :
             n.place = p /\ o.place = p => n = o
      BY <1>17, <2>1, <2>3 DEF Follows
    <3>10. /\ meta'[p].doc <= searchable'[p].doc /\ searchable'[p].doc <= places'[p].doc
           /\ meta'[p].pop = places'[p].pop
      BY <1>1, <1>11, <3>3
    <3>. QED
      BY <2>3, <3>2, <3>7, <3>8, <3>9, <3>10 DEF Follows
  <2>. QED
    BY <2>2, <2>3
<1>19. BestStay'
  <2>. SUFFICES ASSUME entangled' = {}, NEW x \in Places, Quiet(x)', Indexed(x)',
                       Current(x)' \notin bucket'
                PROVE  TopK <= Cardinality({n \in bucket' : Score(n) > Score(Current(x)')})
    BY DEF BestStay
  <2>1. CASE x = p
    <3>1. Current(x)' = m
      BY <1>4, <1>11, <2>1 DEF Current, Member
    <3>. QED
      BY <1>13, <3>1, TrimmedAway
  <2>2. CASE x # p
    <3>1. Quiet(x)
      <4>1. (\A d \in Clicks : ~ Clicking(d, x)') /\ \A v \in Warmers : ~ Warming(v, x)'
        BY QuietNext
      <4>2. \A v \in Warmers : ~ Warming(v, x)
        BY <1>2, <1>4, <1>9, <1>10, <2>2, <4>1 DEF Warming
      <4>3. \A d \in Clicks : ~ Clicking(d, x)
        BY <1>1, <4>1 DEF Clicking
      <4>. QED
        BY <4>2, <4>3, QuietMeans
    <3>2. PICK n : n = Current(x)
      OBVIOUS
    <3>3. n \in Members /\ Current(x)' = n /\ Indexed(x) /\ Score(n) \in Nat
      <4>1. Indexed(x) /\ Current(x)' = n
        BY <1>11, <2>2, <3>2 DEF Indexed, Current, Member
      <4>2. n \in Members
        <5>1. meta[x].doc \in 0 .. Versions /\ meta[x].pop \in Popularities
          BY <4>1, MetaFacts DEF Indexed, SuggestIInv
        <5>. QED
          BY <3>2, <5>1 DEF Current, Member, Members
      <4>. QED
        BY <4>1, <4>2, ScoreFacts
    <3>4. CASE n \notin bucket
      <4>1. TopK <= Cardinality({b \in bucket : Score(b) > Score(n)})
        BY <1>1, <3>1, <3>2, <3>3, <3>4 DEF SuggestIInv, BestStay
      <4>2. /\ IsFiniteSet({b \in B : Score(b) > Score(n)})
            /\ {b \in bucket : Score(b) > Score(n)} \subseteq {b \in B : Score(b) > Score(n)}
        BY <1>13, FS_Subset
      <4>3. /\ Cardinality({b \in bucket : Score(b) > Score(n)})
               <= Cardinality({b \in B : Score(b) > Score(n)})
            /\ Cardinality({b \in bucket : Score(b) > Score(n)}) \in Nat
            /\ Cardinality({b \in B : Score(b) > Score(n)}) \in Nat /\ TopK \in Nat
        BY <4>2, FS_Subset, FS_CardinalityType, SuggestIndexAssumption
      <4>4. TopK <= Cardinality({b \in B : Score(b) > Score(n)})
        BY <4>1, <4>3
      <4>5. TopK <= Cardinality({b \in Trimmed(B) : Score(b) > Score(n)})
        BY <1>13, <3>3, <4>4, TrimKeeps
      <4>. QED
        BY <1>13, <3>3, <4>5
    <3>5. CASE n \in bucket
      BY <1>13, <3>3, <3>5, TrimmedAway
    <3>. QED
      BY <3>4, <3>5
  <2>. QED
    BY <2>1, <2>2
<1>. QED
  BY <1>15, <1>16, <1>18, <1>19 DEF SuggestIInv, EachFollows

LEMMA SuggestTickStep ==
    ASSUME SuggestIInv, SuggestTick
    PROVE  SuggestIInv'
<1>1. /\ lease' = IF lease.age + 1 >= LeaseTTL \/ lease.of = {} THEN NoLease
                                                 ELSE [lease EXCEPT !.age = @ + 1]
      /\ lastWarm' = Older(lastWarm, Rewarm)
      /\ warmer' = [v \in Warmers |-> IF warmer[v].at = "asleep" THEN Lounging
                                      ELSE [warmer[v] EXCEPT !.lag = @ + 1]]
      /\ overran' = (overran \/ Overruns # {})
      /\ UNCHANGED <<places, searchable, meta, bucket, click, entangled>>
  BY DEF SuggestTick, storeVars, indexVars
<1>2. ASSUME NEW v \in Warmers
      PROVE  /\ warmer'[v] \in WarmerRecs /\ warmer'[v].todo = warmer[v].todo
             /\ warmer'[v].at = warmer[v].at
             /\ warmer[v].lag \in Nat
             /\ warmer'[v].lag = IF warmer[v].at = "asleep" THEN 0 ELSE warmer[v].lag + 1
  <2>1. PICK u \in WarmerRecs : u = warmer[v]
    BY DEF SuggestIInv, SuggestTypes
  <2>2. CASE u.at = "asleep"
    <3>1. warmer'[v] = Lounging /\ warmer[v].todo = {}
      BY <1>1, <2>1, <2>2 DEF SuggestIInv, SuggestTypes
    <3>. QED
      BY <2>1, <2>2, <3>1, LoungingTyped DEF WarmerRecs
  <2>3. CASE u.at # "asleep"
    <3>1. PICK k : k = [u EXCEPT !.lag = @ + 1]
      OBVIOUS
    <3>2. warmer'[v] = k
      BY <1>1, <2>1, <2>3, <3>1
    <3>3. k \in WarmerRecs /\ k.todo = u.todo /\ k.at = u.at /\ k.lag = u.lag + 1 /\ u.lag \in Nat
      BY <3>1 DEF WarmerRecs
    <3>. QED
      BY <2>1, <2>3, <3>2, <3>3
  <2>. QED
    BY <2>2, <2>3
<1>3. warmer' \in [Warmers -> WarmerRecs]
  BY <1>1, <1>2
<1>4. PICK l \in [of : SUBSET Warmers, age : 0 .. LeaseTTL - 1] : l = lease
  BY DEF SuggestIInv, SuggestTypes
<1>5. lease' \in [of : SUBSET Warmers, age : 0 .. LeaseTTL - 1]
  <2>1. CASE l.age + 1 >= LeaseTTL \/ l.of = {}
    BY <1>1, <1>4, <2>1, SuggestIndexAssumption DEF NoLease
  <2>2. CASE ~ (l.age + 1 >= LeaseTTL \/ l.of = {})
    <3>1. lease' = [l EXCEPT !.age = @ + 1]
      BY <1>1, <1>4, <2>2
    <3>2. l.age + 1 \in 0 .. LeaseTTL - 1
      BY <2>2, SuggestIndexAssumption
    <3>. QED
      BY <3>1, <3>2
  <2>. QED
    BY <2>1, <2>2
<1>6. lastWarm' \in Unwarmed .. Rewarm
  <2>1. lastWarm \in -1 .. Rewarm /\ Rewarm \in Nat
    BY SuggestIndexAssumption DEF SuggestIInv, SuggestTypes, Unwarmed
  <2>2. lastWarm' = IF lastWarm = -1 \/ lastWarm = Rewarm THEN lastWarm ELSE lastWarm + 1
    BY <1>1 DEF Older, Unwarmed
  <2>3. lastWarm' \in -1 .. Rewarm
    BY <2>1, <2>2
  <2>. QED
    BY <2>3 DEF Unwarmed
<1>7. overran' \in BOOLEAN
  BY <1>1
<1>8. SuggestTypes'
  BY <1>1, <1>2, <1>3, <1>5, <1>6, <1>7 DEF SuggestIInv, SuggestTypes
<1>9. LeaseHeld'
  <2>. SUFFICES ASSUME ~ overran', NEW v \in Warmers, warmer'[v].at # "asleep"
                PROVE  lease'.of = {v} /\ lease'.age = warmer'[v].lag
    BY DEF LeaseHeld
  <2>1. ~ overran /\ Overruns = {}
    BY <1>1
  <2>2. /\ warmer[v].at # "asleep" /\ warmer[v].lag \in Nat /\ warmer[v].lag + 1 # LeaseTTL
        /\ warmer'[v].lag = warmer[v].lag + 1
    BY <1>2, <2>1 DEF Overruns
  <2>3. l.of = {v} /\ l.age = warmer[v].lag
    BY <1>4, <2>1, <2>2 DEF SuggestIInv, LeaseHeld
  <2>4. ~ (l.age + 1 >= LeaseTTL) /\ l.age + 1 = warmer'[v].lag
    BY <2>2, <2>3, SuggestIndexAssumption
  <2>5. lease' = [l EXCEPT !.age = @ + 1]
    BY <1>1, <1>4, <2>3, <2>4
  <2>. QED
    BY <1>4, <2>3, <2>4, <2>5
<1>10. ASSUME NEW x \in Places \ entangled' PROVE Follows(x)'
  <2>1. Follows(x)
    BY <1>1 DEF SuggestIInv, EachFollows
  <2>2. searchable[x].doc <= places[x].doc /\ searchable[x].doc \in Int
    BY <2>1 DEF Follows, SuggestIInv, SuggestTypes, Documents
  <2>3. /\ places'[x].pop = places[x].pop /\ meta'[x] = meta[x]
        /\ searchable[x].doc <= searchable'[x].doc /\ searchable'[x].doc <= places'[x].doc
        /\ \A c \in Clicks : click'[c] = click[c]
    BY <1>1, <2>2
  <2>4. \A v \in Warmers : \A n \in warmer'[v].todo : n.place = x => n \in warmer[v].todo
    BY <1>2
  <2>5. SuggestTypes /\ bucket' = bucket
    BY <1>1 DEF SuggestIInv
  <2>. QED
    BY <1>8, <2>1, <2>3, <2>4, <2>5, FollowsOn
<1>11. BestStay'
  <2>1. ASSUME NEW x \in Places, Quiet(x)' PROVE Quiet(x)
    <3>1. (\A d \in Clicks : ~ Clicking(d, x)') /\ \A v \in Warmers : ~ Warming(v, x)'
      BY <2>1, QuietNext
    <3>2. \A v \in Warmers : ~ Warming(v, x)
      BY <1>2, <3>1 DEF Warming
    <3>3. \A d \in Clicks : ~ Clicking(d, x)
      BY <1>1, <3>1 DEF Clicking
    <3>. QED
      BY <3>2, <3>3, QuietMeans
  <2>. QED
    BY <1>1, <2>1, BestOn DEF SuggestIInv
<1>. QED
  BY <1>8, <1>9, <1>10, <1>11 DEF SuggestIInv, EachFollows

LEMMA NextSuggest == SuggestIInv /\ [SuggestNext]_suggestVars => SuggestIInv'
<1>. SUFFICES ASSUME SuggestIInv, [SuggestNext]_suggestVars PROVE SuggestIInv'
  OBVIOUS
<1>1. CASE \E c \in Clicks : \/ ClickStep(c) \/ ClickFails(c)
                             \/ \E p \in Places, b \in Boosts : Boost(c, p, b) \/ BoostFails(c, p, b)
  BY <1>1, BoostStep, ReadMetaStep, SetMetaStep, SwapMemberStep, ClickFailsStep DEF ClickStep
<1>2. CASE \E w \in Warmers : WarmStep(w) \/ WarmFails(w) \/ SearchFails(w) \/ WarmerDies(w)
  BY <1>2, TakeLeaseStep, ScanPageStep, IndexEntryStep, EndWarmStep, ReleaseStep, WarmTroubleStep
     DEF WarmStep
<1>3. CASE (\E p \in Places : Reingest(p)) \/ Refresh
  BY <1>3, StoreStep
<1>4. CASE SuggestTick
  BY <1>4, SuggestTickStep
<1>5. CASE UNCHANGED suggestVars
  <2>1. UNCHANGED <<places, searchable, meta, bucket, click, warmer, lease, lastWarm, overran, entangled>>
    BY <1>5 DEF suggestVars
  <2>2. SuggestTypes' /\ LeaseHeld'
    BY <2>1 DEF SuggestIInv, SuggestTypes, LeaseHeld
  <2>3. ASSUME NEW x \in Places \ entangled' PROVE Follows(x)'
    <3>1. Follows(x)
      BY <2>1 DEF SuggestIInv, EachFollows
    <3>2. searchable[x].doc <= places[x].doc /\ searchable[x].doc \in Int
      BY <3>1 DEF Follows, SuggestIInv, SuggestTypes, Documents
    <3>. QED
      BY <2>1, <2>2, <3>1, <3>2, FollowsOn DEF SuggestIInv
  <2>4. BestStay'
    BY <2>1 DEF SuggestIInv, BestStay, Quiet, Writing, Current, Indexed
  <2>. QED
    BY <2>2, <2>3, <2>4 DEF SuggestIInv, EachFollows
<1>. QED
  BY <1>1, <1>2, <1>3, <1>4, <1>5 DEF SuggestNext

LEMMA SuggestMeans == SuggestIInv => SuggestInv
<1>. SUFFICES ASSUME SuggestIInv PROVE SuggestInv
  OBVIOUS
<1>1. SuggestTypeOK
  <2>1. ASSUME NEW w \in Warmers
        PROVE  warmer[w].at \in WarmerAts /\ warmer[w].todo \subseteq Members
    BY DEF SuggestIInv, SuggestTypes, WarmerRecs
  <2>2. ASSUME NEW c \in Clicks PROVE click[c].at \in ClickAts
    BY DEF SuggestIInv, SuggestTypes, ClickRecs
  <2>3. lease.of \subseteq Warmers /\ lease.age \in 0 .. LeaseTTL - 1
    BY DEF SuggestIInv, SuggestTypes
  <2>. QED
    BY <2>1, <2>2, <2>3 DEF SuggestTypeOK, SuggestIInv, SuggestTypes, WarmerAts, ClickAts
<1>2. OneWarmer
  <2>. SUFFICES ASSUME ~ overran
                PROVE  Cardinality({w \in Warmers : warmer[w].at # "asleep"}) <= 1
    BY DEF OneWarmer
  <2>1. PICK S : S = {w \in Warmers : warmer[w].at # "asleep"}
    OBVIOUS
  <2>2. \A v, w \in S : v = w
    BY <2>1 DEF SuggestIInv, LeaseHeld
  <2>3. S = {} \/ \E w : S = {w}
    BY <2>2
  <2>4. Cardinality(S) \in {0, 1}
    BY <2>3, FS_EmptySet, FS_Singleton
  <2>. QED
    BY <2>1, <2>4
<1>3. OneMemberEach
  <2>. SUFFICES ASSUME NEW p \in Places \ entangled, Quiet(p), Indexed(p)
                PROVE  /\ meta[p].pop = places[p].pop
                       /\ \A m \in bucket : m.place = p => m = Current(p) \/ m.doc < meta[p].doc
    BY DEF OneMemberEach
  <2>1. Follows(p) /\ \A c \in Clicks : ~ Clicking(c, p)
    BY QuietMeans DEF SuggestIInv, EachFollows
  <2>2. Own(p, meta[p]) /\ meta[p].pop = places[p].pop
    BY <2>1 DEF Follows, Indexed
  <2>. QED
    BY <2>2 DEF Own, Current
<1>. QED
  BY <1>1, <1>2, <1>3 DEF SuggestIInv, SuggestInv

(* For any places, clicks, replicas and failures: one replica warms at a   *)
(* time until a warm-up outlasts its lease; a place whose updates came one *)
(* by one, reached both sides and were searchable in time has the          *)
(* popularity of Elasticsearch and one member of its current version, all  *)
(* others being of earlier versions; and what is trimmed away stays out    *)
(* only as long as TopK better ones are in.                                *)
THEOREM SuggestInvariant == SuggestSpec => []SuggestInv
<1>1. SuggestSpec => []SuggestIInv
  BY InitSuggest, NextSuggest, PTL DEF SuggestSpec
<1>. QED
  BY <1>1, SuggestMeans, PTL

----------------------------------------------------------------------------
(* The scrolls of /nearby.                                                 *)

SortValues == Int \X Int
Cursors    == {Top} \cup SortValues
ScrollAts  == {"none", "scroll", "end"}
Sorts      == {"distance", "best"}
PageHits   == Seq(Sites)
ScrollRecs == [at : ScrollAts, point : Points \cup {0}, sort : Sorts, cursor : Cursors,
               got : PageHits, own : BOOLEAN, had : SUBSET Sites]
Nexts      == SUBSET SortValues
PageRecs   == [hits : PageHits, next : Nexts, of : Points \cup {0}, fresh : BOOLEAN]

NearbyTypes ==
    /\ DOMAIN index \subseteq Sites /\ \A s \in DOMAIN index : index[s] \in Nat
    /\ \A k \in DOMAIN pages : pages[k] \in PageRecs
    /\ scroll \in [Clients -> ScrollRecs]
    /\ touched \in [Clients -> SUBSET Sites]

\* A page nobody has changed the index since.
FreshPages ==
    \A k \in DOMAIN pages : pages[k].fresh =>
        LET a == Answer(pages[k].of, k[2], k[3])
        IN pages[k].hits = a.hits /\ pages[k].next = a.next

Never(g, s) == \A i \in 1 .. Len(g) : g[i] # s
Once(g, s)  == \E i \in 1 .. Len(g) : \A j \in 1 .. Len(g) : g[j] = s <=> j = i

\* A place at or before the cursor has been shown, one after it has not.
Passed(k, s) == \/ k.at = "end"
                \/ k.cursor # Top /\ ~ Precedes(k.cursor, SortValue(k.point, s, k.sort))

OwnScroll(k, untouched) ==
    k.own => \A s \in untouched : /\ s \in DOMAIN index
                                  /\ IF Passed(k, s) THEN Once(k.got, s) ELSE Never(k.got, s)

OwnScrolls == \A c \in Clients : OwnScroll(scroll[c], Untouched(c))

NearbyIInv == NearbyTypes /\ FreshPages /\ OwnScrolls

LEMMA PrecedesOrder ==
    ASSUME NEW u \in SortValues, NEW v \in SortValues, NEW w \in SortValues
    PROVE  /\ ~ Precedes(u, u)
           /\ Precedes(u, v) => ~ Precedes(v, u)
           /\ Precedes(u, v) /\ Precedes(v, w) => Precedes(u, w)
           /\ Precedes(u, v) \/ Precedes(v, u) \/ u = v
<1>1. /\ u[1] \in Int /\ u[2] \in Int /\ u = <<u[1], u[2]>>
      /\ v[1] \in Int /\ v[2] \in Int /\ v = <<v[1], v[2]>>
      /\ w[1] \in Int /\ w[2] \in Int
  BY DEF SortValues
<1>. QED
  BY <1>1 DEF Precedes

LEMMA SortFacts ==
    ASSUME NearbyTypes, NEW p \in Int, NEW s \in DOMAIN index, NEW sort
    PROVE  SortValue(p, s, sort) \in SortValues /\ SortValue(p, s, sort)[2] = s
<1>1. s \in Int /\ index[s] \in Nat
  BY NearbyScrollAssumption DEF NearbyTypes
<1>2. Gap(p, s) \in Int
  BY <1>1 DEF Gap
<1>3. PICK g \in Int : g = Gap(p, s)
  BY <1>2
<1>4. g - 3 * index[s] \in Int
  BY <1>1
<1>. QED
  BY <1>1, <1>3, <1>4 DEF SortValue, SortValues

\* How many places are before each.
Numbered(L, sv) == [s \in L |-> Cardinality({t \in L : Precedes(sv[t], sv[s])})]

(* The numbers of the places in an order go from 0 up without a gap.       *)
LEMMA Ranked ==
    ASSUME NEW L, IsFiniteSet(L), NEW sv \in [L -> SortValues],
           \A s, t \in L : sv[s] = sv[t] => s = t,
           NEW rank, rank = Numbered(L, sv)
    PROVE  /\ Cardinality(L) \in Nat
           /\ \A s \in L : rank[s] \in 0 .. Cardinality(L) - 1
           /\ \A s, t \in L : Precedes(sv[s], sv[t]) <=> rank[s] < rank[t]
           /\ \A s, t \in L : rank[s] = rank[t] => s = t
           /\ \A i \in 0 .. Cardinality(L) - 1 : \E s \in L : rank[s] = i
<1> DEFINE Below(s) == {t \in L : Precedes(sv[t], sv[s])}
<1>1. \A s \in L : /\ IsFiniteSet(Below(s)) /\ Cardinality(Below(s)) \in Nat
                   /\ rank[s] = Cardinality(Below(s)) /\ s \notin Below(s)
                   /\ Below(s) \subseteq L
                   /\ \A t \in L : t \in Below(s) <=> Precedes(sv[t], sv[s])
  BY FS_Subset, FS_CardinalityType, PrecedesOrder DEF Numbered
<1>. HIDE DEF Below
<1>2. Cardinality(L) \in Nat
  BY FS_CardinalityType
<1>3. ASSUME NEW s \in L PROVE rank[s] \in 0 .. Cardinality(L) - 1
  <2>1. Below(s) \subseteq L /\ Below(s) # L
    BY <1>1
  <2>2. Cardinality(Below(s)) <= Cardinality(L) /\ Cardinality(Below(s)) # Cardinality(L)
    BY <2>1, FS_Subset
  <2>. QED
    BY <1>1, <1>2, <2>2
<1>4. ASSUME NEW s \in L, NEW t \in L, Precedes(sv[s], sv[t]) PROVE rank[s] < rank[t]
  <2>1. Below(s) \subseteq Below(t) /\ s \in Below(t)
    BY <1>1, <1>4, PrecedesOrder
  <2>2. Below(s) # Below(t)
    BY <1>1, <2>1
  <2>3. Cardinality(Below(s)) <= Cardinality(Below(t)) /\ Cardinality(Below(s)) # Cardinality(Below(t))
    BY <1>1, <2>1, <2>2, FS_Subset
  <2>. QED
    BY <1>1, <2>3
<1>5. ASSUME NEW s \in L, NEW t \in L
      PROVE  Precedes(sv[s], sv[t]) \/ Precedes(sv[t], sv[s]) \/ s = t
  BY PrecedesOrder
<1>6. \A s, t \in L : rank[s] \in Nat /\ rank[t] \in Nat
  BY <1>1
<1>7. ASSUME NEW s \in L, NEW t \in L PROVE Precedes(sv[s], sv[t]) <=> rank[s] < rank[t]
  <2>1. PICK a \in Nat, b \in Nat : a = rank[s] /\ b = rank[t]
    BY <1>6
  <2>2. /\ Precedes(sv[s], sv[t]) => a < b
        /\ Precedes(sv[t], sv[s]) => b < a
        /\ s = t => a = b
    BY <1>4, <2>1
  <2>. QED
    BY <1>5, <2>1, <2>2
<1>8. \A s, t \in L : rank[s] = rank[t] => s = t
  BY <1>4, <1>5, <1>6
<1>9. \A i \in 0 .. Cardinality(L) - 1 : \E s \in L : rank[s] = i
  <2>1. PICK T : T = 0 .. Cardinality(L) - 1
    OBVIOUS
  <2>2. IsFiniteSet(T) /\ Cardinality(T) = Cardinality(L)
    BY <1>2, <2>1, FS_Interval
  <2>3. rank \in [L -> T]
    BY <1>3, <2>1 DEF Numbered
  <2>4. rank \in Injection(L, T)
    BY <1>8, <2>3 DEF Injection, IsInjective
  <2>5. rank \in Surjection(L, T)
    BY <2>2, <2>4, FS_Injection
  <2>. QED
    BY <2>1, <2>5 DEF Surjection
<1>. QED
  BY <1>2, <1>3, <1>7, <1>8, <1>9

(* An answer's page: the first places after the cursor, each once, and the *)
(* next cursor between them and the others.                                *)
GoodPage(p, sort, left, hits, next) ==
    /\ left \subseteq DOMAIN index /\ hits \in PageHits /\ next \in Nexts
    /\ \A i \in 1 .. Len(hits) : hits[i] \in left
    /\ \A i, j \in 1 .. Len(hits) : hits[i] = hits[j] => i = j
    /\ next = {} => \A s \in left : \E i \in 1 .. Len(hits) : hits[i] = s
    /\ \A v \in next : \A s \in left :
           (\E i \in 1 .. Len(hits) : hits[i] = s) <=> ~ Precedes(v, SortValue(p, s, sort))
    /\ \A v \in next : \E s \in left : v = SortValue(p, s, sort)

LEMMA AnswerFacts ==
    ASSUME NearbyTypes, NEW p \in Points \cup {0}, NEW sort, NEW cursor \in Cursors,
           NEW hits, NEW next, NEW left,
           hits = Answer(p, sort, cursor).hits, next = Answer(p, sort, cursor).next,
           left = After(p, sort, cursor)
    PROVE  GoodPage(p, sort, left, hits, next)
<1>1. p \in Int
  BY NearbyScrollAssumption
<1>2. left \subseteq DOMAIN index /\ left \subseteq Sites /\ IsFiniteSet(left)
  BY FS_Subset, NearbyScrollAssumption DEF After, NearbyTypes
<1>3. PICK sv : sv = [s \in left |-> SortValue(p, s, sort)]
  OBVIOUS
<1>4. sv \in [left -> SortValues] /\ \A s, t \in left : sv[s] = sv[t] => s = t
  <2>1. \A s \in left : sv[s] \in SortValues /\ sv[s][2] = s
    BY <1>1, <1>2, <1>3, SortFacts
  <2>. QED
    BY <1>3, <2>1
<1>5. PICK rank : rank = Numbered(left, sv)
  OBVIOUS
<1>6. Answer(p, sort, cursor) = PageOf(left, sv, cursor)
  BY <1>3 DEF Answer
<1>7. /\ Cardinality(left) \in Nat
      /\ \A s \in left : rank[s] \in 0 .. Cardinality(left) - 1
      /\ \A s, t \in left : Precedes(sv[s], sv[t]) <=> rank[s] < rank[t]
      /\ \A s, t \in left : rank[s] = rank[t] => s = t
      /\ \A i \in 0 .. Cardinality(left) - 1 : \E s \in left : rank[s] = i
  BY <1>2, <1>4, <1>5, Ranked
<1>8. PICK n : n = Least(Limit, Cardinality(left))
  OBVIOUS
<1>9. n \in Nat /\ n <= Cardinality(left) /\ n <= Limit /\ Limit \in Nat \ {0}
      /\ (n = Cardinality(left) \/ n = Limit)
  BY <1>7, <1>8, NearbyScrollAssumption DEF Least
<1>10. hits = [i \in 1 .. n |-> CHOOSE s \in left : rank[s] = i - 1]
  BY <1>5, <1>6, <1>8 DEF PageOf, Numbered
<1>11. ASSUME NEW i \in 1 .. n PROVE hits[i] \in left /\ rank[hits[i]] = i - 1
  <2>1. \E s \in left : rank[s] = i - 1
    <3>1. i - 1 \in 0 .. Cardinality(left) - 1
      BY <1>7, <1>9
    <3>. QED
      BY <1>7, <3>1
  <2>. QED
    BY <1>10, <2>1
<1>12. hits \in PageHits /\ Len(hits) = n
  BY <1>2, <1>9, <1>10, <1>11 DEF PageHits
<1>13. ASSUME NEW s \in left, rank[s] < n PROVE \E i \in 1 .. n : hits[i] = s
  <2>1. rank[s] + 1 \in 1 .. n
    BY <1>7, <1>9, <1>13
  <2>2. rank[hits[rank[s] + 1]] = rank[s] /\ hits[rank[s] + 1] \in left
    BY <1>7, <1>9, <1>11, <2>1
  <2>3. hits[rank[s] + 1] = s
    BY <1>7, <2>2
  <2>. QED
    BY <2>1, <2>3
<1>14. \A s \in left : (\E i \in 1 .. n : hits[i] = s) <=> rank[s] < n
  BY <1>7, <1>9, <1>11, <1>13
<1>15. PICK more \in BOOLEAN : more <=> IF cursor = Top THEN n < Cardinality(left) ELSE n = Limit
  OBVIOUS
<1>16. next = IF more /\ hits # <<>> THEN {sv[hits[n]]} ELSE {}
  <2>1. PICK h : h = [i \in 1 .. Least(Limit, Cardinality(left)) |-> CHOOSE s \in left :
               [t \in left |-> Cardinality({u \in left : Precedes(sv[u], sv[t])})][s] = i - 1]
    OBVIOUS
  <2>2. PageOf(left, sv, cursor) =
          [hits |-> h,
           next |-> IF /\ IF cursor = Top THEN Len(h) < Cardinality(left) ELSE Len(h) = Limit
                       /\ h # <<>>
                    THEN {sv[h[Len(h)]]} ELSE {}]
    BY <2>1 DEF PageOf, Last
  <2>3. h = hits
    BY <1>6, <2>2
  <2>4. next = IF /\ IF cursor = Top THEN Len(hits) < Cardinality(left) ELSE Len(hits) = Limit
                  /\ hits # <<>>
               THEN {sv[hits[Len(hits)]]} ELSE {}
    BY <1>6, <2>2, <2>3
  <2>. QED
    BY <1>12, <1>15, <2>4
<1>17. hits = <<>> <=> n = 0
  BY <1>9, <1>12 DEF PageHits
<1>18. next = {} => \A s \in left : rank[s] < n
  <2>. SUFFICES ASSUME next = {} PROVE n = Cardinality(left)
    BY <1>7
  <2>1. ~ more \/ n = 0
    BY <1>16, <1>17
  <2>. QED
    BY <1>7, <1>9, <1>15, <2>1
<1>19. ASSUME NEW v \in next PROVE v = sv[hits[n]] /\ n \in 1 .. n
  <2>1. more /\ hits # <<>> /\ v = sv[hits[n]]
    BY <1>16
  <2>2. n \in 1 .. n
    BY <1>9, <1>17, <2>1
  <2>. QED
    BY <2>1, <2>2
<1>20. ASSUME NEW v \in next, NEW s \in left PROVE rank[s] < n <=> ~ Precedes(v, SortValue(p, s, sort))
  <2>1. hits[n] \in left /\ rank[hits[n]] = n - 1 /\ v = sv[hits[n]]
    BY <1>11, <1>19
  <2>2. SortValue(p, s, sort) = sv[s]
    BY <1>3
  <2>3. Precedes(v, sv[s]) <=> n - 1 < rank[s]
    BY <1>7, <2>1
  <2>. QED
    BY <1>7, <1>9, <2>2, <2>3
<1>21. \A v \in next : \E s \in left : v = SortValue(p, s, sort)
  BY <1>3, <1>11, <1>19
<1>22. next \in Nexts
  BY <1>1, <1>2, <1>21, SortFacts DEF Nexts
<1>23. \A i, j \in 1 .. n : hits[i] = hits[j] => i = j
  BY <1>9, <1>11
<1>. QED
  BY <1>2, <1>11, <1>12, <1>14, <1>18, <1>20, <1>21, <1>22, <1>23 DEF GoodPage

LEMMA Appended ==
    ASSUME NEW g \in PageHits, NEW h \in PageHits, NEW s
    PROVE  /\ g \o h \in PageHits
           /\ Never(g, s) /\ Never(h, s) => Never(g \o h, s)
           /\ Once(g, s) /\ Never(h, s) => Once(g \o h, s)
           /\ Never(g, s) /\ Once(h, s) => Once(g \o h, s)
<1>1. /\ Len(g) \in Nat /\ Len(h) \in Nat /\ Len(g \o h) = Len(g) + Len(h)
      /\ \A i \in 1 .. Len(g) : (g \o h)[i] = g[i]
      /\ \A i \in 1 .. Len(h) : (g \o h)[Len(g) + i] = h[i]
      /\ g \o h \in PageHits
  BY DEF PageHits
<1>2. PICK m \in Nat, n \in Nat, f \in PageHits : m = Len(g) /\ n = Len(h) /\ f = g \o h
  BY <1>1
<1>3. \A i \in 1 .. m + n : i \in 1 .. m \/ (i - m \in 1 .. n /\ i = m + (i - m))
  OBVIOUS
<1>4. \A i \in 1 .. m + n : IF i \in 1 .. m THEN f[i] = g[i] ELSE i - m \in 1 .. n /\ f[i] = h[i - m]
  BY <1>1, <1>2, <1>3
<1>5. Never(g, s) /\ Never(h, s) => Never(f, s)
  BY <1>1, <1>2, <1>4 DEF Never
<1>6. ASSUME Once(g, s), Never(h, s) PROVE Once(f, s)
  <2>1. PICK i \in 1 .. m : \A j \in 1 .. m : g[j] = s <=> j = i
    BY <1>2, <1>6 DEF Once
  <2>2. \A j \in 1 .. m + n : f[j] = s <=> j = i
    BY <1>2, <1>4, <1>6, <2>1 DEF Never
  <2>3. i \in 1 .. m + n
    OBVIOUS
  <2>. QED
    BY <1>1, <1>2, <2>2, <2>3 DEF Once
<1>7. ASSUME Never(g, s), Once(h, s) PROVE Once(f, s)
  <2>1. PICK i \in 1 .. n : \A j \in 1 .. n : h[j] = s <=> j = i
    BY <1>2, <1>7 DEF Once
  <2>2. PICK w \in 1 .. m + n : w = m + i
    OBVIOUS
  <2>3. ASSUME NEW j \in 1 .. m + n PROVE f[j] = s <=> j = w
    <3>1. CASE j \in 1 .. m
      BY <1>2, <1>4, <1>7, <2>2, <3>1 DEF Never
    <3>2. CASE j \notin 1 .. m
      BY <1>4, <2>1, <2>2, <3>2
    <3>. QED
      BY <3>1, <3>2
  <2>. QED
    <3>1. Len(f) = m + n
      BY <1>1, <1>2
    <3>2. \A j \in 1 .. m + n : f[j] = s <=> j = w
      BY <2>3
    <3>3. w \in 1 .. Len(f) /\ \A j \in 1 .. Len(f) : f[j] = s <=> j = w
      BY <2>2, <3>1, <3>2
    <3>. QED
      BY <3>3 DEF Once
<1>. QED
  BY <1>1, <1>2, <1>5, <1>6, <1>7

(* A page more, computed for the client's own point and the present index, *)
(* shows what it has to.                                                   *)
LEMMA ShowsOn ==
    ASSUME NearbyTypes, NEW k \in ScrollRecs, k.at = "scroll", NEW U, OwnScroll(k, U),
           NEW hits \in PageHits, NEW next, NEW n \in ScrollRecs,
           n.own => /\ k.own /\ hits = Answer(k.point, k.sort, k.cursor).hits
                    /\ next = Answer(k.point, k.sort, k.cursor).next,
           n.got = k.got \o hits, n.point = k.point, n.sort = k.sort,
           IF next = {} THEN n.at = "end" ELSE n.at = "scroll" /\ n.cursor \in next
    PROVE  OwnScroll(n, U)
<1>. SUFFICES ASSUME n.own, NEW s \in U
              PROVE  /\ s \in DOMAIN index
                     /\ IF Passed(n, s) THEN Once(n.got, s) ELSE Never(n.got, s)
  BY DEF OwnScroll
<1>1. /\ s \in DOMAIN index /\ k.own
      /\ IF Passed(k, s) THEN Once(k.got, s) ELSE Never(k.got, s)
  BY DEF OwnScroll
<1>2. /\ k.point \in Points \cup {0} /\ k.cursor \in Cursors /\ k.got \in PageHits /\ n.got \in PageHits
  BY DEF ScrollRecs
<1>3. PICK v : v = SortValue(k.point, s, k.sort)
  OBVIOUS
<1>4. k.point \in Int
  <2>1. PICK p \in Points \cup {0} : p = k.point
    BY <1>2
  <2>. QED
    <3>1. p \in Int
      BY NearbyScrollAssumption
    <3>. QED
      BY <2>1, <3>1
<1>5. v \in SortValues
  BY <1>1, <1>3, <1>4, SortFacts
<1>6. PICK left : left = After(k.point, k.sort, k.cursor)
  OBVIOUS
<1>7. s \in left <=> k.cursor = Top \/ Precedes(k.cursor, v)
  BY <1>1, <1>3, <1>6 DEF After
<1>8. GoodPage(k.point, k.sort, left, hits, next)
  <2>1. PICK p, sort, cursor : p = k.point /\ sort = k.sort /\ cursor = k.cursor
    OBVIOUS
  <2>2. /\ hits = Answer(p, sort, cursor).hits /\ next = Answer(p, sort, cursor).next
        /\ left = After(p, sort, cursor) /\ p \in Points \cup {0} /\ cursor \in Cursors
    BY <1>2, <1>6, <2>1
  <2>3. GoodPage(p, sort, left, hits, next)
    BY <2>2, AnswerFacts
  <2>. QED
    BY <2>1, <2>3
<1>9. Passed(k, s) <=> s \notin left
  BY <1>3, <1>7 DEF Passed
<1>10. Passed(n, s) <=> next = {} \/ ~ Precedes(n.cursor, v)
  <2>1. CASE next = {}
    BY <2>1 DEF Passed
  <2>2. CASE next # {}
    <3>1. n.at = "scroll" /\ n.cursor \in SortValues
      BY <1>8, <2>2 DEF GoodPage, Nexts
    <3>2. n.cursor # Top
      BY <3>1 DEF SortValues, Top
    <3>. QED
      BY <1>3, <2>2, <3>1, <3>2 DEF Passed
  <2>. QED
    BY <2>1, <2>2
<1>11. CASE s \in left
  <2>1. Never(k.got, s)
    BY <1>1, <1>9, <1>11
  <2>2. CASE \E i \in 1 .. Len(hits) : hits[i] = s
    <3>1. Once(hits, s)
      <4>1. PICK i \in 1 .. Len(hits) : hits[i] = s
        BY <2>2
      <4>2. \A j \in 1 .. Len(hits) : hits[j] = s <=> j = i
        BY <1>8, <4>1 DEF GoodPage
      <4>. QED
        BY <4>2 DEF Once
    <3>2. Once(n.got, s)
      BY <1>2, <2>1, <3>1, Appended
    <3>3. Passed(n, s)
      BY <1>3, <1>8, <1>10, <1>11, <2>2 DEF GoodPage
    <3>. QED
      BY <1>1, <3>2, <3>3
  <2>3. CASE ~ \E i \in 1 .. Len(hits) : hits[i] = s
    <3>1. Never(hits, s)
      BY <2>3 DEF Never
    <3>2. Never(n.got, s)
      BY <1>2, <2>1, <3>1, Appended
    <3>3. next # {} /\ n.cursor \in next
      BY <1>8, <1>11, <2>3 DEF GoodPage
    <3>4. Precedes(n.cursor, v)
      BY <1>3, <1>8, <1>11, <2>3, <3>3 DEF GoodPage
    <3>. QED
      BY <1>1, <1>10, <3>2, <3>3, <3>4
  <2>. QED
    BY <2>2, <2>3
<1>12. CASE s \notin left
  <2>1. Once(k.got, s)
    BY <1>1, <1>9, <1>12
  <2>2. Never(hits, s)
    BY <1>8, <1>12 DEF GoodPage, Never
  <2>3. Once(n.got, s)
    BY <1>2, <2>1, <2>2, Appended
  <2>4. ASSUME next # {} PROVE ~ Precedes(n.cursor, v)
    <3>1. PICK t \in left : n.cursor = SortValue(k.point, t, k.sort)
      BY <1>8, <2>4 DEF GoodPage
    <3>2. t \in DOMAIN index /\ n.cursor \in SortValues
      BY <1>4, <1>8, <3>1, SortFacts DEF GoodPage
    <3>3. k.cursor # Top /\ k.cursor \in SortValues
      BY <1>2, <1>7, <1>12 DEF Cursors
    <3>4. Precedes(k.cursor, n.cursor)
      BY <1>6, <3>1, <3>3 DEF After
    <3>5. ~ Precedes(k.cursor, v)
      BY <1>7, <1>12
    <3>. QED
      BY <1>5, <3>2, <3>3, <3>4, <3>5, PrecedesOrder
  <2>5. Passed(n, s)
    BY <1>10, <2>4
  <2>. QED
    BY <1>1, <2>3, <2>5
<1>. QED
  BY <1>11, <1>12

LEMMA AnswerSame ==
    ASSUME index' = index, NEW p, NEW sort, NEW cursor
    PROVE  Answer(p, sort, cursor)' = Answer(p, sort, cursor)
<1>1. \A t : SortValue(p, t, sort)' = SortValue(p, t, sort)
  BY DEF SortValue
<1>2. After(p, sort, cursor)' = After(p, sort, cursor)
  BY <1>1 DEF After
<1>3. PICK left : left = After(p, sort, cursor)
  OBVIOUS
<1>4. [s \in left |-> SortValue(p, s, sort)'] = [s \in left |-> SortValue(p, s, sort)]
  BY <1>1
<1>. QED
  BY <1>2, <1>3, <1>4 DEF Answer

\* What a page that is read has to be.
Right(a, k) == a.fresh /\ a.of = k.point =>
                 /\ a.hits = Answer(k.point, k.sort, k.cursor).hits
                 /\ a.next = Answer(k.point, k.sort, k.cursor).next

LEMMA ReadStep ==
    ASSUME NearbyIInv, NEW c \in Clients, NEW a \in PageRecs, Right(a, scroll[c]),
           scroll[c].at = "scroll", Read(c, a), UNCHANGED <<index, touched>>
    PROVE  scroll' \in [Clients -> ScrollRecs] /\ OwnScrolls'
<1>1. PICK k \in ScrollRecs : k = scroll[c]
  BY DEF NearbyIInv, NearbyTypes
<1>2. /\ k.at = "scroll" /\ k.point \in Points \cup {0} /\ k.sort \in Sorts /\ k.cursor \in Cursors
      /\ k.got \in PageHits /\ k.own \in BOOLEAN /\ k.had \in SUBSET Sites
  BY <1>1 DEF ScrollRecs
<1>3. a.hits \in PageHits /\ a.next \in Nexts /\ a.fresh \in BOOLEAN
  BY DEF PageRecs
<1>4. PICK at \in ScrollAts, cursor \in Cursors, got \in PageHits, own \in BOOLEAN :
        /\ got = k.got \o a.hits
        /\ own <=> k.own /\ a.of = k.point /\ a.fresh
        /\ at = IF a.next = {} THEN "end" ELSE "scroll"
        /\ cursor = IF a.next = {} THEN k.cursor ELSE CHOOSE v \in a.next : TRUE
  <2>1. k.got \o a.hits \in PageHits
    BY <1>2, <1>3, Appended
  <2>2. (IF a.next = {} THEN k.cursor ELSE CHOOSE v \in a.next : TRUE) \in Cursors
    BY <1>2, <1>3 DEF Nexts, Cursors
  <2>3. (IF a.next = {} THEN "end" ELSE "scroll") \in ScrollAts
    BY DEF ScrollAts
  <2>. QED
    BY <2>1, <2>2, <2>3
<1>5. PICK n : n = [k EXCEPT !.got = got, !.own = own, !.at = at, !.cursor = cursor]
  OBVIOUS
<1>6. n \in ScrollRecs
  BY <1>5 DEF ScrollRecs
<1>7. /\ n.got = got /\ n.own = own /\ n.at = at /\ n.cursor = cursor
      /\ n.point = k.point /\ n.sort = k.sort /\ n.had = k.had
  BY <1>5 DEF ScrollRecs
<1>8. scroll' = [scroll EXCEPT ![c] = n]
  <2>1. scroll' = [scroll EXCEPT ![c] =
        [k EXCEPT !.got = k.got \o a.hits,
                  !.own = k.own /\ a.of = k.point /\ a.fresh,
                  !.at = IF a.next = {} THEN "end" ELSE "scroll",
                  !.cursor = IF a.next = {} THEN k.cursor ELSE CHOOSE v \in a.next : TRUE]]
    BY <1>1 DEF Read
  <2>2. own = (k.own /\ a.of = k.point /\ a.fresh)
    BY <1>4
  <2>. QED
    BY <1>4, <1>5, <2>1, <2>2
<1>9. /\ scroll' \in [Clients -> ScrollRecs] /\ scroll'[c] = n
      /\ \A d \in Clients : d # c => scroll'[d] = scroll[d]
  BY <1>6, <1>8 DEF NearbyIInv, NearbyTypes
<1>10. \A d \in Clients : Untouched(d)' = Untouched(d)
  BY <1>1, <1>7, <1>9 DEF Untouched
<1>11. ASSUME NEW r, NEW U, OwnScroll(r, U) PROVE OwnScroll(r, U)'
  BY <1>11 DEF OwnScroll, Passed, SortValue
<1>12. OwnScroll(n, Untouched(c))
  <2>1. OwnScroll(k, Untouched(c)) /\ NearbyTypes
    BY <1>1 DEF NearbyIInv, OwnScrolls
  <2>2. n.own => /\ k.own /\ a.hits = Answer(k.point, k.sort, k.cursor).hits
                 /\ a.next = Answer(k.point, k.sort, k.cursor).next
    BY <1>1, <1>4, <1>7 DEF Right
  <2>3. IF a.next = {} THEN n.at = "end" ELSE n.at = "scroll" /\ n.cursor \in a.next
    BY <1>4, <1>7
  <2>4. n.got = k.got \o a.hits
    BY <1>4, <1>7
  <2>. QED
    BY <1>2, <1>3, <1>6, <1>7, <2>1, <2>2, <2>3, <2>4, ShowsOn
<1>13. ASSUME NEW d \in Clients PROVE OwnScroll(scroll[d], Untouched(d))'
  <2>1. OwnScroll(scroll'[d], Untouched(d))
    BY <1>9, <1>12 DEF NearbyIInv, OwnScrolls
  <2>2. PICK r, U : r = scroll'[d] /\ U = Untouched(d)
    OBVIOUS
  <2>3. OwnScroll(r, U)'
    BY <1>11, <2>1, <2>2
  <2>. QED
    BY <1>10, <2>2, <2>3 DEF OwnScroll, Passed, SortValue
<1>. QED
  BY <1>9, <1>13 DEF OwnScrolls

(* Pages are right as long as the index stays.                             *)
LEMMA PagesOn ==
    ASSUME FreshPages, index' = index,
           \A k \in DOMAIN pages' : \/ k \in DOMAIN pages /\ pages'[k] = pages[k]
                                    \/ \E p, sort, cursor :
                                         /\ pages'[k].of = p /\ k[2] = sort /\ k[3] = cursor
                                         /\ pages'[k].hits = Answer(p, sort, cursor).hits
                                         /\ pages'[k].next = Answer(p, sort, cursor).next
    PROVE  FreshPages'
<1>. SUFFICES ASSUME NEW k \in DOMAIN pages', pages'[k].fresh,
                     NEW p, NEW sort, NEW cursor, p = pages'[k].of, sort = k[2], cursor = k[3]
              PROVE  /\ pages'[k].hits = Answer(p, sort, cursor)'.hits
                     /\ pages'[k].next = Answer(p, sort, cursor)'.next
  BY DEF FreshPages, Answer, After, SortValue
<1>1. Answer(p, sort, cursor)' = Answer(p, sort, cursor)
  BY AnswerSame
<1>2. /\ pages'[k].hits = Answer(p, sort, cursor).hits
      /\ pages'[k].next = Answer(p, sort, cursor).next
  BY DEF FreshPages
<1>. QED
  BY <1>1, <1>2

LEMMA ComputedFacts ==
    ASSUME NearbyIInv, NEW c \in Clients
    PROVE  /\ Computed(c) \in PageRecs /\ Right(Computed(c), scroll[c])
           /\ Computed(c).of = scroll[c].point
           /\ LET a == Answer(scroll[c].point, scroll[c].sort, scroll[c].cursor)
              IN Computed(c).hits = a.hits /\ Computed(c).next = a.next
<1>1. PICK k \in ScrollRecs : k = scroll[c]
  BY DEF NearbyIInv, NearbyTypes
<1>2. k.point \in Points \cup {0} /\ k.cursor \in Cursors
  BY <1>1 DEF ScrollRecs
<1>3. PICK p \in Points \cup {0} : p = k.point
  BY <1>2
<1>4. PICK cursor \in Cursors : cursor = k.cursor
  BY <1>2
<1>5. PICK sort : sort = k.sort
  OBVIOUS
<1>6. PICK hits, next : hits = Answer(p, sort, cursor).hits /\ next = Answer(p, sort, cursor).next
  OBVIOUS
<1>7. hits \in PageHits /\ next \in Nexts
  <2>1. PICK left : left = After(p, sort, cursor)
    OBVIOUS
  <2>2. GoodPage(p, sort, left, hits, next)
    BY <1>6, <2>1, AnswerFacts DEF NearbyIInv
  <2>. QED
    BY <2>2 DEF GoodPage
<1>8. Computed(c) = [hits |-> hits, next |-> next, of |-> p, fresh |-> TRUE]
  BY <1>1, <1>3, <1>4, <1>5, <1>6 DEF Computed
<1>9. Computed(c) \in PageRecs
  BY <1>7, <1>8 DEF PageRecs
<1>. QED
  BY <1>1, <1>3, <1>4, <1>5, <1>6, <1>8, <1>9 DEF Right

LEMMA OwnSame ==
    ASSUME OwnScrolls, UNCHANGED <<index, scroll, touched>>
    PROVE  OwnScrolls'
BY DEF OwnScrolls, OwnScroll, Passed, SortValue, Untouched

LEMMA HitStep ==
    ASSUME NearbyIInv, NEW c \in Clients, Hit(c)
    PROVE  NearbyIInv'
<1>1. /\ scroll[c].at = "scroll" /\ Key(c) \in DOMAIN pages /\ Read(c, pages[Key(c)])
      /\ UNCHANGED <<index, pages, touched>>
  BY DEF Hit
<1>2. Key(c)[2] = scroll[c].sort /\ Key(c)[3] = scroll[c].cursor
  BY DEF Key
<1>3. PICK a \in PageRecs : a = pages[Key(c)]
  BY <1>1 DEF NearbyIInv, NearbyTypes
<1>4. Right(a, scroll[c])
  <2>1. a.fresh => /\ a.hits = Answer(a.of, Key(c)[2], Key(c)[3]).hits
                   /\ a.next = Answer(a.of, Key(c)[2], Key(c)[3]).next
    BY <1>1, <1>3 DEF NearbyIInv, FreshPages
  <2>. QED
    BY <1>2, <2>1 DEF Right
<1>5. scroll' \in [Clients -> ScrollRecs] /\ OwnScrolls'
  BY <1>1, <1>3, <1>4, ReadStep
<1>6. NearbyTypes'
  BY <1>1, <1>5 DEF NearbyIInv, NearbyTypes
<1>7. FreshPages'
  BY <1>1, PagesOn DEF NearbyIInv
<1>. QED
  BY <1>5, <1>6, <1>7 DEF NearbyIInv

LEMMA MissStep ==
    ASSUME NearbyIInv, NEW c \in Clients, Miss(c)
    PROVE  NearbyIInv'
<1>1. /\ scroll[c].at = "scroll" /\ Read(c, Computed(c)) /\ UNCHANGED <<index, touched>>
      /\ pages' = [k \in DOMAIN pages \cup {Key(c)} |-> IF k = Key(c) THEN Computed(c) ELSE pages[k]]
  BY DEF Miss
<1>2. PICK a \in PageRecs : a = Computed(c) /\ Right(a, scroll[c])
  BY ComputedFacts
<1>3. scroll' \in [Clients -> ScrollRecs] /\ OwnScrolls'
  BY <1>1, <1>2, ReadStep
<1>4. \A k \in DOMAIN pages' : IF k = Key(c) THEN pages'[k] = a
                                             ELSE k \in DOMAIN pages /\ pages'[k] = pages[k]
  BY <1>1, <1>2
<1>5. NearbyTypes'
  BY <1>1, <1>3, <1>4 DEF NearbyIInv, NearbyTypes
<1>6. FreshPages'
  <2>1. PICK p, sort, cursor :
          /\ a.of = p /\ Key(c)[2] = sort /\ Key(c)[3] = cursor
          /\ a.hits = Answer(p, sort, cursor).hits /\ a.next = Answer(p, sort, cursor).next
    BY <1>2, ComputedFacts DEF Key
  <2>2. ASSUME NEW k \in DOMAIN pages'
        PROVE  \/ k \in DOMAIN pages /\ pages'[k] = pages[k]
               \/ /\ pages'[k].of = p /\ k[2] = sort /\ k[3] = cursor
                  /\ pages'[k].hits = Answer(p, sort, cursor).hits
                  /\ pages'[k].next = Answer(p, sort, cursor).next
    BY <1>4, <2>1
  <2>. QED
    BY <1>1, <2>2, PagesOn DEF NearbyIInv
<1>. QED
  BY <1>3, <1>5, <1>6 DEF NearbyIInv

LEMMA BypassStep ==
    ASSUME NearbyIInv, NEW c \in Clients, Bypass(c)
    PROVE  NearbyIInv'
<1>1. /\ scroll[c].at = "scroll" /\ Read(c, Computed(c)) /\ UNCHANGED <<index, pages, touched>>
  BY DEF Bypass
<1>2. PICK a \in PageRecs : a = Computed(c) /\ Right(a, scroll[c])
  BY ComputedFacts
<1>3. scroll' \in [Clients -> ScrollRecs] /\ OwnScrolls'
  BY <1>1, <1>2, ReadStep
<1>4. NearbyTypes'
  BY <1>1, <1>3 DEF NearbyIInv, NearbyTypes
<1>5. FreshPages'
  BY <1>1, PagesOn DEF NearbyIInv
<1>. QED
  BY <1>3, <1>4, <1>5 DEF NearbyIInv

LEMMA ExpireStep ==
    ASSUME NearbyIInv, NEW k \in DOMAIN pages, Expire(k)
    PROVE  NearbyIInv'
<1>1. UNCHANGED <<index, scroll, touched>>
      /\ \A j \in DOMAIN pages' : j \in DOMAIN pages /\ pages'[j] = pages[j]
  BY DEF Expire, Restrict
<1>2. NearbyTypes' /\ OwnScrolls'
  BY <1>1, OwnSame DEF NearbyIInv, NearbyTypes
<1>3. FreshPages'
  BY <1>1, PagesOn DEF NearbyIInv
<1>. QED
  BY <1>2, <1>3 DEF NearbyIInv

LEMMA ChangeStep ==
    ASSUME NearbyIInv, NEW s \in Sites, Change(s)
    PROVE  NearbyIInv'
<1>1. /\ index' = [t \in DOMAIN index \cup {s} |->
                   IF t \notin DOMAIN index THEN 0 ELSE IF t = s THEN index[t] + 1 ELSE index[t]]
      /\ touched' = [c \in Clients |-> touched[c] \cup {s}]
      /\ pages' = [k \in DOMAIN pages |-> [pages[k] EXCEPT !.fresh = FALSE]]
      /\ scroll' = scroll
  BY DEF Change
<1>2. /\ DOMAIN index' \subseteq Sites /\ \A t \in DOMAIN index' : index'[t] \in Nat
      /\ \A t \in DOMAIN index : t # s => t \in DOMAIN index' /\ index'[t] = index[t]
  BY <1>1 DEF NearbyIInv, NearbyTypes
<1>3. ASSUME NEW k \in DOMAIN pages' PROVE pages'[k] \in PageRecs /\ ~ pages'[k].fresh
  <2>1. PICK a \in PageRecs : a = pages[k]
    BY <1>1 DEF NearbyIInv, NearbyTypes
  <2>2. pages'[k] = [a EXCEPT !.fresh = FALSE]
    BY <1>1, <2>1
  <2>. QED
    BY <2>1, <2>2 DEF PageRecs
<1>4. touched' \in [Clients -> SUBSET Sites]
  BY <1>1 DEF NearbyIInv, NearbyTypes
<1>5. NearbyTypes'
  BY <1>1, <1>2, <1>3, <1>4 DEF NearbyIInv, NearbyTypes
<1>6. FreshPages'
  BY <1>3 DEF FreshPages
<1>7. ASSUME NEW c \in Clients, NEW t \in Untouched(c)'
      PROVE  t \in Untouched(c) /\ t # s
  BY <1>1 DEF Untouched
<1>8. ASSUME NEW c \in Clients, scroll'[c].own, NEW t \in Untouched(c)'
      PROVE  /\ t \in DOMAIN index'
             /\ IF Passed(scroll[c], t)' THEN Once(scroll'[c].got, t) ELSE Never(scroll'[c].got, t)
  <2>1. t \in Untouched(c) /\ t # s
    BY <1>7, <1>8
  <2>2. /\ t \in DOMAIN index
        /\ IF Passed(scroll[c], t) THEN Once(scroll[c].got, t) ELSE Never(scroll[c].got, t)
    BY <1>1, <1>8, <2>1 DEF NearbyIInv, OwnScrolls, OwnScroll
  <2>3. index'[t] = index[t] /\ t \in DOMAIN index'
    BY <1>2, <2>1, <2>2
  <2>4. Passed(scroll[c], t)' <=> Passed(scroll[c], t)
    BY <1>1, <2>3 DEF Passed, SortValue
  <2>. QED
    BY <1>1, <2>2, <2>3, <2>4
<1>9. OwnScrolls'
  BY <1>8 DEF OwnScrolls, OwnScroll
<1>. QED
  BY <1>5, <1>6, <1>9 DEF NearbyIInv

LEMMA StartStep ==
    ASSUME NearbyIInv, NEW c \in Clients, NEW p \in Points, NEW sort \in BySort, Start(c, p, sort)
    PROVE  NearbyIInv'
<1>1. PICK k : k = [NoScroll EXCEPT !.at = "scroll", !.point = p, !.sort = sort, !.had = DOMAIN index]
  OBVIOUS
<1>2. k = [at |-> "scroll", point |-> p, sort |-> sort, cursor |-> Top, got |-> <<>>,
           own |-> TRUE, had |-> DOMAIN index]
  BY <1>1 DEF NoScroll
<1>3. k \in ScrollRecs
  <2>1. /\ "scroll" \in ScrollAts /\ p \in Points \cup {0} /\ sort \in Sorts /\ Top \in Cursors
        /\ <<>> \in PageHits /\ DOMAIN index \in SUBSET Sites
    BY NearbyScrollAssumption DEF ScrollAts, Sorts, Cursors, PageHits, NearbyIInv, NearbyTypes
  <2>. QED
    BY <1>2, <2>1 DEF ScrollRecs
<1>4. /\ scroll' = [scroll EXCEPT ![c] = k] /\ touched' = [touched EXCEPT ![c] = {}]
      /\ UNCHANGED <<index, pages>>
  BY <1>1 DEF Start
<1>5. /\ scroll' \in [Clients -> ScrollRecs] /\ scroll'[c] = k
      /\ touched' \in [Clients -> SUBSET Sites] /\ touched'[c] = {}
      /\ \A d \in Clients : d # c => scroll'[d] = scroll[d] /\ touched'[d] = touched[d]
  BY <1>3, <1>4 DEF NearbyIInv, NearbyTypes
<1>6. NearbyTypes'
  BY <1>4, <1>5 DEF NearbyIInv, NearbyTypes
<1>7. FreshPages'
  BY <1>4, PagesOn DEF NearbyIInv
<1>8. ASSUME NEW d \in Clients PROVE OwnScroll(scroll[d], Untouched(d))'
  <2>1. CASE d = c
    <3>1. Untouched(c)' = DOMAIN index'
      BY <1>2, <1>4, <1>5 DEF Untouched
    <3>2. \A s : ~ Passed(scroll[c], s)' /\ Never(scroll'[c].got, s)
      BY <1>2, <1>5 DEF Passed, Never
    <3>. QED
      BY <2>1, <3>1, <3>2 DEF OwnScroll
  <2>2. CASE d # c
    BY <1>4, <1>5, <2>2 DEF NearbyIInv, OwnScrolls, OwnScroll, Passed, SortValue, Untouched
  <2>. QED
    BY <2>1, <2>2
<1>. QED
  BY <1>6, <1>7, <1>8 DEF NearbyIInv, OwnScrolls

LEMMA InitNearby == NearbyInit => NearbyIInv
<1>. SUFFICES ASSUME NearbyInit PROVE NearbyIInv
  OBVIOUS
<1>1. NoScroll \in ScrollRecs
  <2>1. /\ "none" \in ScrollAts /\ "distance" \in Sorts /\ Top \in Cursors /\ <<>> \in PageHits
    BY DEF ScrollAts, Sorts, Cursors, PageHits
  <2>. QED
    BY <2>1 DEF NoScroll, ScrollRecs
<1>2. DOMAIN index \subseteq Sites /\ \A s \in DOMAIN index : index[s] \in Nat
  BY DEF NearbyInit, Restrict
<1>3. DOMAIN pages = {}
  BY DEF NearbyInit
<1>4. NearbyTypes
  BY <1>1, <1>2, <1>3 DEF NearbyInit, NearbyTypes
<1>5. FreshPages
  BY <1>3 DEF FreshPages
<1>6. OwnScrolls
  BY DEF NearbyInit, OwnScrolls, OwnScroll, Untouched, NoScroll
<1>. QED
  BY <1>4, <1>5, <1>6 DEF NearbyIInv

LEMMA NextNearby == NearbyIInv /\ [NearbyNext]_nearbyVars => NearbyIInv'
<1>. SUFFICES ASSUME NearbyIInv, [NearbyNext]_nearbyVars PROVE NearbyIInv'
  OBVIOUS
<1>1. CASE NearbyNext
  BY <1>1, HitStep, MissStep, BypassStep, StartStep, ChangeStep, ExpireStep DEF NearbyNext
<1>2. CASE UNCHANGED nearbyVars
  <2>1. UNCHANGED <<index, pages, scroll, touched>>
    BY <1>2 DEF nearbyVars
  <2>2. NearbyTypes' /\ OwnScrolls'
    BY <2>1, OwnSame DEF NearbyIInv, NearbyTypes
  <2>3. FreshPages'
    BY <2>1, PagesOn DEF NearbyIInv
  <2>. QED
    BY <2>2, <2>3 DEF NearbyIInv
<1>. QED
  BY <1>1, <1>2

LEMMA NearbyMeans == NearbyIInv => NearbyInv
<1>. SUFFICES ASSUME NearbyIInv PROVE NearbyInv
  OBVIOUS
<1>1. ASSUME NEW c \in Clients
      PROVE  /\ scroll[c].at \in ScrollAts /\ scroll[c].got \in PageHits
             /\ DOMAIN scroll[c].got = 1 .. Len(scroll[c].got)
  BY DEF NearbyIInv, NearbyTypes, ScrollRecs, PageHits
<1>2. NearbyTypeOK
  <2>1. ASSUME NEW c \in Clients PROVE Range(scroll[c].got) \subseteq Sites
    BY <1>1 DEF Range, PageHits
  <2>. QED
    BY <1>1, <2>1 DEF NearbyTypeOK, NearbyIInv, NearbyTypes, ScrollAts
<1>3. EachPlaceOnce
  <2>. SUFFICES ASSUME NEW c \in Clients, scroll[c].own, NEW s \in Untouched(c)
                PROVE  Times(c, s) <= 1 /\ (scroll[c].at = "end" => Times(c, s) = 1)
    BY DEF EachPlaceOnce
  <2>1. PICK g : g = scroll[c].got
    OBVIOUS
  <2>2. PICK T : T = {i \in 1 .. Len(g) : g[i] = s}
    OBVIOUS
  <2>3. Times(c, s) = Cardinality(T)
    BY <1>1, <2>1, <2>2 DEF Times
  <2>4. IF Passed(scroll[c], s) THEN Once(g, s) ELSE Never(g, s)
    BY <2>1 DEF NearbyIInv, OwnScrolls, OwnScroll
  <2>5. ASSUME Once(g, s) PROVE Cardinality(T) = 1
    <3>1. PICK i \in 1 .. Len(g) : \A j \in 1 .. Len(g) : g[j] = s <=> j = i
      BY <2>5 DEF Once
    <3>2. T = {i}
      BY <2>2, <3>1
    <3>. QED
      BY <3>2, FS_Singleton
  <2>6. ASSUME Never(g, s) PROVE Cardinality(T) = 0
    <3>1. T = {}
      BY <2>2, <2>6 DEF Never
    <3>. QED
      BY <3>1, FS_EmptySet
  <2>7. scroll[c].at = "end" => Passed(scroll[c], s)
    BY DEF Passed
  <2>. QED
    BY <2>3, <2>4, <2>5, <2>6, <2>7
<1>. QED
  BY <1>2, <1>3 DEF NearbyInv

(* For any index, points, page size and clients, and whatever is inserted  *)
(* or moves meanwhile: a client whose pages were computed for its own      *)
(* point and the index as it was when they were read is shown each place   *)
(* that stayed as it was exactly once.                                     *)
THEOREM NearbyInvariant == NearbySpec => []NearbyInv
<1>1. NearbySpec => []NearbyIInv
  BY InitNearby, NextNearby, PTL DEF NearbySpec
<1>. QED
  BY <1>1, NearbyMeans, PTL

================================================================================

----------------------------- MODULE Traffic_proofs -----------------------------
(***************************************************************************)
(* Proofs about live traffic, for any number of requests, schedulers,      *)
(* cells, workers, edges, aggregators and writers: the budget of provider  *)
(* calls (FetchBudget), who polls which cell (CellSchedule) and what the   *)
(* tiles show (TrafficSpeeds).                                             *)
(***************************************************************************)
EXTENDS TrafficSpeeds, CellSchedule, FetchBudget, Sums_proofs

----------------------------------------------------------------------------
(* FetchBudget.                                                            *)

Trips == [at : {"new", "leg", "budget", "calling", "booking"},
          legs : 0 .. MaxLegs, left : 0 .. MaxCalls, mine : 0 .. MaxCalls,
          windows : 0 .. MaxWindows, key : Days, calls : 0 .. MaxCalls]

Spending == {"calling", "booking"}

\* What a request is granted or has called for, on a day, in the given phases.
Part(t, d, phases) == IF t.key = d /\ t.at \in phases THEN t.calls ELSE 0
Share(t, d, phases) == [r \in Requests |-> Part(t[r], d, phases)]
TotalOf(t, d, phases) == SumFunctionOnSet(Share(t, d, phases), Requests)

\* The cap of a request is shared out between what it made and what is left.
TripOK(t) == /\ t.left + t.mine = MaxCalls
             /\ t.at \in Spending => t.calls <= t.left

Limit == DailyBudget + (Cardinality(Requests) - 1) * MaxCalls

\* Booked, granted and called calls of a day together stay within the limit.
Within == redisErrors = 0 => \A d \in Days : used[d] + TotalOf(trip, d, Spending) <= Limit
Booked == redisErrors = 0 => \A d \in Days : called[d] = used[d] + TotalOf(trip, d, {"booking"})

FetchIInv == FetchTypeOK /\ (\A r \in Requests : TripOK(trip[r])) /\ Booked /\ Within

LEMMA FetchConstants ==
    ASSUME FetchBudgetAssumption
    PROVE  /\ MaxCalls \in Nat \ {0} /\ DailyBudget \in Nat \ {0} /\ MaxWindows \in Nat \ {0}
           /\ MaxLegs \in Nat \ {0} /\ LastDay \in Nat /\ MaxRedisErrors \in Nat
           /\ IsFiniteSet(Requests) /\ Requests # {}
           /\ Cardinality(Requests) \in Nat \ {0}
<1>1. /\ MaxCalls \in Nat \ {0} /\ DailyBudget \in Nat \ {0} /\ MaxWindows \in Nat \ {0}
      /\ MaxLegs \in Nat \ {0} /\ LastDay \in Nat /\ MaxRedisErrors \in Nat
      /\ IsFiniteSet(Requests) /\ Requests # {}
  BY DEF FetchBudgetAssumption
<1>2. Cardinality(Requests) \in Nat \ {0}
  BY <1>1, FS_CardinalityType, FS_EmptySet
<1>. QED
  BY <1>1, <1>2

\* The least of the windows, the cap and the budget is none above any of them.
LEMMA LeastOfThree ==
    ASSUME NEW a \in Int, NEW b \in Int, NEW c \in Int
    PROVE  /\ Min({a, b, c}) \in Int
           /\ Min({a, b, c}) <= a /\ Min({a, b, c}) <= b /\ Min({a, b, c}) <= c
<1>1. \E x \in {a, b, c} : \A y \in {a, b, c} : x <= y
  <2>1. CASE a <= b /\ a <= c
    BY <2>1
  <2>2. CASE b <= a /\ b <= c
    BY <2>2
  <2>3. CASE c <= a /\ c <= b
    BY <2>3
  <2>. QED
    BY <2>1, <2>2, <2>3
<1>2. Min({a, b, c}) \in {a, b, c} /\ \A y \in {a, b, c} : Min({a, b, c}) <= y
  BY <1>1 DEF Min
<1>. QED
  BY <1>2

\* A sum of so many shares, each of at most a cap.
LEMMA SumAtMost ==
    ASSUME NEW f, NEW S, IsFiniteSet(S), NEW m \in Nat,
           \A x \in S : f[x] \in Int /\ f[x] <= m
    PROVE  SumFunctionOnSet(f, S) <= Cardinality(S) * m
<1> DEFINE Sum(s) == SumFunctionOnSet(f, s)
           Bad == {s \in SUBSET S : ~(Sum(s) <= Cardinality(s) * m)}
<1>1. SUFFICES ASSUME Bad # {} PROVE FALSE
  OBVIOUS
<1>2. Bad \subseteq SUBSET S
  OBVIOUS
<1>3. PICK s \in Bad : \A t \in Bad : t \subseteq s => t = s
  <2> HIDE DEF Bad
  <2>. QED
    BY <1>1, <1>2, SmallestSubset
<1>4. IsFiniteSet(s) /\ s \subseteq S
  BY FS_Subset
<1>5. s # {}
  <2>1. Sum({}) = 0 /\ Cardinality({}) = 0
    BY SumEmpty, FS_EmptySet
  <2>2. 0 <= 0 * m
    OBVIOUS
  <2>3. Sum({}) <= Cardinality({}) * m
    BY <2>1, <2>2
  <2>. QED
    BY <2>3
<1>6. PICK x \in s : TRUE
  BY <1>5
<1>7. /\ s \ {x} \subseteq S /\ s \ {x} \subseteq s /\ s \ {x} # s
  BY <1>4
<1>8. Sum(s \ {x}) <= Cardinality(s \ {x}) * m
  BY <1>3, <1>7
<1>9. /\ IsFiniteSet(s \ {x}) /\ Cardinality(s \ {x}) = Cardinality(s) - 1
      /\ Cardinality(s) \in Nat
  BY <1>4, FS_RemoveElement, FS_CardinalityType
<1>10. Sum(s) = f[x] + Sum(s \ {x})
  BY <1>4, SumRemove
<1>11. Sum(s \ {x}) \in Int /\ f[x] \in Int /\ f[x] <= m
  BY <1>4, <1>9, SumIsInt
<1>12. (Cardinality(s) - 1) * m + m = Cardinality(s) * m
  BY <1>9
<1>13. Sum(s) <= Cardinality(s) * m
  <2> HIDE DEF Sum
  <2> DEFINE c == Cardinality(s)
             p == (c - 1) * m
             q == c * m
  <2>1. p \in Int /\ q \in Int /\ p + m = q /\ Sum(s \ {x}) <= p
    BY <1>8, <1>9, <1>12
  <2> HIDE DEF p, q
  <2>2. Sum(s) <= q
    BY <1>10, <1>11, <2>1
  <2>. QED
    BY <2>2 DEF q
<1>. QED
  BY <1>13

LEMMA SharesAreNat ==
    ASSUME FetchBudgetAssumption, NEW t \in [Requests -> Trips], NEW d, NEW phases
    PROVE  /\ \A r \in Requests : /\ Share(t, d, phases)[r] \in 0 .. MaxCalls
                                  /\ Share(t, d, phases)[r] \in Nat
           /\ TotalOf(t, d, phases) \in Nat
<1>1. MaxCalls \in Nat /\ IsFiniteSet(Requests)
  BY FetchConstants
<1>2. \A r \in Requests : t[r].calls \in 0 .. MaxCalls
  BY DEF Trips
<1>3. \A r \in Requests : Share(t, d, phases)[r] \in 0 .. MaxCalls
  BY <1>1, <1>2 DEF Share, Part
<1>4. \A r \in Requests : Share(t, d, phases)[r] \in Nat
  BY <1>1, <1>3
<1>. QED
  BY <1>1, <1>3, <1>4, SumIsNat DEF TotalOf

\* One request moves: the totals change by its share.
LEMMA TotalMoves ==
    ASSUME FetchBudgetAssumption, NEW t \in [Requests -> Trips], NEW r \in Requests,
           NEW u \in [Requests -> Trips], \A q \in Requests \ {r} : u[q] = t[q],
           NEW d, NEW phases
    PROVE  TotalOf(u, d, phases) =
             TotalOf(t, d, phases) - Part(t[r], d, phases) + Part(u[r], d, phases)
<1>2. IsFiniteSet(Requests)
  BY FetchConstants
<1>3. \A q \in Requests : Share(t, d, phases)[q] \in Nat
  BY SharesAreNat
<1>4. \A q \in Requests : Share(u, d, phases)[q] \in Nat
  BY SharesAreNat
<1>5. \A q \in Requests \ {r} : Share(u, d, phases)[q] = Share(t, d, phases)[q]
  BY DEF Share
<1>6. TotalOf(u, d, phases) =
        TotalOf(t, d, phases) - Share(t, d, phases)[r] + Share(u, d, phases)[r]
  <2> DEFINE f == Share(t, d, phases)
             g == Share(u, d, phases)
  <2>0. /\ \A q \in Requests : f[q] \in Nat
        /\ \A q \in Requests : g[q] \in Nat
    BY <1>3, <1>4
  <2>2. \A q \in Requests \ {r} : g[q] = f[q]
    BY <1>5
  <2> HIDE DEF f, g
  <2>1. \A q \in Requests : f[q] \in Int /\ g[q] \in Int
    BY <2>0
  <2>3. SumFunctionOnSet(g, Requests) = SumFunctionOnSet(f, Requests) - f[r] + g[r]
    BY <1>2, <2>1, <2>2, SumChange
  <2>. QED
    BY <2>3 DEF f, g, TotalOf
<1>. QED
  BY <1>6 DEF Share

\* What the run calls Pending is the total of the booking requests.
LEMMA PendingIsTotal ==
    ASSUME FetchBudgetAssumption, NEW t \in [Requests -> Trips], NEW d,
           NEW S, S = {r \in Requests : t[r].key = d /\ t[r].at = "booking"}
    PROVE  SumFunctionOnSet([r \in Requests |-> t[r].calls], S) = TotalOf(t, d, {"booking"})
<1> DEFINE f == [r \in Requests |-> t[r].calls]
           g == Share(t, d, {"booking"})
<1>1. IsFiniteSet(Requests) /\ S \subseteq Requests
  BY FetchConstants
<1>2. \A r \in S : f[r] \in Int /\ g[r] = f[r]
  BY FetchConstants DEF Share, Part, Trips
<1>3. \A r \in Requests \ S : g[r] = 0
  BY DEF Share, Part
<1> HIDE DEF f, g
<1>4. SumFunctionOnSet(g, Requests) = SumFunctionOnSet(f, S)
  BY <1>1, <1>2, <1>3, SumOverSubset
<1>. QED
  BY <1>4 DEF TotalOf, f, g

\* The shares of all requests but one are at most MaxCalls each.
LEMMA OthersAtMost ==
    ASSUME FetchBudgetAssumption, NEW t \in [Requests -> Trips], NEW r \in Requests,
           NEW d, NEW phases, ~(t[r].key = d /\ t[r].at \in phases)
    PROVE  TotalOf(t, d, phases) <= (Cardinality(Requests) - 1) * MaxCalls
<1> DEFINE f == Share(t, d, phases)
           O == Requests \ {r}
<1>1. IsFiniteSet(Requests) /\ MaxCalls \in Nat
  BY FetchConstants
<1>2. f[r] = 0 /\ \A q \in Requests : f[q] \in Int /\ f[q] <= MaxCalls
  BY <1>1, SharesAreNat DEF Share, Part
<1>3. IsFiniteSet(O) /\ Cardinality(O) = Cardinality(Requests) - 1
  BY <1>1, FS_RemoveElement
<1>4. TotalOf(t, d, phases) = f[r] + SumFunctionOnSet(f, O)
  BY <1>1, <1>2, SumRemove DEF TotalOf
<1>5. SumFunctionOnSet(f, O) \in Int
  BY <1>2, <1>3, SumIsInt
<1>6. SumFunctionOnSet(f, O) <= Cardinality(O) * MaxCalls
  BY <1>1, <1>2, <1>3, SumAtMost
<1>. QED
  BY <1>2, <1>3, <1>4, <1>5, <1>6

\* A request that neither is granted calls nor gives any up moves no total.
LEMMA QuietMove ==
    ASSUME FetchBudgetAssumption, FetchIInv, NEW r \in Requests, NEW j \in Trips, TripOK(j),
           trip' = [trip EXCEPT ![r] = j],
           trip[r].at \notin Spending, j.at \notin Spending,
           UNCHANGED <<day, used, called, redisErrors>>
    PROVE  FetchIInv'
<1>1. trip \in [Requests -> Trips]
  BY DEF FetchIInv, FetchTypeOK, Trips
<1>2. PICK u : u = trip'
  OBVIOUS
<1>0. u \in [Requests -> Trips] /\ u[r] = j /\ \A q \in Requests \ {r} : u[q] = trip[q]
  BY <1>1, <1>2
<1>3. \A d \in Days : /\ TotalOf(u, d, Spending) = TotalOf(trip, d, Spending)
                      /\ TotalOf(u, d, {"booking"}) = TotalOf(trip, d, {"booking"})
  <2> TAKE d \in Days
  <2>1. trip[r].at \notin {"booking"} /\ j.at \notin {"booking"}
    BY DEF Spending
  <2>2. /\ Part(trip[r], d, Spending) = 0 /\ Part(u[r], d, Spending) = 0
        /\ Part(trip[r], d, {"booking"}) = 0 /\ Part(u[r], d, {"booking"}) = 0
    BY <1>0, <2>1 DEF Part
  <2>3. TotalOf(trip, d, Spending) \in Nat /\ TotalOf(trip, d, {"booking"}) \in Nat
    BY <1>1, SharesAreNat
  <2>4. /\ TotalOf(u, d, Spending) =
             TotalOf(trip, d, Spending) - Part(trip[r], d, Spending) + Part(u[r], d, Spending)
        /\ TotalOf(u, d, {"booking"}) = TotalOf(trip, d, {"booking"})
             - Part(trip[r], d, {"booking"}) + Part(u[r], d, {"booking"})
    BY <1>0, <1>1, TotalMoves
  <2>. QED
    BY <2>2, <2>3, <2>4
<1>4. FetchTypeOK'
  BY <1>1 DEF FetchIInv, FetchTypeOK, Trips, Days
<1>5. \A q \in Requests : TripOK(trip'[q])
  BY <1>1 DEF FetchIInv
<1>6. Booked' /\ Within'
  BY <1>2, <1>3 DEF FetchIInv, Booked, Within, Limit, Days
<1>. QED
  BY <1>4, <1>5, <1>6 DEF FetchIInv

LEMMA QuietTrips ==
    ASSUME FetchBudgetAssumption, FetchIInv, NEW r \in Requests,
           StartTrip(r) \/ NextLeg(r) \/ CoveredLeg(r) \/ EndTrip(r)
    PROVE  FetchIInv'
<1>1. trip \in [Requests -> Trips] /\ TripOK(trip[r]) /\ trip[r] \in Trips
  BY DEF FetchIInv, FetchTypeOK, Trips
<1>2. MaxCalls \in Nat /\ MaxLegs \in Nat /\ MaxWindows \in Nat
  BY FetchConstants
<1>3. CASE StartTrip(r)
  <2>1. PICK j : j = [trip[r] EXCEPT !.at = "leg", !.legs = MaxLegs]
    OBVIOUS
  <2>2. MaxLegs \in 0 .. MaxLegs
    BY <1>2
  <2>3. /\ j \in Trips /\ TripOK(j) /\ j.at \notin Spending
        /\ trip' = [trip EXCEPT ![r] = j] /\ trip[r].at \notin Spending
    BY <1>1, <1>3, <2>1, <2>2 DEF StartTrip, Trips, TripOK, Spending
  <2>. QED
    BY <1>3, <2>3, QuietMove DEF StartTrip
<1>4. CASE NextLeg(r)
  <2>1. PICK n \in 1 .. MaxWindows :
           trip' = [trip EXCEPT ![r].at = "budget", ![r].legs = @ - 1, ![r].windows = n]
    BY <1>4 DEF NextLeg
  <2>2. PICK j : j = [trip[r] EXCEPT !.at = "budget", !.legs = @ - 1, !.windows = n]
    OBVIOUS
  <2>0. trip[r].legs \in 0 .. MaxLegs /\ trip[r].legs > 0
    BY <1>1, <1>4 DEF NextLeg, Trips
  <2>3. trip[r].legs - 1 \in 0 .. MaxLegs /\ n \in 0 .. MaxWindows
    BY <1>2, <2>0
  <2>4. /\ j \in Trips /\ TripOK(j) /\ j.at \notin Spending
        /\ trip' = [trip EXCEPT ![r] = j] /\ trip[r].at \notin Spending
    BY <1>1, <1>4, <2>1, <2>2, <2>3 DEF NextLeg, Trips, TripOK, Spending
  <2>. QED
    BY <1>4, <2>4, QuietMove DEF NextLeg
<1>5. CASE CoveredLeg(r)
  <2>1. PICK j : j = [trip[r] EXCEPT !.legs = @ - 1]
    OBVIOUS
  <2>2. trip[r].legs - 1 \in 0 .. MaxLegs
    BY <1>1, <1>2, <1>5 DEF CoveredLeg, Trips
  <2>3. /\ j \in Trips /\ TripOK(j) /\ j.at \notin Spending
        /\ trip' = [trip EXCEPT ![r] = j] /\ trip[r].at \notin Spending
    BY <1>1, <1>5, <2>1, <2>2 DEF CoveredLeg, Trips, TripOK, Spending
  <2>. QED
    BY <1>5, <2>3, QuietMove DEF CoveredLeg
<1>6. CASE EndTrip(r)
  <2>1. 0 \in Days
    BY FetchConstants DEF Days
  <2>2. /\ NewTrip \in Trips /\ TripOK(NewTrip) /\ NewTrip.at \notin Spending
        /\ trip' = [trip EXCEPT ![r] = NewTrip] /\ trip[r].at \notin Spending
    BY <1>1, <1>2, <1>6, <2>1, FetchConstants DEF EndTrip, NewTrip, Trips, TripOK, Spending
  <2>. QED
    BY <1>6, <2>2, QuietMove DEF EndTrip
<1>. QED
  BY <1>3, <1>4, <1>5, <1>6

\* Reading the counter: what is granted fits under the budget as it was read.
LEMMA ProceedGrants ==
    ASSUME FetchBudgetAssumption, FetchIInv, NEW r \in Requests, trip[r].at = "budget",
           NEW n \in Nat, Proceed(r, n)
    PROVE  \E j \in Trips :
              /\ TripOK(j) /\ j.key = day /\ j.at \in {"calling", "leg"}
              /\ j.at = "calling" => n + j.calls <= DailyBudget
              /\ trip' = [trip EXCEPT ![r] = j]
<1>1. trip \in [Requests -> Trips] /\ TripOK(trip[r]) /\ trip[r] \in Trips /\ day \in Days
  BY DEF FetchIInv, FetchTypeOK, Trips
<1>2. MaxCalls \in Nat /\ DailyBudget \in Nat /\ MaxWindows \in Nat
  BY FetchConstants
<1> DEFINE g == Granted(r, n)
<1>3. g \in Int /\ g <= trip[r].left /\ g <= DailyBudget - n
  <2>1. trip[r].windows \in Int /\ trip[r].left \in Int /\ DailyBudget - n \in Int
    BY <1>1, <1>2 DEF Trips
  <2>. QED
    BY <2>1, LeastOfThree DEF Granted
<1>4. trip[r].left \in 0 .. MaxCalls
  BY <1>1 DEF Trips
<1>5. CASE g > 0
  <2>1. PICK j : j = [trip[r] EXCEPT !.at = "calling", !.key = day, !.calls = g]
    OBVIOUS
  <2>2. g \in 0 .. MaxCalls
    BY <1>2, <1>3, <1>4, <1>5
  <2>3. trip' = [trip EXCEPT ![r] = j]
    BY <1>1, <1>5, <2>1 DEF Proceed, Trips
  <2> HIDE DEF g
  <2>4. /\ j \in Trips /\ TripOK(j) /\ j.key = day /\ j.at = "calling" /\ j.calls = g
    BY <1>1, <1>3, <2>1, <2>2 DEF Trips, TripOK
  <2>5. n + g <= DailyBudget
    BY <1>2, <1>3
  <2>. QED
    BY <2>3, <2>4, <2>5
<1>6. CASE ~(g > 0)
  <2>1. PICK j : j = [trip[r] EXCEPT !.at = "leg", !.key = day, !.calls = 0]
    OBVIOUS
  <2>2. trip' = [trip EXCEPT ![r] = j]
    BY <1>1, <1>6, <2>1 DEF Proceed, Trips
  <2>0. 0 \in 0 .. MaxCalls
    BY <1>2
  <2>3. j \in Trips /\ TripOK(j) /\ j.key = day /\ j.at = "leg"
    BY <1>1, <2>0, <2>1 DEF Trips, TripOK, Spending
  <2>. QED
    BY <2>2, <2>3
<1>. QED
  BY <1>5, <1>6

LEMMA ReadBudgetKeeps ==
    ASSUME FetchBudgetAssumption, FetchIInv, NEW r \in Requests, ReadBudget(r)
    PROVE  FetchIInv'
<1>1. /\ trip \in [Requests -> Trips] /\ TripOK(trip[r]) /\ trip[r] \in Trips
      /\ day \in Days /\ used \in [Days -> Nat] /\ called \in [Days -> Nat]
  BY DEF FetchIInv, FetchTypeOK, Trips
<1>2. PICK n \in Nat : n = used[day]
  BY <1>1
<1>3. PICK j \in Trips :
        /\ TripOK(j) /\ j.key = day /\ j.at \in {"calling", "leg"}
        /\ j.at = "calling" => n + j.calls <= DailyBudget
        /\ trip' = [trip EXCEPT ![r] = j]
  BY <1>2, ProceedGrants DEF ReadBudget
<1>4. trip[r].at \notin Spending /\ trip[r].at \notin {"booking"} /\ j.at \notin {"booking"}
  BY <1>3 DEF ReadBudget, Spending
<1>5. CASE j.at = "leg"
  BY <1>3, <1>4, <1>5, QuietMove DEF ReadBudget, Spending
<1>6. CASE j.at = "calling"
  <2>1. PICK u : u = trip'
    OBVIOUS
  <2>0. u \in [Requests -> Trips] /\ u[r] = j /\ \A q \in Requests \ {r} : u[q] = trip[q]
    BY <1>1, <1>3, <2>1
  <2>2. \A d \in Days : TotalOf(u, d, {"booking"}) = TotalOf(trip, d, {"booking"})
    <3> TAKE d \in Days
    <3>1. Part(trip[r], d, {"booking"}) = 0 /\ Part(u[r], d, {"booking"}) = 0
      BY <1>4, <2>0 DEF Part
    <3>2. TotalOf(trip, d, {"booking"}) \in Nat
      BY <1>1, SharesAreNat
    <3>3. TotalOf(u, d, {"booking"}) = TotalOf(trip, d, {"booking"})
            - Part(trip[r], d, {"booking"}) + Part(u[r], d, {"booking"})
      BY <1>1, <2>0, TotalMoves
    <3>. QED
      BY <3>1, <3>2, <3>3
  <2>3. \A d \in Days : TotalOf(u, d, Spending) =
                          TotalOf(trip, d, Spending) - 0 + (IF d = day THEN j.calls ELSE 0)
    <3> TAKE d \in Days
    <3>1. Part(trip[r], d, Spending) = 0
      BY <1>4 DEF Part
    <3>2. Part(u[r], d, Spending) = IF d = day THEN j.calls ELSE 0
      BY <1>3, <1>6, <2>0 DEF Part, Spending
    <3>3. TotalOf(u, d, Spending) =
            TotalOf(trip, d, Spending) - Part(trip[r], d, Spending) + Part(u[r], d, Spending)
      BY <1>1, <2>0, TotalMoves
    <3>. QED
      BY <3>1, <3>2, <3>3
  <2>4. FetchTypeOK'
    BY <1>1, <1>3 DEF FetchIInv, FetchTypeOK, ReadBudget, Trips, Days
  <2>5. \A q \in Requests : TripOK(trip'[q])
    BY <1>1, <1>3 DEF FetchIInv
  <2>6. Booked'
    BY <2>1, <2>2 DEF FetchIInv, Booked, ReadBudget, Days
  <2>7. Within'
    <3> SUFFICES ASSUME redisErrors = 0, NEW d \in Days
                 PROVE  used[d] + TotalOf(u, d, Spending) <= Limit
      BY <2>1 DEF Within, ReadBudget, Limit, Days
    <3>1. used[d] + TotalOf(trip, d, Spending) <= Limit
      BY DEF FetchIInv, Within
    <3>2. TotalOf(trip, d, Spending) \in Nat /\ used[d] \in Nat
      BY <1>1, SharesAreNat
    <3>3. CASE d # day
      BY <2>3, <3>1, <3>2, <3>3
    <3>4. CASE d = day
      <4>1. TotalOf(trip, d, Spending) <= (Cardinality(Requests) - 1) * MaxCalls
        BY <1>1, <1>4, OthersAtMost
      <4>2. TotalOf(u, d, Spending) = TotalOf(trip, d, Spending) + j.calls
        BY <2>3, <3>2, <3>4
      <4>3. j.calls \in Int /\ used[d] + j.calls <= DailyBudget
        BY <1>2, <1>3, <1>6, <3>4, FetchConstants DEF Trips
      <4>4. PICK m \in Int : m = (Cardinality(Requests) - 1) * MaxCalls
        BY FetchConstants
      <4>5. TotalOf(trip, d, Spending) <= m /\ Limit = DailyBudget + m /\ DailyBudget \in Int
        BY <4>1, <4>4, FetchConstants DEF Limit
      <4>6. PICK x \in Nat : x = TotalOf(trip, d, Spending)
        BY <3>2
      <4>. QED
        BY <3>2, <4>2, <4>3, <4>4, <4>5, <4>6
    <3>. QED
      BY <3>3, <3>4
  <2>. QED
    BY <2>4, <2>5, <2>6, <2>7 DEF FetchIInv
<1>. QED
  BY <1>3, <1>5, <1>6

\* A request spends less of what it is granted, and what it called for counts
\* in `called`.
LEMMA CallProviderKeeps ==
    ASSUME FetchBudgetAssumption, FetchIInv, NEW r \in Requests, CallProvider(r)
    PROVE  FetchIInv'
<1>1. /\ trip \in [Requests -> Trips] /\ TripOK(trip[r]) /\ trip[r] \in Trips
      /\ used \in [Days -> Nat] /\ called \in [Days -> Nat] /\ trip[r].at = "calling"
  BY DEF FetchIInv, FetchTypeOK, Trips, CallProvider
<1>2. PICK n \in 0 .. trip[r].calls :
        /\ called' = [called EXCEPT ![trip[r].key] = @ + n]
        /\ trip' = [trip EXCEPT ![r].at = IF n = 0 THEN "leg" ELSE "booking", ![r].calls = n]
  BY DEF CallProvider
<1>3. PICK j : j = [trip[r] EXCEPT !.at = IF n = 0 THEN "leg" ELSE "booking", !.calls = n]
  OBVIOUS
<1>4. PICK c \in 0 .. MaxCalls : c = trip[r].calls
  BY <1>1 DEF Trips
<1>5. /\ n \in Nat /\ n <= c /\ n \in 0 .. MaxCalls
      /\ trip[r].left \in 0 .. MaxCalls /\ trip[r].mine \in 0 .. MaxCalls
      /\ c <= trip[r].left
  BY <1>1, <1>2, <1>4, FetchConstants DEF Trips, TripOK, Spending
<1>6. PICK k \in Days : k = trip[r].key
  BY <1>1 DEF Trips
<1>7. /\ j \in Trips /\ j.key = k /\ j.calls = n /\ j.left = trip[r].left
      /\ j.mine = trip[r].mine /\ j.at \in {"leg", "booking"} /\ (j.at = "leg" <=> n = 0)
      /\ trip' = [trip EXCEPT ![r] = j]
  BY <1>1, <1>2, <1>3, <1>5, <1>6 DEF Trips
<1>8. TripOK(j)
  BY <1>1, <1>5, <1>7 DEF TripOK, Spending
<1>9. PICK u : u = trip'
  OBVIOUS
<1>9a. u \in [Requests -> Trips] /\ u[r] = j /\ \A q \in Requests \ {r} : u[q] = trip[q]
  BY <1>1, <1>7, <1>9
<1>10. \A d \in Days :
         /\ TotalOf(u, d, Spending) = TotalOf(trip, d, Spending) - (IF d = k THEN c - n ELSE 0)
         /\ TotalOf(u, d, {"booking"}) =
              TotalOf(trip, d, {"booking"}) + (IF d = k THEN n ELSE 0)
  <2> TAKE d \in Days
  <2>1. TotalOf(trip, d, Spending) \in Nat /\ TotalOf(trip, d, {"booking"}) \in Nat
    BY <1>1, SharesAreNat
  <2>2. /\ Part(trip[r], d, Spending) = IF d = k THEN c ELSE 0
        /\ Part(trip[r], d, {"booking"}) = 0
    BY <1>1, <1>4, <1>6 DEF Part, Spending
  <2>3. /\ Part(u[r], d, Spending) = IF d = k THEN n ELSE 0
        /\ Part(u[r], d, {"booking"}) = IF d = k THEN n ELSE 0
    BY <1>7, <1>9a DEF Part, Spending
  <2>4. /\ TotalOf(u, d, Spending) =
             TotalOf(trip, d, Spending) - Part(trip[r], d, Spending) + Part(u[r], d, Spending)
        /\ TotalOf(u, d, {"booking"}) = TotalOf(trip, d, {"booking"})
             - Part(trip[r], d, {"booking"}) + Part(u[r], d, {"booking"})
    BY <1>1, <1>9a, TotalMoves
  <2>5. CASE d = k
    BY <1>4, <1>5, <2>1, <2>2, <2>3, <2>4, <2>5
  <2>6. CASE d # k
    BY <2>1, <2>2, <2>3, <2>4, <2>6
  <2>. QED
    BY <2>5, <2>6
<1>11. called' = [called EXCEPT ![k] = @ + n] /\ called' \in [Days -> Nat]
  BY <1>1, <1>2, <1>5, <1>6
<1>12. FetchTypeOK'
  BY <1>1, <1>7, <1>11 DEF FetchIInv, FetchTypeOK, CallProvider, Trips, Days
<1>13. \A q \in Requests : TripOK(trip'[q])
  BY <1>1, <1>7, <1>8 DEF FetchIInv
<1>14. Booked'
  <2> SUFFICES ASSUME redisErrors = 0, NEW d \in Days
               PROVE  called'[d] = used[d] + TotalOf(u, d, {"booking"})
    BY <1>9 DEF Booked, CallProvider, Days
  <2>1. called[d] = used[d] + TotalOf(trip, d, {"booking"})
    BY DEF FetchIInv, Booked
  <2>2. TotalOf(trip, d, {"booking"}) \in Nat /\ used[d] \in Nat
    BY <1>1, SharesAreNat
  <2>3. called'[d] = called[d] + (IF d = k THEN n ELSE 0)
    BY <1>1, <1>5, <1>11, <2>1, <2>2
  <2>. QED
    BY <1>5, <1>10, <2>1, <2>2, <2>3
<1>15. Within'
  <2> SUFFICES ASSUME redisErrors = 0, NEW d \in Days
               PROVE  used[d] + TotalOf(u, d, Spending) <= Limit
    BY <1>9 DEF Within, CallProvider, Limit, Days
  <2>1. used[d] + TotalOf(trip, d, Spending) <= Limit
    BY DEF FetchIInv, Within
  <2>2. TotalOf(trip, d, Spending) \in Nat /\ used[d] \in Nat
    BY <1>1, SharesAreNat
  <2>3. PICK m \in Int : m = Limit
    <3>1. (Cardinality(Requests) - 1) * MaxCalls \in Int /\ DailyBudget \in Int
      BY FetchConstants
    <3>. QED
      BY <3>1 DEF Limit
  <2>4. c - n \in Nat
    BY <1>4, <1>5
  <2>. QED
    BY <1>10, <2>1, <2>2, <2>3, <2>4
<1>. QED
  BY <1>12, <1>13, <1>14, <1>15 DEF FetchIInv

\* Settle moves calls from what is left to what was made; the request then
\* spends nothing.
LEMMA Settles ==
    ASSUME FetchBudgetAssumption, FetchIInv, NEW r \in Requests,
           trip[r].at = "booking", Settle(r)
    PROVE  \E j \in Trips :
              /\ TripOK(j) /\ j.at = "leg" /\ trip' = [trip EXCEPT ![r] = j]
              /\ FetchTypeOK => trip' \in [Requests -> Trips]
              /\ \A q \in Requests : TripOK(trip'[q])
<1>1. /\ trip \in [Requests -> Trips] /\ TripOK(trip[r]) /\ trip[r] \in Trips
  BY DEF FetchIInv, FetchTypeOK, Trips
<1>2. PICK j : j = [trip[r] EXCEPT !.at = "leg", !.left = @ - trip[r].calls,
                                   !.mine = @ + trip[r].calls]
  OBVIOUS
<1>3. /\ trip[r].calls \in 0 .. MaxCalls /\ trip[r].left \in 0 .. MaxCalls
      /\ trip[r].mine \in 0 .. MaxCalls /\ trip[r].calls <= trip[r].left
      /\ trip[r].left + trip[r].mine = MaxCalls /\ MaxCalls \in Nat
  BY <1>1, FetchConstants DEF Trips, TripOK, Spending
<1>4. PICK x, y : x = trip[r].left - trip[r].calls /\ y = trip[r].mine + trip[r].calls
  OBVIOUS
<1>5. x \in 0 .. MaxCalls /\ y \in 0 .. MaxCalls /\ x + y = MaxCalls
  BY <1>3, <1>4
<1>6. j = [trip[r] EXCEPT !.at = "leg", !.left = x, !.mine = y]
  BY <1>1, <1>2, <1>4 DEF Trips
<1>7. j \in Trips /\ TripOK(j) /\ j.at = "leg"
  BY <1>1, <1>5, <1>6 DEF Trips, TripOK, Spending
<1>8. trip' = [trip EXCEPT ![r] = j]
  BY <1>1, <1>2 DEF Settle, Trips
<1>9. trip' \in [Requests -> Trips] /\ \A q \in Requests : TripOK(trip'[q])
  BY <1>1, <1>7, <1>8 DEF FetchIInv
<1>. QED
  BY <1>7, <1>8, <1>9

LEMMA BookCallsKeeps ==
    ASSUME FetchBudgetAssumption, FetchIInv, NEW r \in Requests, BookCalls(r)
    PROVE  FetchIInv'
<1>1. /\ trip \in [Requests -> Trips] /\ trip[r] \in Trips
      /\ used \in [Days -> Nat] /\ called \in [Days -> Nat] /\ trip[r].at = "booking"
  BY DEF FetchIInv, FetchTypeOK, Trips, BookCalls
<1>2. PICK j \in Trips :
        /\ j.at = "leg" /\ trip' = [trip EXCEPT ![r] = j]
        /\ \A q \in Requests : TripOK(trip'[q])
  BY <1>1, Settles DEF BookCalls
<1>3. PICK c \in Nat : c = trip[r].calls
  BY <1>1, FetchConstants DEF Trips
<1>4. PICK k \in Days : k = trip[r].key
  BY <1>1 DEF Trips
<1>5. used' = [used EXCEPT ![k] = @ + c] /\ used' \in [Days -> Nat]
  BY <1>1, <1>3, <1>4 DEF BookCalls
<1>6. PICK u : u = trip'
  OBVIOUS
<1>7. PICK v : v = used'
  OBVIOUS
<1>7a. u \in [Requests -> Trips] /\ u[r] = j /\ \A q \in Requests \ {r} : u[q] = trip[q]
  BY <1>1, <1>2, <1>6
<1>8. \A d \in Days :
         /\ v[d] + TotalOf(u, d, Spending) = used[d] + TotalOf(trip, d, Spending)
         /\ v[d] + TotalOf(u, d, {"booking"}) = used[d] + TotalOf(trip, d, {"booking"})
  <2> TAKE d \in Days
  <2>1. TotalOf(trip, d, Spending) \in Nat /\ TotalOf(trip, d, {"booking"}) \in Nat
    BY <1>1, SharesAreNat
  <2>2. /\ Part(trip[r], d, Spending) = IF d = k THEN c ELSE 0
        /\ Part(trip[r], d, {"booking"}) = IF d = k THEN c ELSE 0
    BY <1>1, <1>3, <1>4 DEF Part, Spending
  <2>3. Part(u[r], d, Spending) = 0 /\ Part(u[r], d, {"booking"}) = 0
    BY <1>2, <1>7a DEF Part, Spending
  <2>4. /\ TotalOf(u, d, Spending) =
             TotalOf(trip, d, Spending) - Part(trip[r], d, Spending) + Part(u[r], d, Spending)
        /\ TotalOf(u, d, {"booking"}) = TotalOf(trip, d, {"booking"})
             - Part(trip[r], d, {"booking"}) + Part(u[r], d, {"booking"})
    BY <1>1, <1>7a, TotalMoves
  <2>5. used[d] \in Nat /\ v[d] = used[d] + (IF d = k THEN c ELSE 0)
    BY <1>1, <1>3, <1>5, <1>7
  <2>6. CASE d = k
    BY <1>3, <2>1, <2>2, <2>3, <2>4, <2>5, <2>6
  <2>7. CASE d # k
    BY <2>1, <2>2, <2>3, <2>4, <2>5, <2>7
  <2>. QED
    BY <2>6, <2>7
<1>9. FetchTypeOK'
  BY <1>1, <1>2, <1>5 DEF FetchIInv, FetchTypeOK, BookCalls, Trips, Days
<1>10. Booked' /\ Within'
  BY <1>6, <1>7, <1>8 DEF FetchIInv, Booked, Within, BookCalls, Limit, Days
<1>. QED
  BY <1>2, <1>9, <1>10 DEF FetchIInv

\* After an error of Redis nothing is promised but the cap of a request.
LEMMA FailuresKeep ==
    ASSUME FetchBudgetAssumption, FetchIInv, NEW r \in Requests,
           ReadBudgetFails(r) \/ BookingFails(r)
    PROVE  FetchIInv'
<1>1. /\ trip \in [Requests -> Trips] /\ redisErrors \in 0 .. MaxRedisErrors
      /\ MaxRedisErrors \in Nat
  BY FetchConstants DEF FetchIInv, FetchTypeOK, Trips
<1>2. PICK j \in Trips : TripOK(j) /\ trip' = [trip EXCEPT ![r] = j]
  <2>1. CASE ReadBudgetFails(r)
    BY <2>1, ProceedGrants DEF ReadBudgetFails
  <2>2. CASE BookingFails(r)
    BY <2>2, Settles DEF BookingFails
  <2>. QED
    BY <2>1, <2>2
<1>3. redisErrors' \in 0 .. MaxRedisErrors /\ redisErrors' # 0
  BY <1>1 DEF ReadBudgetFails, BookingFails
<1>4. FetchTypeOK'
  BY <1>1, <1>2, <1>3 DEF FetchIInv, FetchTypeOK, ReadBudgetFails, BookingFails, Trips, Days
<1>5. \A q \in Requests : TripOK(trip'[q])
  BY <1>1, <1>2 DEF FetchIInv
<1>. QED
  BY <1>3, <1>4, <1>5 DEF FetchIInv, Booked, Within

LEMMA FetchStarts ==
    ASSUME FetchBudgetAssumption, FetchInit
    PROVE  FetchIInv
<1>1. FetchTypeOK
  BY FetchConstants DEF FetchInit, FetchTypeOK, NewTrip, Days
<1>2. \A r \in Requests : TripOK(trip[r])
  BY FetchConstants DEF FetchInit, NewTrip, TripOK, Spending
<1>3. ASSUME NEW d \in Days, NEW phases, phases \subseteq Spending
      PROVE  TotalOf(trip, d, phases) = 0
  <2>1. \A r \in Requests : Share(trip, d, phases)[r] = 0
    BY <1>3 DEF FetchInit, NewTrip, Share, Part, Spending
  <2>. QED
    BY <2>1, SumOfZeros, FetchConstants DEF TotalOf
<1>4. {"booking"} \subseteq Spending
  BY DEF Spending
<1>5. 0 <= Limit
  <2>1. PICK n \in Nat : n = Cardinality(Requests) - 1
    BY FetchConstants
  <2>2. n * MaxCalls \in Nat /\ DailyBudget \in Nat
    BY FetchConstants
  <2>. QED
    BY <2>1, <2>2 DEF Limit
<1>6. \A d \in Days : /\ TotalOf(trip, d, Spending) = 0 /\ TotalOf(trip, d, {"booking"}) = 0
                      /\ used[d] = 0 /\ called[d] = 0
  BY <1>3, <1>4 DEF FetchInit
<1>7. Booked /\ Within
  BY <1>5, <1>6 DEF Booked, Within
<1>. QED
  BY <1>1, <1>2, <1>7 DEF FetchIInv

LEMMA FetchStays ==
    ASSUME FetchBudgetAssumption, FetchIInv, [FetchNext]_fetchVars
    PROVE  FetchIInv'
<1>1. ASSUME NEW r \in Requests,
             StartTrip(r) \/ NextLeg(r) \/ CoveredLeg(r) \/ EndTrip(r) PROVE FetchIInv'
  BY <1>1, QuietTrips
<1>2. ASSUME NEW r \in Requests, ReadBudget(r) PROVE FetchIInv'
  BY <1>2, ReadBudgetKeeps
<1>3. ASSUME NEW r \in Requests, CallProvider(r) PROVE FetchIInv'
  BY <1>3, CallProviderKeeps
<1>4. ASSUME NEW r \in Requests, BookCalls(r) PROVE FetchIInv'
  BY <1>4, BookCallsKeeps
<1>5. ASSUME NEW r \in Requests, ReadBudgetFails(r) \/ BookingFails(r) PROVE FetchIInv'
  BY <1>5, FailuresKeep
<1>6. CASE NewDay
  <2>1. day' \in Days
    BY <1>6, FetchConstants DEF NewDay, FetchIInv, FetchTypeOK, Days
  <2>. QED
    BY <1>6, <2>1 DEF NewDay, FetchIInv, FetchTypeOK, Booked, Within, TotalOf, Share, Part,
                      TripOK, Limit, Days
<1>7. CASE UNCHANGED fetchVars
  BY <1>7 DEF fetchVars, FetchIInv, FetchTypeOK, Booked, Within, TotalOf, Share, Part,
              TripOK, Limit, Days
<1>. QED
  BY <1>1, <1>2, <1>3, <1>4, <1>5, <1>6, <1>7 DEF FetchNext

LEMMA FetchImplies ==
    ASSUME FetchBudgetAssumption, FetchIInv
    PROVE  FetchInv
<1>1. /\ trip \in [Requests -> Trips] /\ used \in [Days -> Nat]
  BY DEF FetchIInv, FetchTypeOK, Trips
<1>2. \A d \in Days : Pending(d) = TotalOf(trip, d, {"booking"})
  BY <1>1, PendingIsTotal DEF Pending, Unbooked
<1>3. CallsBooked
  BY <1>2 DEF CallsBooked, FetchIInv, Booked
<1>4. OverdraftBounded
  <2> SUFFICES ASSUME redisErrors = 0, NEW d \in Days
               PROVE  called[d] <= Limit
    BY DEF OverdraftBounded, Limit
  <2>1. /\ called[d] = used[d] + TotalOf(trip, d, {"booking"})
        /\ used[d] + TotalOf(trip, d, Spending) <= Limit
    BY DEF FetchIInv, Booked, Within
  <2>2. /\ TotalOf(trip, d, {"booking"}) \in Nat /\ TotalOf(trip, d, Spending) \in Nat
        /\ used[d] \in Nat
    BY <1>1, SharesAreNat
  <2>3. TotalOf(trip, d, {"booking"}) <= TotalOf(trip, d, Spending)
    <3> DEFINE f == Share(trip, d, {"booking"})
               g == Share(trip, d, Spending)
    <3>1. \A r \in Requests : trip[r].calls \in Int /\ 0 <= trip[r].calls
      BY <1>1, FetchConstants DEF Trips
    <3>2. \A r \in Requests : f[r] \in Int /\ g[r] \in Int /\ f[r] <= g[r]
      BY <3>1 DEF Share, Part, Spending
    <3>3. IsFiniteSet(Requests)
      BY FetchConstants
    <3> HIDE DEF f, g
    <3>4. SumFunctionOnSet(f, Requests) <= SumFunctionOnSet(g, Requests)
      BY <3>2, <3>3, SumMonotone
    <3>. QED
      BY <3>4 DEF TotalOf, f, g
  <2>4. PICK m \in Int : m = Limit
    <3>1. (Cardinality(Requests) - 1) * MaxCalls \in Int /\ DailyBudget \in Int
      BY FetchConstants
    <3>. QED
      BY <3>1 DEF Limit
  <2>. QED
    BY <2>1, <2>2, <2>3, <2>4
<1>. QED
  BY <1>3, <1>4 DEF FetchInv, FetchIInv

(* However many requests read and book the day's counter in whatever       *)
(* order, none calls the provider more often than its cap, every call is   *)
(* booked or about to be, and the budget is overdrawn by no more than the  *)
(* caps of all requests but one (routing.py, `_fill_missing_from_provider`).*)
THEOREM FetchInvariant == FetchSpec => []FetchInv
<1>1. FetchInit => FetchIInv
  BY FetchBudgetAssumption, FetchStarts
<1>2. FetchIInv /\ [FetchNext]_fetchVars => FetchIInv'
  BY FetchBudgetAssumption, FetchStays
<1>3. FetchIInv => FetchInv
  BY FetchBudgetAssumption, FetchImplies
<1>. QED
  BY <1>1, <1>2, <1>3, PTL DEF FetchSpec

----------------------------------------------------------------------------
(* CellSchedule.                                                           *)

CellScan == [at : {"asleep", "claiming", "publishing"}, window : Windows, cell : Cells]


Publishing(s, slot) == scan[s].at = "publishing" /\ SlotOf(s) = slot

Covered(slot) ==
    \/ enqueued[slot] > 0
    \/ slot \in missed
    \/ \E s \in Schedulers : Publishing(s, slot)

\* A key was set by a replica that published the cell, is about to or failed.
ClaimsCovered == \A slot \in Slots : claims[slot] > 0 => Covered(slot)

\* What a loop has passed is covered.
PassedCovered ==
    \A s \in Schedulers : scan[s].at # "asleep" =>
        \A c \in Cells : c < scan[s].cell => Covered(<<c, scan[s].window>>)

\* A loop works on a window that has begun, and a key that was set for it
\* outlives it.
Ends(slot) == (slot[2] + 1) * Interval
Begun      == \A s \in Schedulers : scan[s].at # "asleep" => now >= scan[s].window * Interval
Outlives   == \A slot \in Slots : claims[slot] = 0 \/ claims[slot] >= Ends(slot)

\* Whoever publishes or has published a slot set its key.
Claimed ==
    \A slot \in Slots :
        (enqueued[slot] > 0 \/ \E s \in Schedulers : Publishing(s, slot)) => claims[slot] > 0

\* Until its window is over, a slot has one publication, made or to be made.
Single ==
    \A slot \in Slots : now < Ends(slot) =>
        /\ \A s \in Schedulers : Publishing(s, slot) => enqueued[slot] = 0
        /\ \A s, q \in Schedulers : Publishing(s, slot) /\ Publishing(q, slot) => s = q

CellsIInv ==
    /\ CellsTypeOK /\ ScanCovers /\ ClaimsCovered /\ PassedCovered
    /\ Begun /\ Outlives /\ Claimed /\ Single

LEMMA CellConstants ==
    ASSUME CellScheduleAssumption
    PROVE  /\ 0 \in Cells /\ 0 \in Windows /\ Windows \subseteq Nat
           /\ Interval \in Nat \ {0} /\ MaxNow \in Nat /\ MaxFaults \in Nat
           /\ \E last \in Nat : Cells = 0 .. last
<1>1. Interval \in Nat \ {0} /\ MaxNow \in Nat /\ MaxFaults \in Nat /\ LastWindow \in Nat
  BY DEF CellScheduleAssumption
<1>2. PICK n \in Nat : n = Cardinality(Cells) /\ n # 0
  <2>1. IsFiniteSet(Cells) /\ Cells # {}
    BY DEF CellScheduleAssumption
  <2>2. Cardinality(Cells) \in Nat
    BY <2>1, FS_CardinalityType
  <2>3. Cardinality(Cells) # 0
    BY <2>1, FS_EmptySet
  <2>. QED
    BY <2>2, <2>3
<1>3. Cells = 0 .. n - 1 /\ n - 1 \in Nat
  BY <1>2 DEF CellScheduleAssumption
<1>. QED
  BY <1>1, <1>3 DEF Windows

LEMMA SlotFacts ==
    ASSUME CellScheduleAssumption, NEW c \in Cells, NEW w \in Windows
    PROVE  /\ <<c, w>> \in Slots
           /\ w * Interval \in Nat
           /\ Ends(<<c, w>>) = w * Interval + Interval
           /\ Ends(<<c, w>>) \in Nat /\ Ends(<<c, w>>) > 0
<1>1. w \in Nat /\ Interval \in Nat /\ Interval > 0
  BY CellConstants
<1>2. w * Interval \in Nat /\ (w + 1) * Interval = w * Interval + Interval
  BY <1>1
<1>. QED
  BY <1>1, <1>2 DEF Slots, Ends

\* The window of a time begins no later than the time.
LEMMA WindowBegins ==
    ASSUME CellScheduleAssumption, now \in Nat
    PROVE  Window \in Nat /\ now >= Window * Interval
<1>1. Interval \in Nat \ {0}
  BY CellConstants
<1>. QED
  BY <1>1 DEF Window

LEMMA NextCellDoes ==
    ASSUME CellScheduleAssumption, CellsTypeOK, NEW s \in Schedulers, NextCell(s)
    PROVE  \E z \in CellScan :
              /\ scan' = [scan EXCEPT ![s] = z]
              /\ \/ /\ z.at = "claiming" /\ z.window = scan[s].window
                    /\ z.cell = scan[s].cell + 1 /\ scanned' = scanned
                 \/ /\ z.at = "asleep" /\ scanned' = scanned \cup {scan[s].window}
                    /\ \A c \in Cells : c <= scan[s].cell
<1>1. scan \in [Schedulers -> CellScan] /\ scan[s] \in CellScan
  BY DEF CellsTypeOK, CellScan
<1>2. PICK last \in Nat : Cells = 0 .. last
  BY CellConstants
<1>3. CASE scan[s].cell + 1 \in Cells
  <2>1. PICK z : z = [scan[s] EXCEPT !.at = "claiming", !.cell = @ + 1]
    OBVIOUS
  <2>2. /\ z \in CellScan /\ z.at = "claiming" /\ z.window = scan[s].window
        /\ z.cell = scan[s].cell + 1
    BY <1>1, <1>3, <2>1 DEF CellScan
  <2>3. scan' = [scan EXCEPT ![s] = z] /\ scanned' = scanned
    BY <1>1, <1>3, <2>1 DEF NextCell, CellScan
  <2>. QED
    BY <2>2, <2>3
<1>4. CASE scan[s].cell + 1 \notin Cells
  <2>1. scan[s].cell \in 0 .. last
    BY <1>1, <1>2 DEF CellScan
  <2>2. scan[s].cell = last
    BY <1>2, <1>4, <2>1
  <2>3. \A c \in Cells : c <= scan[s].cell
    BY <1>2, <2>2
  <2>4. Asleep \in CellScan /\ Asleep.at = "asleep"
    BY CellConstants DEF Asleep, CellScan
  <2>5. scan' = [scan EXCEPT ![s] = Asleep] /\ scanned' = scanned \cup {scan[s].window}
    BY <1>4 DEF NextCell
  <2>. QED
    BY <2>3, <2>4, <2>5
<1>. QED
  BY <1>3, <1>4

\* What each step of a scheduler does to its loop.
SchedulerMoves(s) == StartScan(s) \/ Lose(s) \/ Win(s) \/ PublishJob(s) \/ ScanFails(s)

LEMMA SchedulerDoes ==
    ASSUME CellScheduleAssumption, CellsTypeOK, NEW s \in Schedulers, SchedulerMoves(s)
    PROVE  \E z \in CellScan :
              /\ scan' = [scan EXCEPT ![s] = z]
              /\ z.at = "publishing" <=> Win(s)
              /\ z.at = "asleep" \/ (StartScan(s) /\ z.cell = 0 /\ z.window = Window)
                   \/ (Win(s) /\ z.cell = scan[s].cell /\ z.window = scan[s].window)
                   \/ ((Lose(s) \/ PublishJob(s)) /\ z.cell = scan[s].cell + 1
                         /\ z.window = scan[s].window)
              /\ \/ scanned' = scanned
                 \/ /\ Lose(s) \/ PublishJob(s)
                    /\ scanned' = scanned \cup {scan[s].window}
                    /\ \A c \in Cells : c <= scan[s].cell
<1>1. scan \in [Schedulers -> CellScan] /\ scan[s] \in CellScan
  BY DEF CellsTypeOK, CellScan
<1>2. CASE StartScan(s)
  <2>1. PICK z : z = [at |-> "claiming", window |-> Window, cell |-> 0]
    OBVIOUS
  <2>2. z \in CellScan /\ z.at = "claiming" /\ z.cell = 0 /\ z.window = Window
    BY <1>2, <2>1, CellConstants DEF StartScan, CellScan
  <2>3. ~ Win(s)
    BY <1>2 DEF StartScan, Win
  <2>4. scan' = [scan EXCEPT ![s] = z] /\ scanned' = scanned
    BY <1>2, <2>1 DEF StartScan
  <2>. QED
    BY <1>2, <2>2, <2>3, <2>4
<1>3. CASE Lose(s)
  <2>1. NextCell(s) /\ ~ Win(s)
    BY <1>3 DEF Lose, Win
  <2>. QED
    BY <1>3, <2>1, NextCellDoes
<1>4. CASE Win(s)
  <2>1. PICK z : z = [scan[s] EXCEPT !.at = "publishing"]
    OBVIOUS
  <2>2. /\ z \in CellScan /\ z.at = "publishing" /\ z.cell = scan[s].cell
        /\ z.window = scan[s].window
    BY <1>1, <2>1 DEF CellScan
  <2>3. scan' = [scan EXCEPT ![s] = z] /\ scanned' = scanned
    BY <1>1, <1>4, <2>1 DEF Win, CellScan
  <2>. QED
    BY <1>4, <2>2, <2>3
<1>5. CASE PublishJob(s)
  <2>1. NextCell(s) /\ ~ Win(s)
    BY <1>5 DEF PublishJob, Win
  <2>. QED
    BY <1>5, <2>1, NextCellDoes
<1>6. CASE ScanFails(s)
  <2>1. ~ Win(s)
    <3>1. MaxFaults \in Nat
      BY CellConstants
    <3>2. scan'[s].at = "asleep"
      BY <1>1, <1>6 DEF ScanFails, Asleep
    <3>3. Win(s) => scan'[s].at = "publishing"
      BY <1>1 DEF Win
    <3>. QED
      BY <3>2, <3>3
  <2>2. Asleep \in CellScan /\ Asleep.at = "asleep"
    BY CellConstants DEF Asleep, CellScan
  <2>3. scan' = [scan EXCEPT ![s] = Asleep] /\ scanned' = scanned
    BY <1>6 DEF ScanFails
  <2>. QED
    BY <2>1, <2>2, <2>3
<1>. QED
  BY <1>2, <1>3, <1>4, <1>5, <1>6 DEF SchedulerMoves

WorkerMoves(w) == WorkStep(w) \/ WorkerDies(w)

\* Workers leave the schedule alone.
LEMMA WorkersLeave ==
    ASSUME NEW w \in CellWorkers, WorkerMoves(w)
    PROVE  UNCHANGED <<now, claims, scan, enqueued, missed, scanned, tried>>
BY DEF WorkerMoves, WorkStep, WorkerDies, TakeJob, DropJob, Poll, AckJob

----------------------------------------------------------------------------
(* The types.                                                              *)

LEMMA CellTypesOfSchedulers ==
    ASSUME CellScheduleAssumption, CellsTypeOK, NEW s \in Schedulers, SchedulerMoves(s)
    PROVE  CellsTypeOK'
<1>1. scan \in [Schedulers -> CellScan] /\ scan[s] \in CellScan
  BY DEF CellsTypeOK, CellScan
<1>2. scan' \in [Schedulers -> CellScan]
  BY <1>1, SchedulerDoes
<1>3. PICK slot \in Slots : slot = SlotOf(s)
  BY <1>1 DEF CellScan, SlotOf, Slots
<1>4. scanned' \subseteq Windows
  <2>1. scanned \subseteq Windows /\ scan[s].window \in Windows
    BY <1>1 DEF CellsTypeOK, CellScan
  <2>2. scanned' = scanned \/ scanned' = scanned \cup {scan[s].window}
    BY SchedulerDoes
  <2>. QED
    BY <2>1, <2>2
<1>5. UNCHANGED <<now, work, polled, dropped>>
  BY DEF SchedulerMoves, StartScan, Lose, Win, PublishJob, ScanFails, queueVars
<1>6. claims' \in [Slots -> 0 .. MaxNow + Interval]
  <2>1. now + Interval \in 0 .. MaxNow + Interval
    BY CellConstants DEF CellsTypeOK
  <2>2. claims' = claims \/ claims' = [claims EXCEPT ![slot] = now + Interval]
    BY <1>3 DEF SchedulerMoves, StartScan, Lose, Win, PublishJob, ScanFails
  <2>3. claims \in [Slots -> 0 .. MaxNow + Interval]
    BY DEF CellsTypeOK
  <2>. QED
    BY <2>1, <2>2, <2>3
<1>7. queued' \in [Slots -> Nat] /\ enqueued' \in [Slots -> Nat]
  <2>1. CASE UNCHANGED <<queued, enqueued>>
    BY <2>1 DEF CellsTypeOK
  <2>2. CASE PublishJob(s)
    BY <1>3, <2>2 DEF PublishJob, CellsTypeOK
  <2>. QED
    BY <2>1, <2>2 DEF SchedulerMoves, StartScan, Lose, Win, ScanFails, queueVars
<1>8. missed' \subseteq Slots
  BY <1>3 DEF SchedulerMoves, StartScan, Lose, Win, PublishJob, ScanFails, CellsTypeOK
<1>9. tried' \in [Schedulers -> {-1} \cup Windows]
  BY DEF SchedulerMoves, StartScan, Lose, Win, PublishJob, ScanFails, CellsTypeOK
<1>. QED
  BY <1>2, <1>4, <1>5, <1>6, <1>7, <1>8, <1>9 DEF CellsTypeOK, CellScan

LEMMA CellTypesOfWorkers ==
    ASSUME CellScheduleAssumption, CellsTypeOK, NEW w \in CellWorkers, WorkerMoves(w)
    PROVE  CellsTypeOK'
<1>1. NoJob.at = "waiting" /\ NoJob.slot \in Slots
  BY CellConstants DEF NoJob, Slots
<1> DEFINE Jobs == [at : {"waiting", "taken", "acking"}, slot : Slots]
<1>2. NoJob \in Jobs
  BY <1>1 DEF NoJob
<1>3. work \in [CellWorkers -> Jobs] /\ work[w] \in Jobs /\ work[w].slot \in Slots
  BY DEF CellsTypeOK
<1>4. UNCHANGED <<now, claims, scan, enqueued, missed, scanned, tried>>
  BY WorkersLeave
<1>5. CASE TakeJob(w)
  <2>1. PICK slot \in Slots : /\ queued[slot] > 0
                              /\ queued' = [queued EXCEPT ![slot] = @ - 1]
                              /\ work' = [work EXCEPT ![w] = [at |-> "taken", slot |-> slot]]
                              /\ UNCHANGED <<polled, dropped>>
    BY <1>5 DEF TakeJob
  <2>2. queued[slot] \in Nat /\ queued \in [Slots -> Nat]
    BY DEF CellsTypeOK
  <2>3. queued' \in [Slots -> Nat]
    BY <2>1, <2>2
  <2>4. work' \in [CellWorkers -> Jobs]
    BY <1>3, <2>1
  <2>. QED
    BY <1>4, <2>1, <2>3, <2>4 DEF CellsTypeOK
<1>6. CASE DropJob(w) \/ Poll(w)
  <2>1. work' \in [CellWorkers -> Jobs]
    BY <1>3, <1>6 DEF DropJob, Poll
  <2>. QED
    BY <1>3, <1>4, <1>6, <2>1 DEF CellsTypeOK, DropJob, Poll
<1>7. CASE AckJob(w)
  BY <1>2, <1>3, <1>4, <1>7 DEF CellsTypeOK, AckJob
<1>8. CASE WorkerDies(w)
  <2>1. queued' \in [Slots -> Nat]
    BY <1>3, <1>8 DEF CellsTypeOK, WorkerDies
  <2>2. work' \in [CellWorkers -> Jobs]
    BY <1>2, <1>3, <1>8 DEF WorkerDies
  <2>. QED
    BY <1>4, <1>8, <2>1, <2>2 DEF CellsTypeOK, WorkerDies
<1>. QED
  BY <1>5, <1>6, <1>7, <1>8 DEF WorkerMoves, WorkStep

----------------------------------------------------------------------------
(* What is covered stays covered.                                          *)

LEMMA SlotsOfScans ==
    ASSUME CellScheduleAssumption, CellsTypeOK, NEW s \in Schedulers
    PROVE  /\ scan[s] \in CellScan /\ scan[s].cell \in Cells /\ scan[s].window \in Windows
           /\ SlotOf(s) = <<scan[s].cell, scan[s].window>> /\ SlotOf(s) \in Slots
BY DEF CellsTypeOK, CellScan, SlotOf, Slots

LEMMA CoveredStays ==
    ASSUME CellScheduleAssumption, CellsTypeOK, [CellsNext]_cellVars,
           NEW slot \in Slots, Covered(slot)
    PROVE  Covered(slot)'
<1>1. scan \in [Schedulers -> CellScan]
  BY DEF CellsTypeOK, CellScan
<1>2. ASSUME NEW s \in Schedulers, SchedulerMoves(s) PROVE Covered(slot)'
  <2>1. PICK z : scan' = [scan EXCEPT ![s] = z]
    BY <1>2, SchedulerDoes
  <2>2. enqueued \in [Slots -> Nat] /\ SlotOf(s) \in Slots
    BY SlotsOfScans DEF CellsTypeOK
  <2>3. enqueued[slot] > 0 => enqueued'[slot] > 0
    <3>1. CASE UNCHANGED enqueued
      BY <3>1
    <3>2. CASE PublishJob(s)
      BY <2>2, <3>2 DEF PublishJob
    <3>. QED
      BY <1>2, <3>1, <3>2 DEF SchedulerMoves, StartScan, Lose, Win, ScanFails, queueVars
  <2>4. slot \in missed => slot \in missed'
    BY <1>2 DEF SchedulerMoves, StartScan, Lose, Win, PublishJob, ScanFails
  <2>5. ASSUME NEW q \in Schedulers, Publishing(q, slot), q # s PROVE Covered(slot)'
    <3>1. scan'[q] = scan[q]
      BY <1>1, <2>1, <2>5
    <3>. QED
      BY <2>5, <3>1 DEF Covered, Publishing, SlotOf
  <2>6. ASSUME Publishing(s, slot) PROVE Covered(slot)'
    <3>1. CASE PublishJob(s)
      <4>1. enqueued'[slot] > 0
        BY <2>2, <2>6, <3>1 DEF PublishJob, Publishing
      <4>. QED
        BY <4>1 DEF Covered
    <3>2. CASE ScanFails(s)
      BY <2>6, <3>2 DEF ScanFails, Publishing, Covered
    <3>. QED
      BY <1>2, <2>6, <3>1, <3>2 DEF SchedulerMoves, StartScan, Lose, Win, Publishing
  <2>. QED
    BY <2>3, <2>4, <2>5, <2>6 DEF Covered
<1>3. ASSUME NEW w \in CellWorkers, WorkerMoves(w) PROVE Covered(slot)'
  BY <1>3, WorkersLeave DEF Covered, Publishing, SlotOf
<1>4. CASE CellTick \/ UNCHANGED cellVars
  BY <1>4 DEF CellTick, cellVars, queueVars, Covered, Publishing, SlotOf
<1>. QED
  BY <1>2, <1>3, <1>4 DEF CellsNext, ScanStep, SchedulerMoves, WorkerMoves

\* The cell a loop goes on from is covered.
LEMMA CurrentCovered ==
    ASSUME CellScheduleAssumption, CellsTypeOK, ClaimsCovered, NEW s \in Schedulers,
           Lose(s) \/ PublishJob(s), NEW slot \in Slots, slot = SlotOf(s)
    PROVE  Covered(slot)'
<1>1. [CellsNext]_cellVars
  BY DEF CellsNext, ScanStep
<1>2. Covered(slot)
  <2>1. CASE Lose(s)
    <3>1. claims[slot] \in Nat /\ now \in Nat
      BY CellConstants DEF CellsTypeOK
    <3>2. ~ (claims[slot] <= now)
      BY <2>1 DEF Lose, Free
    <3>3. claims[slot] > 0
      BY <3>1, <3>2
    <3>. QED
      BY <3>3 DEF ClaimsCovered
  <2>2. CASE PublishJob(s)
    BY <2>2 DEF PublishJob, Covered, Publishing
  <2>. QED
    BY <2>1, <2>2
<1>. QED
  BY <1>1, <1>2, CoveredStays

LEMMA CoverageOfSchedulers ==
    ASSUME CellScheduleAssumption, CellsIInv, NEW s \in Schedulers, SchedulerMoves(s)
    PROVE  ScanCovers' /\ ClaimsCovered' /\ PassedCovered'
<1>1. CellsTypeOK /\ ClaimsCovered /\ PassedCovered /\ ScanCovers
  BY DEF CellsIInv
<1>2. [CellsNext]_cellVars
  BY DEF CellsNext, ScanStep, SchedulerMoves
<1>3. PICK z \in CellScan :
              /\ scan' = [scan EXCEPT ![s] = z]
              /\ z.at = "publishing" <=> Win(s)
              /\ z.at = "asleep" \/ (StartScan(s) /\ z.cell = 0 /\ z.window = Window)
                   \/ (Win(s) /\ z.cell = scan[s].cell /\ z.window = scan[s].window)
                   \/ ((Lose(s) \/ PublishJob(s)) /\ z.cell = scan[s].cell + 1
                         /\ z.window = scan[s].window)
              /\ \/ scanned' = scanned
                 \/ /\ Lose(s) \/ PublishJob(s)
                    /\ scanned' = scanned \cup {scan[s].window}
                    /\ \A c \in Cells : c <= scan[s].cell
  BY <1>1, SchedulerDoes
<1>4. /\ scan \in [Schedulers -> CellScan] /\ scan[s].cell \in Cells /\ Cells \subseteq Nat
      /\ scan[s].window \in Windows
      /\ scan'[s] = z /\ \A q \in Schedulers \ {s} : scan'[q] = scan[q]
  <2>1. scan \in [Schedulers -> CellScan]
    BY <1>1 DEF CellsTypeOK, CellScan
  <2>2. Cells \subseteq Nat
    BY CellConstants
  <2>. QED
    BY <1>1, <1>3, <2>1, <2>2, SlotsOfScans
<1>5. ASSUME NEW slot \in Slots, Covered(slot) PROVE Covered(slot)'
  BY <1>1, <1>2, <1>5, CoveredStays
<1>6. PICK here \in Slots : here = SlotOf(s) /\ here = <<scan[s].cell, scan[s].window>>
  BY <1>1, SlotsOfScans
<1>7. Lose(s) \/ PublishJob(s) => Covered(here)'
  BY <1>1, <1>6, CurrentCovered
<1>8. PICK w \in Windows, k \in Cells : w = scan[s].window /\ k = scan[s].cell
  BY <1>4
<1>9. scan[s].at # "asleep" => \A c \in Cells : c < k => Covered(<<c, w>>)'
  <2> SUFFICES ASSUME scan[s].at # "asleep", NEW c \in Cells, c < k
               PROVE  Covered(<<c, w>>)'
    OBVIOUS
  <2>1. PICK slot \in Slots : slot = <<c, w>>
    BY DEF Slots
  <2>2. Covered(slot)
    BY <1>1, <1>8, <2>1 DEF PassedCovered
  <2>3. Covered(slot)'
    BY <1>5, <2>2
  <2>. QED
    BY <2>1, <2>3
<1>10. Lose(s) \/ PublishJob(s) => scan[s].at # "asleep" /\ Covered(<<k, w>>)'
  <2>1. Lose(s) \/ PublishJob(s) => scan[s].at # "asleep"
    BY DEF Lose, PublishJob
  <2>. QED
    BY <1>6, <1>7, <1>8, <2>1
<1>11. Lose(s) \/ PublishJob(s) => \A c \in Cells : c <= k => Covered(<<c, w>>)'
  <2> SUFFICES ASSUME Lose(s) \/ PublishJob(s), NEW c \in Cells, c <= k
               PROVE  Covered(<<c, w>>)'
    OBVIOUS
  <2>1. CASE c = k
    BY <1>10, <2>1
  <2>2. CASE c # k
    <3>1. c < k
      BY <1>4, <2>2
    <3>. QED
      BY <1>9, <1>10, <3>1
  <2>. QED
    BY <2>1, <2>2
<1>12. ScanCovers'
  <2>1. ASSUME NEW c \in Cells, NEW v \in scanned' PROVE Covered(<<c, v>>)'
    <3>1. CASE v \in scanned
      <4>1. PICK slot \in Slots : slot = <<c, v>>
        BY <1>1, <3>1 DEF CellsTypeOK, Slots
      <4>2. Covered(slot)
        BY <1>1, <3>1, <4>1 DEF ScanCovers, Covered, Publishing
      <4>. QED
        BY <1>5, <4>1, <4>2
    <3>2. CASE v \notin scanned
      <4>1. /\ Lose(s) \/ PublishJob(s)
            /\ v = w /\ c <= k
        BY <1>3, <1>8, <2>1, <3>2
      <4>. QED
        BY <1>11, <4>1
    <3>. QED
      BY <3>1, <3>2
  <2>2. \A slot \in Cells \X scanned' : Covered(slot)'
    BY <2>1
  <2>. QED
    BY <2>2 DEF ScanCovers, Covered, Publishing
<1>13. ClaimsCovered'
  <2> SUFFICES ASSUME NEW slot \in Slots, claims'[slot] > 0 PROVE Covered(slot)'
    BY DEF ClaimsCovered, Slots, Windows
  <2>1. CASE claims'[slot] = claims[slot]
    BY <1>1, <1>5, <2>1 DEF ClaimsCovered
  <2>2. CASE claims'[slot] # claims[slot]
    <3>1. Win(s)
      BY <2>2 DEF SchedulerMoves, StartScan, Lose, PublishJob, ScanFails
    <3>2. slot = here
      BY <1>1, <1>6, <2>2, <3>1 DEF Win, CellsTypeOK
    <3>3. z.at = "publishing" /\ <<z.cell, z.window>> = here
      <4>1. z.at = "publishing"
        BY <1>3, <3>1
      <4>2. ~ StartScan(s) /\ ~ Lose(s) /\ ~ PublishJob(s)
        <5>1. scan[s].at = "claiming" /\ Free(SlotOf(s))
          BY <3>1 DEF Win
        <5>. QED
          BY <5>1 DEF StartScan, Lose, PublishJob
      <4>. QED
        BY <1>3, <1>6, <4>1, <4>2
    <3>. QED
      BY <1>4, <3>2, <3>3 DEF Covered, Publishing, SlotOf
  <2>. QED
    BY <2>1, <2>2
<1>14. PassedCovered'
  <2> SUFFICES ASSUME NEW q \in Schedulers, scan'[q].at # "asleep",
                      NEW c \in Cells, c < scan'[q].cell,
                      NEW v, v = scan'[q].window
               PROVE  Covered(<<c, v>>)'
    BY DEF PassedCovered
  <2>1. CASE q # s
    <3>1. scan'[q] = scan[q] /\ scan[q].window \in Windows
      BY <1>1, <1>4, <2>1, SlotsOfScans
    <3>2. PICK slot \in Slots : slot = <<c, v>>
      BY <3>1 DEF Slots
    <3>3. Covered(slot)
      BY <1>1, <3>1, <3>2 DEF PassedCovered
    <3>. QED
      BY <1>5, <3>2, <3>3
  <2>2. CASE q = s
    <3>1. z.at # "asleep" /\ c < z.cell /\ v = z.window /\ c \in Nat /\ k \in Nat
      BY <1>4, <2>2
    <3>2. CASE z.cell = 0
      BY <3>1, <3>2
    <3>3. CASE Win(s) /\ z.cell = k /\ z.window = w
      <4>1. scan[s].at # "asleep"
        BY <3>3 DEF Win
      <4>. QED
        BY <1>9, <3>1, <3>3, <4>1
    <3>4. CASE (Lose(s) \/ PublishJob(s)) /\ z.cell = k + 1 /\ z.window = w
      <4>1. c <= k
        BY <3>1, <3>4
      <4>. QED
        BY <1>11, <3>1, <3>4, <4>1
    <3>. QED
      BY <1>3, <1>8, <3>1, <3>2, <3>3, <3>4
  <2>. QED
    BY <2>1, <2>2
<1>. QED
  BY <1>12, <1>13, <1>14

LEMMA CoverageOfOthers ==
    ASSUME CellScheduleAssumption, CellsIInv, [CellsNext]_cellVars,
           UNCHANGED <<claims, scan, enqueued, missed, scanned>>
    PROVE  ScanCovers' /\ ClaimsCovered' /\ PassedCovered'
BY DEF CellsIInv, ScanCovers, ClaimsCovered, PassedCovered, Covered, Publishing, SlotOf, Slots,
       Windows

----------------------------------------------------------------------------
(* One publication in a window.                                            *)

\* A key that is set is never unset, so whoever has published stays claimed.
LEMMA ClaimedStays ==
    ASSUME CellScheduleAssumption, CellsIInv, NEW s \in Schedulers, SchedulerMoves(s)
    PROVE  Begun' /\ Outlives' /\ Claimed' /\ Single'
<1>1. /\ CellsTypeOK /\ Begun /\ Outlives /\ Claimed /\ Single
  BY DEF CellsIInv
<1>2. PICK z \in CellScan :
              /\ scan' = [scan EXCEPT ![s] = z]
              /\ z.at = "publishing" <=> Win(s)
              /\ z.at = "asleep" \/ (StartScan(s) /\ z.window = Window)
                   \/ (~ StartScan(s) /\ scan[s].at # "asleep" /\ z.window = scan[s].window)
  <2>1. Lose(s) \/ Win(s) \/ PublishJob(s) => ~ StartScan(s) /\ scan[s].at # "asleep"
    BY DEF Lose, Win, PublishJob, StartScan
  <2>. QED
    BY <1>1, <2>1, SchedulerDoes
<1>3. PICK w \in Windows, k \in Cells, here \in Slots :
        w = scan[s].window /\ k = scan[s].cell /\ here = SlotOf(s) /\ here = <<k, w>>
  BY <1>1, SlotsOfScans
<1>4. now \in Nat /\ now' = now /\ Interval \in Nat \ {0}
  BY <1>1, CellConstants
     DEF CellsTypeOK, SchedulerMoves, StartScan, Lose, Win, PublishJob, ScanFails
<1>5. /\ scan \in [Schedulers -> CellScan] /\ scan'[s] = z
      /\ \A q \in Schedulers \ {s} : scan'[q] = scan[q]
  <2>1. scan \in [Schedulers -> CellScan]
    BY <1>1 DEF CellsTypeOK, CellScan
  <2>. QED
    BY <1>2, <2>1
<1>6. Begun'
  <2> SUFFICES ASSUME NEW q \in Schedulers, scan'[q].at # "asleep"
               PROVE  now >= scan'[q].window * Interval
    BY <1>4 DEF Begun
  <2>1. CASE q # s
    BY <1>1, <1>5, <2>1 DEF Begun
  <2>2. CASE q = s
    <3>1. CASE z.window = Window
      BY <1>4, <1>5, <2>2, <3>1, WindowBegins
    <3>2. CASE scan[s].at # "asleep" /\ z.window = scan[s].window
      BY <1>1, <1>5, <2>2, <3>2 DEF Begun
    <3>. QED
      BY <1>2, <1>5, <2>2, <3>1, <3>2
  <2>. QED
    BY <2>1, <2>2
<1>7. Win(s) => claims'[here] = now + Interval /\ scan[s].at = "claiming" /\ claims[here] <= now
  BY <1>1, <1>3 DEF Win, Free, CellsTypeOK
<1>8. \A slot \in Slots : claims'[slot] = claims[slot] \/ (Win(s) /\ slot = here)
  BY <1>1, <1>3 DEF SchedulerMoves, StartScan, Lose, Win, PublishJob, ScanFails, CellsTypeOK
<1>9. Win(s) => now + Interval >= Ends(here)
  <2> SUFFICES ASSUME Win(s) PROVE now + Interval >= Ends(here)
    OBVIOUS
  <2>1. now >= w * Interval
    BY <1>1, <1>3, <1>7 DEF Begun
  <2>2. Ends(here) = w * Interval + Interval /\ w * Interval \in Nat
    BY <1>3, SlotFacts
  <2>. QED
    BY <1>4, <2>1, <2>2
<1>10. Outlives'
  <2> SUFFICES ASSUME NEW slot \in Slots PROVE claims'[slot] = 0 \/ claims'[slot] >= Ends(slot)
    BY DEF Outlives, Slots, Windows, Ends
  <2>1. CASE claims'[slot] = claims[slot]
    BY <1>1, <2>1 DEF Outlives
  <2>2. CASE Win(s) /\ slot = here
    BY <1>7, <1>9, <2>2
  <2>. QED
    BY <1>8, <2>1, <2>2
<1>11. \A slot \in Slots : claims[slot] > 0 => claims'[slot] > 0
  <2> SUFFICES ASSUME NEW slot \in Slots, claims[slot] > 0 PROVE claims'[slot] > 0
    OBVIOUS
  <2>1. CASE claims'[slot] = claims[slot]
    BY <2>1
  <2>2. CASE Win(s) /\ slot = here
    <3>1. claims'[here] = now + Interval
      BY <1>7, <2>2
    <3>. QED
      BY <1>4, <2>2, <3>1
  <2>. QED
    BY <1>8, <2>1, <2>2
\* Who publishes after the step did so before, or has won the cell.
<1>12. \A q \in Schedulers, slot \in Slots :
         Publishing(q, slot)' =>
            \/ Publishing(q, slot) /\ q # s
            \/ q = s /\ Win(s) /\ slot = here
  <2> SUFFICES ASSUME NEW q \in Schedulers, NEW slot \in Slots,
                      scan'[q].at = "publishing", slot = <<scan'[q].cell, scan'[q].window>>
               PROVE  \/ Publishing(q, slot) /\ q # s
                      \/ q = s /\ Win(s) /\ slot = here
    BY DEF Publishing, SlotOf
  <2>1. CASE q # s
    BY <1>5, <2>1 DEF Publishing, SlotOf
  <2>2. CASE q = s
    <3>1. Win(s)
      BY <1>2, <1>5, <2>2
    <3>2. scan'[s].cell = k /\ scan'[s].window = w
      BY <1>3, <1>5, <3>1 DEF Win, CellScan
    <3>. QED
      BY <1>3, <2>2, <3>1, <3>2
  <2>. QED
    BY <2>1, <2>2
<1>13. \A slot \in Slots :
          \/ enqueued'[slot] = enqueued[slot]
          \/ PublishJob(s) /\ Publishing(s, slot)
  BY <1>1, <1>3 DEF SchedulerMoves, StartScan, Lose, Win, PublishJob, ScanFails, queueVars,
                    CellsTypeOK, Publishing
<1>14. Claimed'
  <2> SUFFICES ASSUME NEW slot \in Slots,
                      enqueued'[slot] > 0 \/ \E q \in Schedulers : Publishing(q, slot)'
               PROVE  claims'[slot] > 0
    BY DEF Claimed, Slots, Windows
  <2>1. CASE Win(s) /\ slot = here
    <3>1. claims'[here] = now + Interval
      BY <1>7, <2>1
    <3>. QED
      BY <1>4, <2>1, <3>1
  <2>2. CASE ~ (Win(s) /\ slot = here)
    <3>1. enqueued[slot] > 0 \/ \E q \in Schedulers : Publishing(q, slot)
      BY <1>12, <1>13, <2>2
    <3>. QED
      BY <1>1, <1>11, <3>1 DEF Claimed
  <2>. QED
    BY <2>1, <2>2
\* The winner of a cell is the first, as long as its window lasts.
<1>15. Win(s) /\ now < Ends(here) => /\ enqueued[here] = 0
                                     /\ \A q \in Schedulers : ~ Publishing(q, here)
  <2> SUFFICES ASSUME Win(s), now < Ends(here)
               PROVE  /\ enqueued[here] = 0
                      /\ \A q \in Schedulers : ~ Publishing(q, here)
    OBVIOUS
  <2>1. claims[here] \in Int /\ enqueued[here] \in Nat /\ Ends(here) \in Nat
    BY <1>1, <1>3, CellConstants, SlotFacts DEF CellsTypeOK
  <2>2. claims[here] <= now /\ (claims[here] = 0 \/ claims[here] >= Ends(here))
    BY <1>1, <1>7 DEF Outlives
  <2>3. claims[here] = 0
    BY <1>4, <2>1, <2>2
  <2>4. ~ (claims[here] > 0)
    BY <2>3
  <2>5. ~ (enqueued[here] > 0) /\ \A q \in Schedulers : ~ Publishing(q, here)
    BY <1>1, <2>4 DEF Claimed
  <2>. QED
    BY <2>1, <2>5
<1>16. Single'
  <2> SUFFICES ASSUME NEW slot \in Slots, now < Ends(slot)
               PROVE  /\ \A q \in Schedulers : Publishing(q, slot)' => enqueued'[slot] = 0
                      /\ \A q, p \in Schedulers :
                            Publishing(q, slot)' /\ Publishing(p, slot)' => q = p
    BY <1>4 DEF Single, Slots, Windows, Ends
  <2>1. /\ \A q \in Schedulers : Publishing(q, slot) => enqueued[slot] = 0
        /\ \A q, p \in Schedulers : Publishing(q, slot) /\ Publishing(p, slot) => q = p
    BY <1>1 DEF Single
  <2>2. CASE Win(s) /\ slot = here
    <3>1. enqueued'[slot] = enqueued[slot]
      BY <2>2 DEF Win, queueVars
    <3>2. enqueued[slot] = 0 /\ \A q \in Schedulers : ~ Publishing(q, slot)
      BY <1>15, <2>2
    <3>. QED
      BY <1>12, <3>1, <3>2
  <2>3. CASE ~ (Win(s) /\ slot = here)
    <3>1. \A q \in Schedulers : Publishing(q, slot)' => Publishing(q, slot) /\ q # s
      BY <1>12, <2>3
    <3>2. ASSUME NEW q \in Schedulers, Publishing(q, slot)' PROVE enqueued'[slot] = 0
      <4>1. Publishing(q, slot) /\ q # s
        BY <3>1, <3>2
      <4>2. ~ Publishing(s, slot)
        BY <2>1, <4>1
      <4>. QED
        BY <1>13, <2>1, <4>1, <4>2
    <3>. QED
      BY <2>1, <3>1, <3>2
  <2>. QED
    BY <2>2, <2>3
<1>. QED
  BY <1>6, <1>10, <1>14, <1>16

LEMMA ClaimedOfOthers ==
    ASSUME CellScheduleAssumption, CellsIInv, now' \in Nat, now' >= now,
           UNCHANGED <<claims, scan, enqueued>>
    PROVE  Begun' /\ Outlives' /\ Claimed' /\ Single'
<1>1. now \in Nat /\ CellsTypeOK
  BY DEF CellsIInv, CellsTypeOK
<1>2. Begun'
  <2> SUFFICES ASSUME NEW q \in Schedulers, scan[q].at # "asleep"
               PROVE  now' >= scan[q].window * Interval
    BY DEF Begun
  <2>1. now >= scan[q].window * Interval
    BY DEF CellsIInv, Begun
  <2>2. scan[q].window * Interval \in Nat
    BY <1>1, SlotsOfScans, SlotFacts
  <2>. QED
    BY <1>1, <2>1, <2>2
<1>3. Outlives' /\ Claimed'
  BY DEF CellsIInv, Outlives, Claimed, Publishing, SlotOf, Slots, Windows, Ends
<1>4. Single'
  <2> SUFFICES ASSUME NEW slot \in Slots, now' < Ends(slot)
               PROVE  /\ \A s \in Schedulers : Publishing(s, slot)' => enqueued'[slot] = 0
                      /\ \A s, q \in Schedulers :
                            Publishing(s, slot)' /\ Publishing(q, slot)' => s = q
    BY DEF Single, Slots, Windows, Ends
  <2>1. Ends(slot) \in Nat
    BY SlotFacts DEF Slots
  <2>2. now < Ends(slot)
    BY <1>1, <2>1
  <2>. QED
    BY <2>2 DEF CellsIInv, Single, Publishing, SlotOf
<1>. QED
  BY <1>2, <1>3, <1>4

LEMMA CellsStart ==
    ASSUME CellScheduleAssumption, CellsInit
    PROVE  CellsIInv
<1>1. Asleep \in CellScan /\ Asleep.at = "asleep"
  BY CellConstants DEF Asleep, CellScan
<1>2. CellsTypeOK
  <2>1. NoJob \in [at : {"waiting", "taken", "acking"}, slot : Slots]
    BY CellConstants DEF NoJob, Slots
  <2>2. 0 \in 0 .. MaxNow /\ 0 \in 0 .. MaxNow + Interval
    BY CellConstants
  <2>. QED
    BY <1>1, <2>1, <2>2 DEF CellsInit, CellsTypeOK, CellScan
<1>3. \A s \in Schedulers : scan[s].at = "asleep"
  BY <1>1 DEF CellsInit
<1>4. \A s \in Schedulers, slot \in Slots : ~ Publishing(s, slot)
  BY <1>3 DEF Publishing
<1>5. ScanCovers /\ ClaimsCovered /\ PassedCovered
  BY <1>3 DEF CellsInit, ScanCovers, ClaimsCovered, PassedCovered
<1>6. Begun /\ Outlives /\ Claimed /\ Single
  BY <1>3, <1>4 DEF CellsInit, Begun, Outlives, Claimed, Single
<1>. QED
  BY <1>2, <1>5, <1>6 DEF CellsIInv

LEMMA CellsStay ==
    ASSUME CellScheduleAssumption, CellsIInv, [CellsNext]_cellVars
    PROVE  CellsIInv'
<1>1. CellsTypeOK /\ now \in Nat
  BY DEF CellsIInv, CellsTypeOK
<1>2. ASSUME NEW s \in Schedulers, SchedulerMoves(s) PROVE CellsIInv'
  BY <1>1, <1>2, CellTypesOfSchedulers, CoverageOfSchedulers, ClaimedStays DEF CellsIInv
<1>3. ASSUME NEW w \in CellWorkers, WorkerMoves(w) PROVE CellsIInv'
  <2>1. UNCHANGED <<now, claims, scan, enqueued, missed, scanned>>
    BY <1>3, WorkersLeave
  <2>2. now' \in Nat /\ now' >= now
    BY <1>1, <2>1
  <2>. QED
    BY <1>1, <1>3, <2>1, <2>2, CellTypesOfWorkers, CoverageOfOthers, ClaimedOfOthers
       DEF CellsIInv
<1>4. CASE CellTick \/ UNCHANGED cellVars
  <2>1. UNCHANGED <<claims, scan, enqueued, missed, scanned, queued, work, polled, dropped, tried>>
    BY <1>4 DEF CellTick, cellVars, queueVars
  <2>2. now' \in Nat /\ now' >= now /\ now' \in 0 .. MaxNow
    BY <1>1, <1>4, CellConstants DEF CellTick, cellVars, CellsTypeOK
  <2>3. CellsTypeOK'
    BY <1>1, <2>1, <2>2 DEF CellsTypeOK, Slots, Windows
  <2>. QED
    BY <2>1, <2>2, <2>3, CoverageOfOthers, ClaimedOfOthers DEF CellsIInv
<1>. QED
  BY <1>2, <1>3, <1>4 DEF CellsNext, ScanStep, SchedulerMoves, WorkerMoves

LEMMA CellsInvariant == CellsSpec => []CellsIInv
<1>1. CellsInit => CellsIInv
  BY CellScheduleAssumption, CellsStart
<1>2. CellsIInv /\ [CellsNext]_cellVars => CellsIInv'
  BY CellScheduleAssumption, CellsStay
<1>. QED
  BY <1>1, <1>2, PTL DEF CellsSpec

(* A loop of `_schedule_window` that reached its end has left no cell of   *)
(* the window out, whichever replicas claimed them, failed or died.        *)
THEOREM ScheduleInvariant == CellsSpec => []CellsInv
<1>1. CellsIInv => CellsInv
  BY DEF CellsIInv, CellsInv
<1>. QED
  BY <1>1, CellsInvariant, PTL

(* A cell is published a second time in a window only while some scan      *)
(* outlasts its window: SET NX with the interval as expiry elects exactly  *)
(* one replica, for any number of them.                                    *)
THEOREM WonOnceHolds == CellsSpec => WonOnce
<1> DEFINE Once == \A slot \in Slots :
                 (enqueued[slot] > 0 /\ enqueued'[slot] > enqueued[slot]) => Overrun
<1>1. CellsIInv /\ [CellsNext]_cellVars => Once
  <2> SUFFICES ASSUME CellsIInv, [CellsNext]_cellVars, NEW slot \in Slots,
                      enqueued[slot] > 0, enqueued'[slot] > enqueued[slot]
               PROVE  Overrun
    OBVIOUS
  <2>1. CellsTypeOK /\ Single /\ enqueued[slot] \in Nat /\ now \in Nat
    BY DEF CellsIInv, CellsTypeOK
  <2>2. enqueued'[slot] # enqueued[slot]
    BY <2>1
  <2>3. PICK s \in Schedulers : PublishJob(s) /\ slot = SlotOf(s)
    <3>1. PICK s \in Schedulers : PublishJob(s)
      BY <2>2, WorkersLeave
         DEF CellsNext, ScanStep, StartScan, Lose, Win, ScanFails, WorkerMoves, CellTick,
             cellVars, queueVars
    <3>2. SlotOf(s) \in Slots
      BY <2>1, CellScheduleAssumption, SlotsOfScans
    <3>. QED
      BY <2>1, <2>2, <3>1, <3>2 DEF PublishJob, CellsTypeOK
  <2>4. ~ (now < Ends(slot))
    BY <2>1, <2>3 DEF Single, Publishing, PublishJob
  <2>5. now >= (scan[s].window + 1) * Interval
    <3>1. PICK c \in Cells, w \in Windows :
             c = scan[s].cell /\ w = scan[s].window /\ slot = <<c, w>>
      BY <2>1, <2>3, CellScheduleAssumption, SlotsOfScans
    <3>2. Ends(slot) \in Nat /\ Ends(slot) = (w + 1) * Interval
      BY <3>1, CellScheduleAssumption, SlotFacts DEF Ends
    <3>. QED
      BY <2>1, <2>4, <3>1, <3>2
  <2>. QED
    BY <2>3, <2>5 DEF Overrun, PublishJob
<1>. QED
  BY <1>1, CellsInvariant, PTL DEF CellsSpec, WonOnce

----------------------------------------------------------------------------
(* TrafficSpeeds.                                                          *)

FoldRecs == [at : {"idle", "observed", "folded"}, edge : SUBSET Edges, lag : 0 .. MaxLag]
Pairs    == Edges \X (0 .. MinSamples)
Cycles   == [at : {"asleep", "reverting", "deleting", "reading"}, left : SUBSET Edges,
             read : SUBSET (Edges \cup Pairs), lag : 0 .. MaxLag]

OneEdge(x) == x.edge = {} \/ \E e \in Edges : x.edge = {e}

\* `read` holds edges or pairs, by what the cycle is at.
CycleOK(w) ==
    /\ cycle[w].left \subseteq Owned(w)
    /\ cycle[w].at = "asleep"  => cycle[w].lag = 0
    /\ cycle[w].at = "reading" => cycle[w].read \subseteq Pairs

SpeedTypes ==
    /\ samples \in [Edges -> 0 .. MinSamples]
    /\ hashAge \in [Edges -> 0 .. Oldest]
    /\ score \in [Edges -> None .. Oldest]
    /\ tile \in [Edges -> 0 .. MinSamples]
    /\ fold \in [Aggregators -> FoldRecs] /\ \A a \in Aggregators : OneEdge(fold[a])
    /\ cycle \in [Writers -> Cycles] /\ \A w \in Writers : CycleOK(w)
    /\ asked \in [Edges -> {"no", "asked", "filled"}] /\ early \subseteq Edges
    /\ errors \in 0 .. MaxErrors /\ wipes \in 0 .. MaxWipes

\* A writer drops from the index only what it reverted before, and writes only
\* what is indexed.
BackedBy(w) ==
    /\ \A e \in cycle[w].left : /\ cycle[w].at = "deleting" => tile[e] = Unknown
                                /\ cycle[w].at = "reading"  => score[e] # None
    /\ cycle[w].at = "reading" =>
         \A e \in Edges, n \in 0 .. MinSamples :
            <<e, n>> \in cycle[w].read => Shard[e] = w /\ score[e] # None

Backing == wipes = 0 => \A w \in Writers : BackedBy(w)

LEMMA SpeedConstants ==
    ASSUME TrafficSpeedsAssumption
    PROVE  /\ Shard \in [Edges -> Writers] /\ MinSamples \in Nat \ {0} /\ TTL \in Nat \ {0}
           /\ FetchTTL \in Nat /\ 1 <= FetchTTL /\ FetchTTL <= 2 * TTL
           /\ MaxLag \in Nat /\ MaxErrors \in Nat /\ MaxWipes \in Nat
           /\ Oldest \in Nat /\ Oldest = 2 * TTL + MaxLag + 1
           /\ None = -1 /\ Unknown = 0 /\ None \in None .. Oldest /\ 0 \in None .. Oldest
           /\ 0 \in 0 .. Oldest /\ 0 \in 0 .. MinSamples /\ 0 \in 0 .. MaxLag
           /\ MaxLag \in None .. Oldest /\ (0 .. MaxLag) \subseteq (None .. Oldest)
           /\ NoFold \in FoldRecs /\ OneEdge(NoFold) /\ NoCycle \in Cycles
BY DEF TrafficSpeedsAssumption, Oldest, None, Unknown, NoFold, FoldRecs, OneEdge, NoCycle, Cycles

LEMMA OlderFacts ==
    ASSUME TrafficSpeedsAssumption, NEW a \in None .. Oldest
    PROVE  /\ Older(a) \in None .. Oldest /\ (a \in 0 .. Oldest => Older(a) \in 0 .. Oldest)
           /\ Older(a) = None <=> a = None
           /\ a # None => a <= Older(a)
           /\ Older(a) <= a + 1
           /\ a # None /\ a # Oldest => Older(a) = a + 1
BY SpeedConstants DEF Older, None

----------------------------------------------------------------------------
(* The types.                                                              *)

LEMMA FoldMoves ==
    ASSUME TrafficSpeedsAssumption, SpeedTypes, NEW a \in Aggregators,
           NEW x \in FoldRecs, OneEdge(x), fold' = [fold EXCEPT ![a] = x]
    PROVE  fold' \in [Aggregators -> FoldRecs] /\ \A b \in Aggregators : OneEdge(fold'[b])
BY DEF SpeedTypes

LEMMA TypesOfFolds ==
    ASSUME TrafficSpeedsAssumption, SpeedTypes, NEW a \in Aggregators,
           FoldStep(a) \/ FoldFails(a) \/ \E e \in Edges : Observe(a, e)
    PROVE  SpeedTypes'
<1>1. /\ fold \in [Aggregators -> FoldRecs] /\ fold[a] \in FoldRecs /\ OneEdge(fold[a])
      /\ cycle \in [Writers -> Cycles]
  BY DEF SpeedTypes
<1>2. UNCHANGED <<tile, cycle, asked, early, wipes>>
  BY DEF FoldStep, FoldIn, IndexEdge, FoldFails, Observe
<1>3. ASSUME NEW e \in Edges, Observe(a, e) PROVE SpeedTypes'
  <2>1. PICK x : x = [at |-> "observed", edge |-> {e}, lag |-> 0]
    OBVIOUS
  <2>2. x \in FoldRecs /\ OneEdge(x)
    BY <2>1, SpeedConstants DEF FoldRecs, OneEdge
  <2>3. fold' \in [Aggregators -> FoldRecs] /\ \A b \in Aggregators : OneEdge(fold'[b])
    BY <1>3, <2>1, <2>2, FoldMoves DEF Observe
  <2>. QED
    BY <1>2, <1>3, <2>3 DEF SpeedTypes, Observe, redisVars, CycleOK, Owned
<1>4. CASE FoldIn(a)
  <2>1. PICK e, n :
          /\ e \in fold[a].edge
          /\ n = IF samples[e] < MinSamples THEN samples[e] + 1 ELSE MinSamples
          /\ samples' = [samples EXCEPT ![e] = n]
          /\ hashAge' = [hashAge EXCEPT ![e] = 0]
          /\ fold' = [fold EXCEPT ![a] = IF n >= MinSamples THEN [fold[a] EXCEPT !.at = "folded"]
                                                            ELSE NoFold]
          /\ UNCHANGED <<score, errors>>
    BY <1>4 DEF FoldIn
  <2>2. e \in Edges
    BY <1>1, <2>1 DEF FoldRecs
  <2>3. n \in 0 .. MinSamples
    BY <2>1, <2>2, SpeedConstants DEF SpeedTypes
  <2>4. samples' \in [Edges -> 0 .. MinSamples] /\ hashAge' \in [Edges -> 0 .. Oldest]
    BY <2>1, <2>2, <2>3, SpeedConstants DEF SpeedTypes
  <2>5. PICK x : x = IF n >= MinSamples THEN [fold[a] EXCEPT !.at = "folded"] ELSE NoFold
    OBVIOUS
  <2>6. x \in FoldRecs /\ OneEdge(x)
    BY <1>1, <2>5, SpeedConstants DEF FoldRecs, OneEdge
  <2>7. fold' \in [Aggregators -> FoldRecs] /\ \A b \in Aggregators : OneEdge(fold'[b])
    BY <2>1, <2>5, <2>6, FoldMoves
  <2>. QED
    BY <1>2, <2>1, <2>4, <2>7 DEF SpeedTypes, CycleOK, Owned
<1>5. CASE IndexEdge(a)
  <2>1. PICK e \in fold[a].edge : /\ score' = [score EXCEPT ![e] = fold[a].lag]
                                  /\ fold' = [fold EXCEPT ![a] = NoFold]
                                  /\ UNCHANGED <<samples, hashAge, errors>>
    BY <1>5 DEF IndexEdge
  <2>2. e \in Edges /\ fold[a].lag \in None .. Oldest
    BY <1>1, <2>1, SpeedConstants DEF FoldRecs
  <2>3. score' \in [Edges -> None .. Oldest]
    BY <2>1, <2>2 DEF SpeedTypes
  <2>4. fold' \in [Aggregators -> FoldRecs] /\ \A b \in Aggregators : OneEdge(fold'[b])
    BY <2>1, SpeedConstants, FoldMoves
  <2>. QED
    BY <1>2, <2>1, <2>3, <2>4 DEF SpeedTypes, CycleOK, Owned
<1>6. CASE FoldFails(a)
  <2>1. errors' \in 0 .. MaxErrors
    BY <1>6, SpeedConstants DEF FoldFails, SpeedTypes
  <2>2. fold' \in [Aggregators -> FoldRecs] /\ \A b \in Aggregators : OneEdge(fold'[b])
    BY <1>6, SpeedConstants, FoldMoves DEF FoldFails
  <2>. QED
    BY <1>2, <1>6, <2>1, <2>2 DEF SpeedTypes, FoldFails, redisVars, CycleOK, Owned
<1>. QED
  BY <1>3, <1>4, <1>5, <1>6 DEF FoldStep

\* What each step of a writer makes of its cycle.
LEMMA CycleMoves ==
    ASSUME TrafficSpeedsAssumption, SpeedTypes, NEW w \in Writers,
           WriterStep(w) \/ CycleFails(w)
    PROVE  \E z \in Cycles :
             /\ cycle' = [cycle EXCEPT ![w] = z]
             /\ z.left \subseteq Owned(w)
             /\ z.lag = IF z.at = "asleep" THEN 0 ELSE cycle[w].lag
             /\ z.at = "deleting" => \/ RevertTile(w) /\ z.left = cycle[w].left
                                     \/ cycle[w].at = "deleting" /\ z.left = cycle[w].left
             /\ z.at = "reading" =>
                  \/ ListFresh(w) /\ z.left = Fresh(w) /\ z.read = {}
                  \/ /\ cycle[w].at = "reading"
                     /\ \E e \in cycle[w].left : /\ z.left = cycle[w].left \ {e}
                                                 /\ z.read = cycle[w].read \cup {<<e, samples[e]>>}
<1>1. cycle \in [Writers -> Cycles] /\ cycle[w] \in Cycles /\ CycleOK(w)
  BY DEF SpeedTypes
<1>2. Owned(w) \subseteq Edges /\ Expired(w) \subseteq Owned(w) /\ Fresh(w) \subseteq Owned(w)
  BY DEF Owned, Expired, Fresh
<1>3. NoCycle.at = "asleep" /\ NoCycle.left = {} /\ NoCycle.lag = 0 /\ NoCycle \in Cycles
  BY SpeedConstants DEF NoCycle
<1>4. ASSUME NEW at \in {"reverting", "deleting", "reading"}, NEW left \in SUBSET Owned(w),
             GotoCycle(w, at, left)
      PROVE  \E z \in Cycles : /\ cycle' = [cycle EXCEPT ![w] = z]
                               /\ z.at = at /\ z.left = left /\ z.read = {}
                               /\ z.lag = cycle[w].lag
  <2>1. PICK z : z = [cycle[w] EXCEPT !.at = at, !.left = left, !.read = {}]
    OBVIOUS
  <2>2. z \in Cycles /\ z.at = at /\ z.left = left /\ z.read = {} /\ z.lag = cycle[w].lag
    BY <1>1, <1>2, <2>1 DEF Cycles
  <2>3. cycle' = [cycle EXCEPT ![w] = z]
    BY <1>1, <1>4, <2>1 DEF GotoCycle, Cycles
  <2>. QED
    BY <2>2, <2>3
<1>5. CASE StartCycle(w)
  BY <1>2, <1>4, <1>5 DEF StartCycle
<1>6. CASE RevertTile(w)
  BY <1>1, <1>4, <1>6 DEF RevertTile, CycleOK
<1>7. CASE DropFromIndex(w)
  BY <1>4, <1>7 DEF DropFromIndex
<1>8. CASE ListFresh(w)
  BY <1>2, <1>4, <1>8 DEF ListFresh
<1>9. CASE DeleteHash(w)
  <2>1. PICK e \in cycle[w].left : cycle' = [cycle EXCEPT ![w].read = @ \cup {e}]
    BY <1>9 DEF DeleteHash
  <2>2. PICK z : z = [cycle[w] EXCEPT !.read = @ \cup {e}]
    OBVIOUS
  <2>3. e \in Edges
    BY <1>1, <2>1 DEF Cycles
  <2>4. /\ z \in Cycles /\ z.at = cycle[w].at /\ z.left = cycle[w].left /\ z.lag = cycle[w].lag
    BY <1>1, <2>2, <2>3 DEF Cycles
  <2>5. cycle' = [cycle EXCEPT ![w] = z]
    BY <1>1, <2>1, <2>2 DEF Cycles
  <2>6. cycle[w].at = "deleting"
    BY <1>9 DEF DeleteHash
  <2>. QED
    BY <1>1, <2>4, <2>5, <2>6 DEF CycleOK
<1>10. CASE ReadHash(w)
  <2>1. PICK e \in cycle[w].left : cycle' = [cycle EXCEPT ![w].left = @ \ {e},
                                               ![w].read = @ \cup {<<e, samples[e]>>}]
    BY <1>10 DEF ReadHash
  <2>2. PICK z : z = [cycle[w] EXCEPT !.left = @ \ {e}, !.read = @ \cup {<<e, samples[e]>>}]
    OBVIOUS
  <2>3. e \in Edges /\ <<e, samples[e]>> \in Pairs
    BY <1>1, <2>1 DEF Cycles, SpeedTypes, Pairs
  <2>4. /\ z \in Cycles /\ z.at = cycle[w].at /\ z.left = cycle[w].left \ {e}
        /\ z.lag = cycle[w].lag /\ z.read = cycle[w].read \cup {<<e, samples[e]>>}
    BY <1>1, <2>2, <2>3 DEF Cycles
  <2>5. cycle' = [cycle EXCEPT ![w] = z]
    BY <1>1, <2>1, <2>2 DEF Cycles
  <2>6. cycle[w].at = "reading"
    BY <1>10 DEF ReadHash
  <2>. QED
    BY <1>1, <2>1, <2>4, <2>5, <2>6 DEF CycleOK
<1>11. CASE WriteTiles(w) \/ CycleFails(w)
  BY <1>3, <1>11 DEF WriteTiles, CycleFails
<1>. QED
  BY <1>5, <1>6, <1>7, <1>8, <1>9, <1>10, <1>11 DEF WriterStep

LEMMA TypesOfWriters ==
    ASSUME TrafficSpeedsAssumption, SpeedTypes, NEW w \in Writers,
           WriterStep(w) \/ CycleFails(w)
    PROVE  SpeedTypes'
<1>1. cycle \in [Writers -> Cycles] /\ cycle[w] \in Cycles /\ CycleOK(w)
  BY DEF SpeedTypes
<1>2. PICK z \in Cycles :
             /\ cycle' = [cycle EXCEPT ![w] = z]
             /\ z.left \subseteq Owned(w)
             /\ z.lag = IF z.at = "asleep" THEN 0 ELSE cycle[w].lag
             /\ z.at = "reading" =>
                  \/ z.read = {}
                  \/ /\ cycle[w].at = "reading"
                     /\ \E e \in cycle[w].left : z.read = cycle[w].read \cup {<<e, samples[e]>>}
  BY CycleMoves
<1>3. cycle' \in [Writers -> Cycles] /\ cycle'[w] = z
  BY <1>1, <1>2
<1>4. z.at = "reading" => z.read \subseteq Pairs
  <2> SUFFICES ASSUME cycle[w].at = "reading", NEW e \in cycle[w].left
               PROVE  cycle[w].read \cup {<<e, samples[e]>>} \subseteq Pairs
    BY <1>2
  <2>1. e \in Edges /\ samples[e] \in 0 .. MinSamples
    BY <1>1 DEF Cycles, SpeedTypes
  <2>. QED
    BY <1>1, <2>1 DEF CycleOK, Pairs
<1>5. \A v \in Writers : CycleOK(v)'
  <2> TAKE v \in Writers
  <2>1. CASE v = w
    BY <1>2, <1>3, <1>4, <2>1 DEF CycleOK, Owned
  <2>2. CASE v # w
    <3>1. cycle'[v] = cycle[v] /\ CycleOK(v)
      BY <1>1, <1>2, <2>2 DEF SpeedTypes
    <3>. QED
      BY <3>1 DEF CycleOK, Owned
  <2>. QED
    BY <2>1, <2>2
<1>6. samples' \in [Edges -> 0 .. MinSamples]
  <2>1. ASSUME NEW e \in cycle[w].left, samples' = [samples EXCEPT ![e] = 0]
        PROVE  samples' \in [Edges -> 0 .. MinSamples]
    BY <2>1, SpeedConstants DEF SpeedTypes
  <2>2. CASE DeleteHash(w)
    BY <2>1, <2>2 DEF DeleteHash
  <2>3. CASE UNCHANGED samples
    BY <2>3 DEF SpeedTypes
  <2>. QED
    BY <2>2, <2>3 DEF WriterStep, StartCycle, RevertTile, DropFromIndex, ListFresh, ReadHash,
                      WriteTiles, CycleFails, redisVars
<1>7. score' \in [Edges -> None .. Oldest]
  <2>1. CASE DropFromIndex(w)
    BY <2>1, SpeedConstants DEF DropFromIndex, SpeedTypes
  <2>2. CASE UNCHANGED score
    BY <2>2 DEF SpeedTypes
  <2>. QED
    BY <2>1, <2>2 DEF WriterStep, StartCycle, RevertTile, DeleteHash, ListFresh, ReadHash,
                      WriteTiles, CycleFails, redisVars
<1>8. tile' \in [Edges -> 0 .. MinSamples]
  <2>1. CASE RevertTile(w)
    BY <2>1, SpeedConstants DEF RevertTile, SpeedTypes
  <2>2. CASE WriteTiles(w)
    <3>1. \A e \in Edges :
            (\E n \in 1 .. MinSamples : <<e, n>> \in cycle[w].read) =>
               (CHOOSE n \in 1 .. MinSamples : <<e, n>> \in cycle[w].read) \in 0 .. MinSamples
      BY SpeedConstants
    <3>. QED
      BY <2>2, <3>1 DEF WriteTiles, SpeedTypes
  <2>3. CASE UNCHANGED tile
    BY <2>3 DEF SpeedTypes
  <2>. QED
    BY <2>1, <2>2, <2>3 DEF WriterStep, StartCycle, DeleteHash, DropFromIndex, ListFresh,
                            ReadHash, CycleFails
<1>9. early' \subseteq Edges
  <2>1. CASE DeleteHash(w)
    <3>1. cycle[w].left \subseteq Edges /\ early \subseteq Edges
      BY <1>1 DEF Cycles, SpeedTypes
    <3>. QED
      BY <2>1, <3>1 DEF DeleteHash
  <2>2. CASE UNCHANGED early
    BY <2>2 DEF SpeedTypes
  <2>. QED
    BY <2>1, <2>2 DEF WriterStep, StartCycle, RevertTile, DropFromIndex, ListFresh, ReadHash,
                      WriteTiles, CycleFails
<1>10. errors' \in 0 .. MaxErrors
  <2>1. CASE CycleFails(w)
    BY <2>1, SpeedConstants DEF CycleFails, SpeedTypes
  <2>2. CASE UNCHANGED errors
    BY <2>2 DEF SpeedTypes
  <2>. QED
    BY <2>1, <2>2 DEF WriterStep, StartCycle, RevertTile, DeleteHash, DropFromIndex, ListFresh,
                      ReadHash, WriteTiles
<1>11. UNCHANGED <<hashAge, fold, asked, wipes>>
  BY DEF WriterStep, StartCycle, RevertTile, DeleteHash, DropFromIndex, ListFresh, ReadHash,
              WriteTiles, CycleFails, redisVars
<1>. QED
  BY <1>3, <1>5, <1>6, <1>7, <1>8, <1>9, <1>10, <1>11 DEF SpeedTypes

EdgeStep(e) == AskProvider(e) \/ FillHash(e) \/ IndexFilled(e) \/ AskFails(e) \/ ExpireHash(e)

LEMMA TypesOfEdges ==
    ASSUME TrafficSpeedsAssumption, SpeedTypes, NEW e \in Edges, EdgeStep(e)
    PROVE  SpeedTypes'
<1>1. /\ samples \in [Edges -> 0 .. MinSamples] /\ hashAge \in [Edges -> 0 .. Oldest]
      /\ score \in [Edges -> None .. Oldest]
      /\ asked \in [Edges -> {"no", "asked", "filled"}] /\ early \subseteq Edges
      /\ errors \in 0 .. MaxErrors
  BY DEF SpeedTypes
<1>2. UNCHANGED <<tile, fold, cycle, wipes>>
  BY DEF EdgeStep, AskProvider, FillHash, IndexFilled, AskFails, ExpireHash
<1>3. 2 * TTL - FetchTTL \in 0 .. Oldest /\ 1 \in 0 .. MinSamples
  BY SpeedConstants
<1>4. /\ samples' \in [Edges -> 0 .. MinSamples] /\ hashAge' \in [Edges -> 0 .. Oldest]
      /\ score' \in [Edges -> None .. Oldest]
      /\ asked' \in [Edges -> {"no", "asked", "filled"}] /\ early' \subseteq Edges
      /\ errors' \in 0 .. MaxErrors
  <2>1. CASE AskProvider(e)
    BY <1>1, <2>1 DEF AskProvider, redisVars
  <2>2. CASE FillHash(e)
    BY <1>1, <1>3, <2>2 DEF FillHash
  <2>3. CASE IndexFilled(e)
    BY <1>1, <2>3, SpeedConstants DEF IndexFilled
  <2>4. CASE AskFails(e)
    <3>1. errors' \in 0 .. MaxErrors
      <4>1. CASE asked[e] = "filled"
        BY <1>1, <2>4, <4>1, SpeedConstants DEF AskFails
      <4>2. CASE asked[e] # "filled"
        BY <1>1, <2>4, <4>2 DEF AskFails
      <4>. QED
        BY <4>1, <4>2
    <3>. QED
      BY <1>1, <2>4, <3>1 DEF AskFails, redisVars
  <2>5. CASE ExpireHash(e)
    BY <1>1, <2>5, SpeedConstants DEF ExpireHash
  <2>. QED
    BY <2>1, <2>2, <2>3, <2>4, <2>5 DEF EdgeStep
<1>. QED
  BY <1>2, <1>4 DEF SpeedTypes, CycleOK, Owned

LEMMA TypesOfWipe ==
    ASSUME TrafficSpeedsAssumption, SpeedTypes, WipeRedis
    PROVE  SpeedTypes'
<1>1. samples' \in [Edges -> 0 .. MinSamples] /\ score' \in [Edges -> None .. Oldest]
  BY SpeedConstants DEF WipeRedis
<1>2. wipes' \in 0 .. MaxWipes
  BY SpeedConstants DEF WipeRedis, SpeedTypes
<1>. QED
  BY <1>1, <1>2 DEF SpeedTypes, WipeRedis, CycleOK, Owned

\* Time passes alike for a fold, a cycle and an age.
LEMMA TickMoves ==
    ASSUME TrafficSpeedsAssumption, SpeedTypes, Tick
    PROVE  /\ \A a \in Aggregators :
                IF fold[a].at = "idle" THEN fold'[a] = NoFold
                ELSE /\ fold'[a].at = fold[a].at /\ fold'[a].edge = fold[a].edge
                     /\ fold'[a].lag = fold[a].lag + 1
           /\ \A w \in Writers :
                IF cycle[w].at = "asleep" THEN cycle'[w] = NoCycle
                ELSE /\ cycle'[w].at = cycle[w].at /\ cycle'[w].left = cycle[w].left
                     /\ cycle'[w].read = cycle[w].read /\ cycle'[w].lag = cycle[w].lag + 1
           /\ fold' \in [Aggregators -> FoldRecs] /\ cycle' \in [Writers -> Cycles]
<1>1. fold \in [Aggregators -> FoldRecs] /\ cycle \in [Writers -> Cycles] /\ MaxLag \in Nat
  BY SpeedConstants DEF SpeedTypes
<1>2. ASSUME NEW a \in Aggregators
      PROVE  /\ fold'[a] \in FoldRecs
             /\ IF fold[a].at = "idle" THEN fold'[a] = NoFold
                ELSE /\ fold'[a].at = fold[a].at /\ fold'[a].edge = fold[a].edge
                     /\ fold'[a].lag = fold[a].lag + 1
  <2>1. CASE fold[a].at = "idle"
    BY <2>1, SpeedConstants DEF Tick
  <2>2. CASE fold[a].at # "idle"
    <3>1. fold'[a] = [fold[a] EXCEPT !.lag = @ + 1] /\ fold[a].lag < MaxLag
      BY <2>2 DEF Tick
    <3>2. fold[a] \in FoldRecs /\ fold[a].lag \in 0 .. MaxLag
      BY <1>1 DEF FoldRecs
    <3>3. fold[a].lag + 1 \in 0 .. MaxLag
      BY <1>1, <3>1, <3>2
    <3>. QED
      BY <2>2, <3>1, <3>2, <3>3 DEF FoldRecs
  <2>. QED
    BY <2>1, <2>2
<1>3. ASSUME NEW w \in Writers
      PROVE  /\ cycle'[w] \in Cycles
             /\ IF cycle[w].at = "asleep" THEN cycle'[w] = NoCycle
                ELSE /\ cycle'[w].at = cycle[w].at /\ cycle'[w].left = cycle[w].left
                     /\ cycle'[w].read = cycle[w].read /\ cycle'[w].lag = cycle[w].lag + 1
  <2>1. CASE cycle[w].at = "asleep"
    BY <2>1, SpeedConstants DEF Tick
  <2>2. CASE cycle[w].at # "asleep"
    <3>1. cycle'[w] = [cycle[w] EXCEPT !.lag = @ + 1] /\ cycle[w].lag < MaxLag
      BY <2>2 DEF Tick
    <3>2. cycle[w] \in Cycles /\ cycle[w].lag \in 0 .. MaxLag
      BY <1>1 DEF Cycles
    <3>3. cycle[w].lag + 1 \in 0 .. MaxLag
      BY <1>1, <3>1, <3>2
    <3>. QED
      BY <2>2, <3>1, <3>2, <3>3 DEF Cycles
  <2>. QED
    BY <2>1, <2>2
<1>4. /\ fold' = [a \in Aggregators |-> fold'[a]] /\ cycle' = [w \in Writers |-> cycle'[w]]
  BY DEF Tick
<1>. QED
  BY <1>2, <1>3, <1>4

LEMMA TypesOfTick ==
    ASSUME TrafficSpeedsAssumption, SpeedTypes, Tick
    PROVE  SpeedTypes'
<1>1. /\ samples \in [Edges -> 0 .. MinSamples] /\ hashAge \in [Edges -> 0 .. Oldest]
      /\ score \in [Edges -> None .. Oldest]
  BY DEF SpeedTypes
<1>2. score' \in [Edges -> None .. Oldest]
  <2>1. \A e \in Edges : Older(score[e]) \in None .. Oldest
    BY <1>1, OlderFacts
  <2>. QED
    BY <2>1 DEF Tick
<1>3. hashAge' \in [Edges -> 0 .. Oldest]
  <2>1. \A e \in Edges : hashAge[e] \in None .. Oldest /\ hashAge[e] \in 0 .. Oldest
    BY <1>1, SpeedConstants DEF None
  <2>2. \A e \in Edges : Older(hashAge[e]) \in 0 .. Oldest
    BY <2>1, OlderFacts
  <2>. QED
    BY <2>2, SpeedConstants DEF Tick
<1>4. \A a \in Aggregators : OneEdge(fold'[a])
  <2> TAKE a \in Aggregators
  <2>1. OneEdge(fold[a])
    BY DEF SpeedTypes
  <2>2. fold'[a].edge = fold[a].edge \/ fold'[a] = NoFold
    BY TickMoves
  <2>3. NoFold.edge = {}
    BY DEF NoFold
  <2>. QED
    BY <2>1, <2>2, <2>3 DEF OneEdge
<1>5. \A w \in Writers : CycleOK(w)'
  <2> TAKE w \in Writers
  <2>1. CASE cycle[w].at = "asleep"
    <3>1. cycle'[w] = NoCycle
      BY <2>1, TickMoves
    <3>. QED
      BY <3>1 DEF CycleOK, NoCycle
  <2>2. CASE cycle[w].at # "asleep"
    BY <2>2, TickMoves DEF SpeedTypes, CycleOK, Owned
  <2>. QED
    BY <2>1, <2>2
<1>6. fold' \in [Aggregators -> FoldRecs] /\ cycle' \in [Writers -> Cycles]
  BY TickMoves
<1>. QED
  BY <1>2, <1>3, <1>4, <1>5, <1>6 DEF SpeedTypes, Tick

LEMMA SpeedTypesStay ==
    ASSUME TrafficSpeedsAssumption, SpeedTypes, [SpeedsNext]_speedVars
    PROVE  SpeedTypes'
<1>1. CASE UNCHANGED speedVars
  BY <1>1 DEF speedVars, redisVars, SpeedTypes, CycleOK, Owned
<1>. QED
  BY <1>1, TypesOfFolds, TypesOfWriters, TypesOfEdges, TypesOfWipe, TypesOfTick
     DEF SpeedsNext, EdgeStep

LEMMA SpeedTypesImply ==
    ASSUME TrafficSpeedsAssumption, SpeedTypes
    PROVE  SpeedsTypeOK
<1>1. ASSUME NEW a \in Aggregators
      PROVE  /\ fold[a].at \in {"idle", "observed", "folded"}
             /\ fold[a].edge \subseteq Edges /\ Cardinality(fold[a].edge) <= 1
             /\ fold[a].lag \in 0 .. MaxLag
  <2>1. fold[a] \in FoldRecs /\ OneEdge(fold[a])
    BY DEF SpeedTypes
  <2>2. Cardinality(fold[a].edge) <= 1
    <3>1. CASE fold[a].edge = {}
      BY <3>1, FS_EmptySet
    <3>2. ASSUME NEW e \in Edges, fold[a].edge = {e} PROVE Cardinality(fold[a].edge) <= 1
      <4>1. Cardinality({e}) = 1
        BY FS_Singleton
      <4>. QED
        BY <3>2, <4>1
    <3>. QED
      BY <2>1, <3>1, <3>2 DEF OneEdge
  <2>. QED
    BY <2>1, <2>2 DEF FoldRecs
<1>2. ASSUME NEW w \in Writers
      PROVE  /\ cycle[w].at \in {"asleep", "reverting", "deleting", "reading"}
             /\ cycle[w].left \subseteq Owned(w)
             /\ cycle[w].lag \in 0 .. MaxLag
  BY DEF SpeedTypes, Cycles, CycleOK
<1>. QED
  BY <1>1, <1>2 DEF SpeedsTypeOK, SpeedTypes

----------------------------------------------------------------------------
(* What a tile shows is in the index.                                      *)

\* Steps that take no edge out of the index, write no tile and start no phase
\* of a cycle.
LEMMA BackingFramed ==
    ASSUME TrafficSpeedsAssumption, SpeedTypes, TileBacked, Backing, wipes' = wipes,
           UNCHANGED tile,
           \A e \in Edges : score[e] # None => score'[e] # None,
           \A w \in Writers :
              \/ cycle'[w].at = "asleep" /\ cycle'[w].left = {}
              \/ /\ cycle'[w].at = cycle[w].at /\ cycle'[w].left = cycle[w].left
                 /\ cycle'[w].read = cycle[w].read
    PROVE  TileBacked' /\ Backing'
<1>1. TileBacked'
  BY DEF TileBacked
<1>2. ASSUME wipes = 0, NEW w \in Writers PROVE BackedBy(w)'
  <2>1. BackedBy(w) /\ cycle[w].left \subseteq Edges
    BY <1>2 DEF Backing, SpeedTypes, Cycles
  <2>2. CASE cycle'[w].at = "asleep" /\ cycle'[w].left = {}
    BY <2>2 DEF BackedBy
  <2>3. CASE /\ cycle'[w].at = cycle[w].at /\ cycle'[w].left = cycle[w].left
             /\ cycle'[w].read = cycle[w].read
    BY <2>1, <2>3 DEF BackedBy
  <2>. QED
    BY <2>2, <2>3
<1>. QED
  BY <1>1, <1>2 DEF Backing

LEMMA BackingOfOthers ==
    ASSUME TrafficSpeedsAssumption, SpeedTypes, TileBacked, Backing,
           \/ \E a \in Aggregators : FoldStep(a) \/ FoldFails(a) \/ \E e \in Edges : Observe(a, e)
           \/ \E e \in Edges : EdgeStep(e)
           \/ Tick
           \/ UNCHANGED speedVars
    PROVE  TileBacked' /\ Backing'
<1>1. score \in [Edges -> None .. Oldest] /\ None = -1
  BY SpeedConstants DEF SpeedTypes
<1>2. CASE Tick
  <2>1. \A e \in Edges : score[e] # None => score'[e] # None
    <3>1. \A e \in Edges : Older(score[e]) = None <=> score[e] = None
      BY <1>1, OlderFacts
    <3>. QED
      BY <1>2, <3>1 DEF Tick
  <2>2. \A w \in Writers :
              \/ cycle'[w].at = "asleep" /\ cycle'[w].left = {}
              \/ /\ cycle'[w].at = cycle[w].at /\ cycle'[w].left = cycle[w].left
                 /\ cycle'[w].read = cycle[w].read
    BY <1>2, TickMoves DEF NoCycle
  <2>3. UNCHANGED <<tile, wipes>>
    BY <1>2 DEF Tick
  <2>. QED
    BY <2>1, <2>2, <2>3, BackingFramed
<1>3. ASSUME UNCHANGED <<tile, cycle, wipes>>,
             \A e \in Edges : score[e] # None => score'[e] # None
      PROVE  TileBacked' /\ Backing'
  BY <1>3, BackingFramed
<1>4. ASSUME NEW a \in Aggregators, IndexEdge(a) PROVE TileBacked' /\ Backing'
  <2>1. PICK e \in fold[a].edge : score' = [score EXCEPT ![e] = fold[a].lag]
    BY <1>4 DEF IndexEdge
  <2>2. fold[a].lag \in Nat
    BY SpeedConstants DEF SpeedTypes, FoldRecs
  <2>3. fold[a].lag # None
    BY <1>1, <2>2
  <2>4. \A d \in Edges : score[d] # None => score'[d] # None
    BY <1>1, <2>1, <2>3
  <2>. QED
    BY <1>3, <1>4, <2>4 DEF IndexEdge
<1>5. ASSUME NEW e \in Edges, IndexFilled(e) PROVE TileBacked' /\ Backing'
  <2>1. \A d \in Edges : score[d] # None => score'[d] # None
    BY <1>1, <1>5 DEF IndexFilled
  <2>. QED
    BY <1>3, <1>5, <2>1 DEF IndexFilled
<1>6. CASE UNCHANGED <<tile, cycle, wipes, score>>
  BY <1>3, <1>6
<1>7. ASSUME NEW a \in Aggregators, FoldStep(a) \/ FoldFails(a) \/ \E e \in Edges : Observe(a, e)
      PROVE  TileBacked' /\ Backing'
  BY <1>4, <1>6, <1>7 DEF FoldStep, FoldIn, FoldFails, Observe, redisVars
<1>8. ASSUME NEW e \in Edges, EdgeStep(e) PROVE TileBacked' /\ Backing'
  BY <1>5, <1>6, <1>8 DEF EdgeStep, AskProvider, FillHash, AskFails, ExpireHash, redisVars
<1>9. CASE UNCHANGED speedVars
  BY <1>6, <1>9 DEF speedVars, redisVars
<1>. QED
  BY <1>2, <1>7, <1>8, <1>9

LEMMA BackingOfWriters ==
    ASSUME TrafficSpeedsAssumption, SpeedTypes, TileBacked, Backing, NEW w \in Writers,
           WriterStep(w) \/ CycleFails(w)
    PROVE  TileBacked' /\ Backing'
<1> SUFFICES ASSUME wipes = 0
             PROVE  /\ \A e \in Edges : tile'[e] # Unknown => score'[e] # None
                    /\ \A v \in Writers : BackedBy(v)'
  <2>1. UNCHANGED wipes
    BY DEF WriterStep, StartCycle, RevertTile, DeleteHash, DropFromIndex, ListFresh, ReadHash,
           WriteTiles, CycleFails
  <2>. QED
    BY <2>1 DEF TileBacked, Backing
<1>1. /\ cycle \in [Writers -> Cycles] /\ cycle[w] \in Cycles /\ CycleOK(w) /\ BackedBy(w)
      /\ score \in [Edges -> None .. Oldest] /\ tile \in [Edges -> 0 .. MinSamples]
      /\ samples \in [Edges -> 0 .. MinSamples]
      /\ cycle[w].left \subseteq Edges /\ cycle[w].left \subseteq Owned(w)
  BY DEF SpeedTypes, Cycles, CycleOK, Backing
<1>2. PICK z \in Cycles :
             /\ cycle' = [cycle EXCEPT ![w] = z]
             /\ z.left \subseteq Owned(w)
             /\ z.at = "deleting" => \/ RevertTile(w) /\ z.left = cycle[w].left
                                     \/ cycle[w].at = "deleting" /\ z.left = cycle[w].left
             /\ z.at = "reading" =>
                  \/ ListFresh(w) /\ z.left = Fresh(w) /\ z.read = {}
                  \/ /\ cycle[w].at = "reading"
                     /\ \E e \in cycle[w].left : /\ z.left = cycle[w].left \ {e}
                                                 /\ z.read = cycle[w].read \cup {<<e, samples[e]>>}
  BY CycleMoves
<1>3. cycle'[w] = z /\ \A v \in Writers \ {w} : cycle'[v] = cycle[v]
  BY <1>1, <1>2
<1>4. \A e \in Edges : tile[e] # Unknown => score[e] # None
  BY DEF TileBacked
\* How tiles and index change: by what is left of a cycle, or what it read.
<1>5. \A e \in Edges :
        \/ tile'[e] = tile[e]
        \/ RevertTile(w) /\ e \in cycle[w].left /\ tile'[e] = Unknown
        \/ cycle[w].at = "reading" /\ \E n \in 1 .. MinSamples : <<e, n>> \in cycle[w].read
  <2>1. CASE RevertTile(w)
    BY <1>1, <2>1 DEF RevertTile
  <2>2. CASE WriteTiles(w)
    BY <1>1, <2>2 DEF WriteTiles
  <2>. QED
    BY <2>1, <2>2 DEF WriterStep, StartCycle, DeleteHash, DropFromIndex, ListFresh, ReadHash,
                      CycleFails
<1>6. \A e \in Edges :
        \/ score'[e] = score[e]
        \/ DropFromIndex(w) /\ e \in cycle[w].left /\ score'[e] = None
  <2>1. CASE DropFromIndex(w)
    BY <1>1, <2>1 DEF DropFromIndex
  <2>. QED
    BY <2>1 DEF WriterStep, StartCycle, RevertTile, DeleteHash, ListFresh, ReadHash, WriteTiles,
                CycleFails, redisVars
<1>7. DropFromIndex(w) => cycle[w].at = "deleting" /\ UNCHANGED tile
  BY DEF DropFromIndex
<1>8. \A e \in Edges : tile'[e] # Unknown => score'[e] # None
  <2> SUFFICES ASSUME NEW e \in Edges, tile'[e] # Unknown PROVE score'[e] # None
    OBVIOUS
  <2>1. score[e] # None
    <3>1. CASE tile'[e] = tile[e]
      BY <1>4, <3>1
    <3>2. ASSUME cycle[w].at = "reading", NEW n \in 1 .. MinSamples, <<e, n>> \in cycle[w].read
          PROVE  score[e] # None
      <4>1. n \in 0 .. MinSamples
        BY SpeedConstants
      <4>. QED
        BY <1>1, <3>2, <4>1 DEF BackedBy
    <3>. QED
      BY <1>5, <3>1, <3>2
  <2>2. ~ (DropFromIndex(w) /\ e \in cycle[w].left)
    <3> SUFFICES ASSUME DropFromIndex(w), e \in cycle[w].left PROVE FALSE
      OBVIOUS
    <3>1. tile[e] = Unknown
      BY <1>1, <1>7 DEF BackedBy
    <3>. QED
      BY <1>7, <3>1
  <2>. QED
    BY <1>6, <2>1, <2>2
<1>9. ASSUME NEW v \in Writers, v # w PROVE BackedBy(v)'
  <2>1. cycle'[v] = cycle[v] /\ BackedBy(v) /\ cycle[v] \in Cycles /\ CycleOK(v)
    BY <1>1, <1>3, <1>9 DEF SpeedTypes, Backing
  <2>2. \A e \in Edges : Shard[e] = v => e \notin cycle[w].left
    BY <1>1, <1>9 DEF Owned
  <2>3. \A e \in cycle[v].left : e \in Edges /\ Shard[e] = v
    BY <2>1 DEF CycleOK, Owned
  <2>4. \A e \in Edges : Shard[e] = v => score'[e] = score[e]
    BY <1>6, <2>2
  <2>5. \A e \in Edges : Shard[e] = v => tile'[e] = tile[e]
    <3> SUFFICES ASSUME NEW e \in Edges, Shard[e] = v,
                        cycle[w].at = "reading",
                        NEW n \in 1 .. MinSamples, <<e, n>> \in cycle[w].read
                 PROVE  FALSE
      BY <1>5, <2>2
    <3>1. n \in 0 .. MinSamples
      BY SpeedConstants
    <3>. QED
      BY <1>1, <1>9, <3>1 DEF BackedBy
  <2>. QED
    BY <2>1, <2>3, <2>4, <2>5 DEF BackedBy
<1>10. BackedBy(w)'
  <2>1. z.at = "deleting" => \A e \in z.left : tile'[e] = Unknown
    <3>1. CASE RevertTile(w) /\ z.left = cycle[w].left
      BY <1>1, <3>1 DEF RevertTile
    <3>2. CASE cycle[w].at = "deleting" /\ z.left = cycle[w].left
      <4>1. ASSUME NEW e \in z.left PROVE tile'[e] = Unknown
        <5>1. e \in Edges /\ tile[e] = Unknown
          BY <1>1, <3>2, <4>1 DEF BackedBy
        <5>. QED
          BY <1>5, <3>2, <5>1
      <4>. QED
        BY <4>1
    <3>. QED
      BY <1>2, <3>1, <3>2
  <2>2. z.at = "reading" => \A e \in Edges : score'[e] = score[e]
    <3>1. DropFromIndex(w) => cycle'[w].at = "reverting"
      BY <1>1 DEF DropFromIndex, GotoCycle, Cycles
    <3>. QED
      BY <1>3, <1>6, <3>1
  <2>3. z.at = "reading" => \A e \in z.left : score'[e] # None
    <3>1. CASE z.left = Fresh(w)
      BY <2>2, <3>1 DEF Fresh, Owned
    <3>2. ASSUME cycle[w].at = "reading", NEW d, z.left = cycle[w].left \ {d}
          PROVE  z.at = "reading" => \A e \in z.left : score'[e] # None
      BY <1>1, <2>2, <3>2 DEF BackedBy
    <3>. QED
      BY <1>2, <3>1, <3>2
  <2>4. z.at = "reading" =>
          \A e \in Edges, n \in 0 .. MinSamples :
             <<e, n>> \in z.read => Shard[e] = w /\ score'[e] # None
    <3>1. CASE z.read = {}
      BY <3>1
    <3>2. ASSUME cycle[w].at = "reading", NEW d \in cycle[w].left,
                 z.read = cycle[w].read \cup {<<d, samples[d]>>},
                 z.at = "reading", NEW e \in Edges, NEW n \in 0 .. MinSamples, <<e, n>> \in z.read
          PROVE  Shard[e] = w /\ score'[e] # None
      <4>1. CASE <<e, n>> \in cycle[w].read
        BY <1>1, <2>2, <3>2, <4>1 DEF BackedBy
      <4>2. CASE <<e, n>> = <<d, samples[d]>>
        BY <1>1, <2>2, <3>2, <4>2 DEF BackedBy, Owned
      <4>. QED
        BY <3>2, <4>1, <4>2
    <3>. QED
      BY <1>2, <3>1, <3>2
  <2>. QED
    BY <1>3, <2>1, <2>3, <2>4 DEF BackedBy
<1>. QED
  BY <1>8, <1>9, <1>10

LEMMA BackingStays ==
    ASSUME TrafficSpeedsAssumption, SpeedTypes, TileBacked, Backing, [SpeedsNext]_speedVars
    PROVE  TileBacked' /\ Backing'
<1>1. CASE WipeRedis
  <2>1. wipes' # 0
    BY <1>1, SpeedConstants DEF WipeRedis, SpeedTypes
  <2>. QED
    BY <2>1 DEF TileBacked, Backing
<1>. QED
  BY <1>1, BackingOfOthers, BackingOfWriters DEF SpeedsNext, EdgeStep

----------------------------------------------------------------------------
(* What a tile shows was observed often enough.                            *)

\* Not older than the TTL at the start of the owner's cycle.
InTime(e) == score[e] # None /\ score[e] <= TTL + cycle[Shard[e]].lag

\* An edge that writers take for fresh, or that is about to be indexed, has its
\* samples, and a hash no older than its score.
FreshRipe(e) == InTime(e) => samples[e] = MinSamples /\ hashAge[e] <= score[e]
FoldRipe(e)  == \A a \in Aggregators : fold[a].at = "folded" /\ e \in fold[a].edge =>
                    samples[e] = MinSamples /\ hashAge[e] <= fold[a].lag

ReadRipe(w) ==
    cycle[w].at = "reading" =>
        /\ \A e \in cycle[w].left : InTime(e)
        /\ \A e \in Edges \ early, n \in 0 .. MinSamples :
              <<e, n>> \in cycle[w].read => n = MinSamples

FilledEarly == \A e \in Edges : asked[e] = "filled" => e \in early
TilesRipe   == \A e \in Edges \ early : tile[e] \in {Unknown, MinSamples}

Ripe == wipes = 0 /\ MaxLag <= TTL =>
            /\ \A e \in Edges \ early : FreshRipe(e) /\ FoldRipe(e)
            /\ \A w \in Writers : ReadRipe(w)
            /\ FilledEarly
            /\ TilesRipe

LEMMA AgesAndLags ==
    ASSUME TrafficSpeedsAssumption, SpeedTypes, NEW e \in Edges
    PROVE  /\ Shard[e] \in Writers /\ cycle[Shard[e]].lag \in 0 .. MaxLag
           /\ score[e] \in None .. Oldest /\ score[e] \in Int /\ hashAge[e] \in 0 .. Oldest
           /\ samples[e] \in 0 .. MinSamples
           /\ score[e] # None => score[e] \in Nat
           /\ None = -1 /\ TTL \in Nat /\ MaxLag \in Nat /\ Oldest \in Nat
           /\ Oldest = 2 * TTL + MaxLag + 1 /\ MinSamples \in Nat \ {0}
<1>1. /\ Shard[e] \in Writers /\ None = -1 /\ TTL \in Nat /\ MaxLag \in Nat
      /\ Oldest \in Nat /\ Oldest = 2 * TTL + MaxLag + 1 /\ MinSamples \in Nat \ {0}
  BY SpeedConstants
<1>2. cycle[Shard[e]] \in Cycles
  BY <1>1 DEF SpeedTypes
<1>3. cycle[Shard[e]].lag \in 0 .. MaxLag
  BY <1>2 DEF Cycles
<1>4. score[e] \in None .. Oldest /\ hashAge[e] \in 0 .. Oldest /\ samples[e] \in 0 .. MinSamples
  BY DEF SpeedTypes
<1>5. score[e] \in Int /\ (score[e] # None => score[e] \in Nat)
  BY <1>1, <1>4
<1>. QED
  BY <1>1, <1>3, <1>4, <1>5

LEMMA RipeOfFolds ==
    ASSUME TrafficSpeedsAssumption, SpeedTypes, Ripe, wipes = 0, MaxLag <= TTL,
           NEW a \in Aggregators,
           FoldStep(a) \/ FoldFails(a) \/ \E e \in Edges : Observe(a, e)
    PROVE  Ripe'
<1>1. UNCHANGED <<tile, cycle, asked, early, wipes>>
  BY DEF FoldStep, FoldIn, IndexEdge, FoldFails, Observe
<1>2. /\ \A e \in Edges \ early : FreshRipe(e) /\ FoldRipe(e)
      /\ \A w \in Writers : ReadRipe(w)
      /\ FilledEarly /\ TilesRipe
  BY DEF Ripe
<1>3. FilledEarly' /\ TilesRipe'
  BY <1>1, <1>2 DEF FilledEarly, TilesRipe
<1>4. /\ fold \in [Aggregators -> FoldRecs] /\ fold[a] \in FoldRecs /\ OneEdge(fold[a])
      /\ score \in [Edges -> None .. Oldest] /\ samples \in [Edges -> 0 .. MinSamples]
      /\ hashAge \in [Edges -> 0 .. Oldest]
      /\ \A b \in Aggregators : fold[b].lag \in Nat /\ fold[b].edge \subseteq Edges
  BY SpeedConstants DEF SpeedTypes, FoldRecs
<1>5. \A w \in Writers : cycle[w].left \subseteq Edges
  BY DEF SpeedTypes, Cycles
<1>6. CASE FoldFails(a) \/ \E e \in Edges : Observe(a, e)
  <2>1. UNCHANGED <<samples, hashAge, score>>
    BY <1>6 DEF FoldFails, Observe, redisVars
  <2>2. \A b \in Aggregators : fold'[b].at = "folded" => fold'[b] = fold[b]
    BY <1>4, <1>6 DEF FoldFails, Observe, NoFold
  <2>3. \A e \in Edges \ early : FreshRipe(e)' /\ FoldRipe(e)'
    BY <1>1, <1>2, <2>1, <2>2 DEF FreshRipe, FoldRipe, InTime
  <2>4. \A w \in Writers : ReadRipe(w)'
    BY <1>1, <1>2, <1>5, <2>1 DEF ReadRipe, InTime
  <2>. QED
    BY <1>1, <1>3, <2>3, <2>4 DEF Ripe
<1>7. CASE FoldIn(a)
  <2>1. PICK d, n :
          /\ d \in fold[a].edge
          /\ n = IF samples[d] < MinSamples THEN samples[d] + 1 ELSE MinSamples
          /\ samples' = [samples EXCEPT ![d] = n]
          /\ hashAge' = [hashAge EXCEPT ![d] = 0]
          /\ fold' = [fold EXCEPT ![a] = IF n >= MinSamples THEN [fold[a] EXCEPT !.at = "folded"]
                                                            ELSE NoFold]
          /\ UNCHANGED score
    BY <1>7 DEF FoldIn
  <2>2. d \in Edges /\ fold[a].edge = {d}
    BY <1>4, <2>1 DEF OneEdge
  <2>3. samples[d] = MinSamples => n = MinSamples
    BY <2>1, SpeedConstants
  <2>4. n >= MinSamples => n = MinSamples
    BY <1>4, <2>1, <2>2, SpeedConstants
  <2>5. ASSUME NEW e \in Edges \ early PROVE FreshRipe(e)' /\ FoldRipe(e)'
    <3>1. FreshRipe(e) /\ FoldRipe(e)
      BY <1>2, <2>5
    <3>2. e # d => samples'[e] = samples[e] /\ hashAge'[e] = hashAge[e]
      BY <1>4, <2>1
    <3>3. samples'[d] = n /\ hashAge'[d] = 0
      BY <1>4, <2>1, <2>2
    <3>4. FreshRipe(e)'
      <4>1. InTime(e)' <=> InTime(e)
        BY <1>1, <2>1 DEF InTime
      <4>2. InTime(e) => score[e] \in Nat
        BY <2>5, AgesAndLags DEF InTime
      <4>3. CASE e = d
        BY <2>1, <2>3, <3>1, <3>3, <4>1, <4>2, <4>3 DEF FreshRipe
      <4>4. CASE e # d
        BY <2>1, <3>1, <3>2, <4>1, <4>4 DEF FreshRipe
      <4>. QED
        BY <4>3, <4>4
    <3>5. FoldRipe(e)'
      <4> SUFFICES ASSUME NEW b \in Aggregators, fold'[b].at = "folded", e \in fold'[b].edge
                   PROVE  samples'[e] = MinSamples /\ hashAge'[e] <= fold'[b].lag
        BY DEF FoldRipe
      <4>1. CASE b # a
        <5>1. fold'[b] = fold[b]
          BY <1>4, <2>1, <4>1
        <5>2. samples[e] = MinSamples /\ hashAge[e] <= fold[b].lag /\ fold[b].lag \in Nat
          BY <1>4, <3>1, <5>1 DEF FoldRipe
        <5>3. CASE e = d
          BY <2>3, <3>3, <5>1, <5>2, <5>3
        <5>4. CASE e # d
          BY <3>2, <5>1, <5>2, <5>4
        <5>. QED
          BY <5>3, <5>4
      <4>2. CASE b = a
        <5>1. fold'[a] = IF n >= MinSamples THEN [fold[a] EXCEPT !.at = "folded"] ELSE NoFold
          BY <1>4, <2>1
        <5>2. n >= MinSamples
          BY <4>2, <5>1 DEF NoFold
        <5>3. fold'[a].edge = {d} /\ fold'[a].lag = fold[a].lag
          BY <1>4, <2>2, <5>1, <5>2 DEF FoldRecs
        <5>4. fold[a].lag \in Nat /\ e = d
          BY <1>4, <4>2, <5>3
        <5>. QED
          BY <2>4, <3>3, <4>2, <5>2, <5>3, <5>4
      <4>. QED
        BY <4>1, <4>2
    <3>. QED
      BY <3>4, <3>5
  <2>6. \A w \in Writers : ReadRipe(w)'
    BY <1>1, <1>2, <1>5, <2>1 DEF ReadRipe, InTime
  <2>. QED
    BY <1>1, <1>3, <2>5, <2>6 DEF Ripe
<1>8. CASE IndexEdge(a)
  <2>1. PICK d \in fold[a].edge : /\ score' = [score EXCEPT ![d] = fold[a].lag]
                                  /\ fold' = [fold EXCEPT ![a] = NoFold]
                                  /\ UNCHANGED <<samples, hashAge>>
                                  /\ fold[a].at = "folded"
    BY <1>8 DEF IndexEdge
  <2>2. d \in Edges /\ fold[a].lag \in Nat /\ fold[a].lag <= MaxLag /\ fold[a].edge \subseteq Edges
    BY <1>4, <2>1, SpeedConstants DEF FoldRecs
  <2>3. \A b \in Aggregators : fold'[b].at = "folded" => fold'[b] = fold[b]
    BY <1>4, <2>1 DEF NoFold
  <2>4. InTime(d)'
    <3>1. score'[d] = fold[a].lag /\ UNCHANGED cycle
      BY <1>1, <1>4, <2>1, <2>2
    <3>2. cycle[Shard[d]].lag \in Nat /\ TTL \in Nat /\ MaxLag \in Nat /\ None = -1
      BY <2>2, AgesAndLags
    <3>. QED
      BY <2>2, <3>1, <3>2 DEF InTime
  <2>5. \A e \in Edges : InTime(e) => InTime(e)'
    <3> SUFFICES ASSUME NEW e \in Edges, InTime(e), e # d PROVE InTime(e)'
      BY <2>4
    <3>1. score'[e] = score[e]
      BY <1>4, <2>1
    <3>. QED
      BY <1>1, <3>1 DEF InTime
  <2>6. ASSUME NEW e \in Edges \ early PROVE FreshRipe(e)' /\ FoldRipe(e)'
    <3>1. FreshRipe(e) /\ FoldRipe(e)
      BY <1>2, <2>6
    <3>2. FoldRipe(e)'
      BY <2>1, <2>3, <3>1 DEF FoldRipe
    <3>3. CASE e = d
      <4>1. samples[d] = MinSamples /\ hashAge[d] <= fold[a].lag
        BY <2>1, <3>1, <3>3 DEF FoldRipe
      <4>2. score'[d] = fold[a].lag
        BY <1>4, <2>1, <2>2
      <4>. QED
        BY <2>1, <3>2, <3>3, <4>1, <4>2 DEF FreshRipe
    <3>4. CASE e # d
      <4>1. score'[e] = score[e]
        BY <1>4, <2>1, <3>4
      <4>. QED
        BY <1>1, <2>1, <3>1, <3>2, <4>1 DEF FreshRipe, InTime
    <3>. QED
      BY <3>3, <3>4
  <2>7. \A w \in Writers : ReadRipe(w)'
    <3> SUFFICES ASSUME NEW w \in Writers PROVE ReadRipe(w)'
      OBVIOUS
    <3>1. ReadRipe(w) /\ cycle[w].left \subseteq Edges
      BY <1>2, <1>5
    <3>. QED
      BY <1>1, <2>5, <3>1 DEF ReadRipe
  <2>. QED
    BY <1>1, <1>3, <2>6, <2>7 DEF Ripe
<1>. QED
  BY <1>6, <1>7, <1>8 DEF FoldStep

LEMMA RipeOfEdges ==
    ASSUME TrafficSpeedsAssumption, SpeedTypes, Ripe, wipes = 0, MaxLag <= TTL,
           NEW d \in Edges, EdgeStep(d)
    PROVE  Ripe'
<1>1. UNCHANGED <<tile, fold, cycle, wipes>> /\ early \subseteq early'
  BY DEF EdgeStep, AskProvider, FillHash, IndexFilled, AskFails, ExpireHash
<1>2. /\ \A e \in Edges \ early : FreshRipe(e) /\ FoldRipe(e)
      /\ \A w \in Writers : ReadRipe(w)
      /\ FilledEarly /\ TilesRipe
  BY DEF Ripe
<1>3. /\ score \in [Edges -> None .. Oldest] /\ samples \in [Edges -> 0 .. MinSamples]
      /\ hashAge \in [Edges -> 0 .. Oldest]
      /\ asked \in [Edges -> {"no", "asked", "filled"}]
      /\ \A w \in Writers : cycle[w].left \subseteq Edges
  BY DEF SpeedTypes, Cycles
<1>4. TilesRipe'
  BY <1>1, <1>2 DEF TilesRipe
<1>5. FilledEarly'
  BY <1>2, <1>3 DEF FilledEarly, EdgeStep, AskProvider, FillHash, IndexFilled, AskFails, ExpireHash
\* Only the edge of the step changes, and only if it is not early.
<1>6. /\ \A e \in Edges \ {d} : /\ score'[e] = score[e] /\ samples'[e] = samples[e]
                                /\ hashAge'[e] = hashAge[e]
      /\ \/ d \in early'
         \/ UNCHANGED <<samples, hashAge, score>>
         \/ ExpireHash(d)
  BY <1>2, <1>3 DEF EdgeStep, AskProvider, FillHash, IndexFilled, AskFails, ExpireHash, redisVars,
                    FilledEarly
<1>7. \A e \in Edges : InTime(e) => InTime(e)'
  <2> SUFFICES ASSUME NEW e \in Edges, InTime(e) PROVE InTime(e)'
    OBVIOUS
  <2>1. CASE score'[e] = score[e]
    BY <1>1, <2>1 DEF InTime
  <2>2. CASE score'[e] # score[e]
    <3>1. score'[e] = 0
      BY <1>3, <2>2 DEF EdgeStep, AskProvider, FillHash, IndexFilled, AskFails, ExpireHash,
                        redisVars
    <3>2. cycle[Shard[e]].lag \in Nat /\ TTL \in Nat /\ MaxLag \in Nat /\ None = -1
      BY AgesAndLags
    <3>. QED
      BY <1>1, <3>1, <3>2 DEF InTime
  <2>. QED
    BY <2>1, <2>2
<1>8. ASSUME NEW e \in Edges \ early' PROVE FreshRipe(e)' /\ FoldRipe(e)'
  <2>1. e \in Edges \ early /\ FreshRipe(e) /\ FoldRipe(e)
    BY <1>1, <1>2, <1>8
  <2>2. CASE /\ score'[e] = score[e] /\ samples'[e] = samples[e] /\ hashAge'[e] = hashAge[e]
    BY <1>1, <2>1, <2>2 DEF FreshRipe, FoldRipe, InTime
  <2>3. CASE e = d /\ ExpireHash(d)
    <3>1. hashAge[e] > 2 * TTL /\ UNCHANGED <<score, hashAge>>
      BY <2>3 DEF ExpireHash
    <3>2. /\ cycle[Shard[e]].lag \in 0 .. MaxLag /\ TTL \in Nat /\ MaxLag \in Nat
          /\ score[e] \in Int /\ hashAge[e] \in Nat
      BY AgesAndLags
    <3>3. ~ InTime(e)
      <4> SUFFICES ASSUME InTime(e) PROVE FALSE
        OBVIOUS
      <4>1. hashAge[e] <= score[e] /\ score[e] <= TTL + cycle[Shard[e]].lag
        BY <2>1 DEF FreshRipe, InTime
      <4>. QED
        BY <3>1, <3>2, <4>1
    <3>4. \A a \in Aggregators : ~ (fold[a].at = "folded" /\ e \in fold[a].edge)
      <4> SUFFICES ASSUME NEW a \in Aggregators, fold[a].at = "folded", e \in fold[a].edge
                   PROVE  FALSE
        OBVIOUS
      <4>1. fold[a].lag \in 0 .. MaxLag
        BY DEF SpeedTypes, FoldRecs
      <4>2. hashAge[e] <= fold[a].lag
        BY <2>1 DEF FoldRipe
      <4>. QED
        BY <3>1, <3>2, <4>1, <4>2
    <3>. QED
      BY <1>1, <3>1, <3>3, <3>4 DEF FreshRipe, FoldRipe, InTime
  <2>. QED
    BY <1>6, <1>8, <2>2, <2>3
<1>9. \A w \in Writers : ReadRipe(w)'
  <2> SUFFICES ASSUME NEW w \in Writers PROVE ReadRipe(w)'
    OBVIOUS
  <2>1. ReadRipe(w) /\ cycle[w].left \subseteq Edges
    BY <1>2, <1>3
  <2>. QED
    BY <1>1, <1>7, <2>1 DEF ReadRipe
<1>. QED
  BY <1>4, <1>5, <1>8, <1>9 DEF Ripe

LEMMA RipeOfTick ==
    ASSUME TrafficSpeedsAssumption, SpeedTypes, Ripe, wipes = 0, MaxLag <= TTL, Tick
    PROVE  Ripe'
<1>1. UNCHANGED <<samples, tile, asked, early, wipes>>
  BY DEF Tick
<1>2. /\ \A e \in Edges \ early : FreshRipe(e) /\ FoldRipe(e)
      /\ \A w \in Writers : ReadRipe(w)
      /\ FilledEarly /\ TilesRipe
  BY DEF Ripe
<1>3. FilledEarly' /\ TilesRipe'
  BY <1>1, <1>2 DEF FilledEarly, TilesRipe
<1>4. \A e \in Edges : score'[e] = Older(score[e]) /\ Older(score[e]) \in None .. Oldest
  BY OlderFacts DEF Tick, SpeedTypes
<1>5. \A e \in Edges : samples[e] # 0 => hashAge'[e] = Older(hashAge[e])
  BY DEF Tick
<1>6. ASSUME NEW e \in Edges
      PROVE  \/ cycle[Shard[e]].at = "asleep" /\ cycle'[Shard[e]].lag = 0
             \/ cycle[Shard[e]].at # "asleep" /\ cycle'[Shard[e]].lag = cycle[Shard[e]].lag + 1
  BY AgesAndLags, TickMoves DEF NoCycle
<1>7. ASSUME NEW e \in Edges, InTime(e)' PROVE InTime(e)
  <2>1. /\ cycle[Shard[e]].lag \in 0 .. MaxLag /\ score[e] \in None .. Oldest /\ None = -1
        /\ TTL \in Nat /\ MaxLag \in Nat /\ Oldest \in Nat /\ Oldest = 2 * TTL + MaxLag + 1
    BY AgesAndLags
  <2>2. cycle'[Shard[e]].lag \in 0 .. MaxLag
    <3>1. cycle'[Shard[e]] \in Cycles
      BY AgesAndLags, TickMoves
    <3>. QED
      BY <3>1 DEF Cycles
  <2>3. Older(score[e]) # None /\ Older(score[e]) <= TTL + cycle'[Shard[e]].lag
    BY <1>4, <1>7 DEF InTime
  <2>4. /\ score[e] # None
        /\ score[e] # Oldest => Older(score[e]) = score[e] + 1
        /\ score[e] <= Older(score[e])
    BY <2>1, <2>3, OlderFacts
  <2>5. score[e] <= TTL + cycle[Shard[e]].lag
    <3>1. Older(score[e]) \in Int
      BY <1>4, <2>1
    <3>2. score[e] # Oldest
      BY <2>1, <2>2, <2>3, <2>4, <3>1
    <3>3. cycle'[Shard[e]].lag <= cycle[Shard[e]].lag + 1
      BY <1>6, <2>1
    <3>. QED
      BY <2>1, <2>2, <2>3, <2>4, <3>1, <3>2, <3>3
  <2>. QED
    BY <2>4, <2>5 DEF InTime
<1>8. \A e \in Edges : /\ hashAge[e] \in 0 .. Oldest /\ score[e] \in None .. Oldest
                       /\ hashAge[e] \in None .. Oldest /\ score[e] \in Int
  BY AgesAndLags
<1>9. ASSUME NEW e \in Edges, NEW lim \in Int, hashAge[e] <= lim, samples[e] = MinSamples
      PROVE  hashAge'[e] <= lim + 1
  <2>1. hashAge'[e] = Older(hashAge[e])
    BY <1>5, <1>9, SpeedConstants
  <2>2. Older(hashAge[e]) <= hashAge[e] + 1 /\ Older(hashAge[e]) \in Int
    BY <1>8, OlderFacts, SpeedConstants
  <2>3. hashAge[e] \in Int
    BY <1>8
  <2>. QED
    BY <1>9, <2>1, <2>2, <2>3
<1>10. ASSUME NEW e \in Edges \ early PROVE FreshRipe(e)' /\ FoldRipe(e)'
  <2>1. FreshRipe(e) /\ FoldRipe(e)
    BY <1>2, <1>10
  <2>2. FreshRipe(e)'
    <3> SUFFICES ASSUME InTime(e)' PROVE samples[e] = MinSamples /\ hashAge'[e] <= score'[e]
      BY <1>1 DEF FreshRipe
    <3>1. InTime(e) /\ samples[e] = MinSamples /\ hashAge[e] <= score[e]
      BY <1>7, <2>1 DEF FreshRipe
    <3>2. hashAge'[e] = Older(hashAge[e]) /\ score'[e] = Older(score[e])
      BY <1>4, <1>5, <3>1, SpeedConstants
    <3>3. PICK a, b : a = hashAge[e] /\ b = score[e]
      OBVIOUS
    <3>4. a \in 0 .. Oldest /\ b \in 0 .. Oldest /\ a <= b /\ None = -1 /\ Oldest \in Nat
      BY <1>8, <3>1, <3>3, AgesAndLags
    <3>5. Older(a) <= Older(b)
      BY <3>4 DEF Older
    <3>. QED
      BY <3>1, <3>2, <3>3, <3>5
  <2>3. FoldRipe(e)'
    <3> SUFFICES ASSUME NEW a \in Aggregators, fold'[a].at = "folded", e \in fold'[a].edge
                 PROVE  samples[e] = MinSamples /\ hashAge'[e] <= fold'[a].lag
      BY <1>1 DEF FoldRipe
    <3>1. fold[a].at # "idle"
      BY TickMoves DEF NoFold
    <3>2. fold[a].at = "folded" /\ e \in fold[a].edge /\ fold'[a].lag = fold[a].lag + 1
      BY <3>1, TickMoves
    <3>3. samples[e] = MinSamples /\ hashAge[e] <= fold[a].lag
      BY <2>1, <3>2 DEF FoldRipe
    <3>4. fold[a].lag \in Int
      BY SpeedConstants DEF SpeedTypes, FoldRecs
    <3>. QED
      BY <1>9, <3>2, <3>3, <3>4
  <2>. QED
    BY <2>2, <2>3
<1>11. ASSUME NEW w \in Writers PROVE ReadRipe(w)'
  <2> SUFFICES ASSUME cycle'[w].at = "reading"
               PROVE  /\ \A e \in cycle'[w].left : InTime(e)'
                      /\ \A e \in Edges \ early, n \in 0 .. MinSamples :
                            <<e, n>> \in cycle'[w].read => n = MinSamples
    BY <1>1 DEF ReadRipe
  <2>1. /\ cycle[w].at = "reading" /\ cycle'[w].left = cycle[w].left
        /\ cycle'[w].read = cycle[w].read /\ cycle'[w].lag = cycle[w].lag + 1
    BY TickMoves DEF NoCycle
  <2>2. ReadRipe(w) /\ cycle[w].left \subseteq Owned(w)
    BY <1>2 DEF SpeedTypes, CycleOK
  <2>3. ASSUME NEW e \in cycle[w].left PROVE InTime(e)'
    <3>1. e \in Edges /\ Shard[e] = w /\ InTime(e)
      BY <2>1, <2>2, <2>3 DEF Owned, ReadRipe
    <3>2. score[e] # None /\ score[e] <= TTL + cycle[w].lag
      BY <3>1 DEF InTime
    <3>3. /\ Older(score[e]) # None /\ Older(score[e]) <= score[e] + 1
          /\ Older(score[e]) \in Int
      BY <1>8, <3>1, <3>2, OlderFacts, SpeedConstants
    <3>4. /\ cycle[w].lag \in Int /\ TTL \in Int /\ score[e] \in Int
      BY <3>1, AgesAndLags
    <3>5. Older(score[e]) <= TTL + (cycle[w].lag + 1)
      BY <3>2, <3>3, <3>4
    <3>. QED
      BY <1>4, <2>1, <3>1, <3>3, <3>5 DEF InTime
  <2>. QED
    BY <2>1, <2>2, <2>3 DEF ReadRipe
<1>. QED
  BY <1>1, <1>3, <1>10, <1>11 DEF Ripe

LEMMA RipeOfWriters ==
    ASSUME TrafficSpeedsAssumption, SpeedTypes, Backing, Ripe, wipes = 0, MaxLag <= TTL,
           NEW w \in Writers, WriterStep(w) \/ CycleFails(w)
    PROVE  Ripe'
<1>1. UNCHANGED <<hashAge, fold, asked, wipes>> /\ early \subseteq early'
  BY DEF WriterStep, StartCycle, RevertTile, DeleteHash, DropFromIndex, ListFresh, ReadHash,
              WriteTiles, CycleFails, redisVars
<1>2. /\ \A e \in Edges \ early : FreshRipe(e) /\ FoldRipe(e)
      /\ \A v \in Writers : ReadRipe(v)
      /\ FilledEarly /\ TilesRipe
  BY DEF Ripe
<1>3. /\ cycle \in [Writers -> Cycles] /\ cycle[w] \in Cycles /\ CycleOK(w)
      /\ score \in [Edges -> None .. Oldest] /\ tile \in [Edges -> 0 .. MinSamples]
      /\ samples \in [Edges -> 0 .. MinSamples]
      /\ cycle[w].left \subseteq Edges /\ cycle[w].left \subseteq Owned(w)
  BY DEF SpeedTypes, Cycles, CycleOK
<1>4. PICK z \in Cycles :
             /\ cycle' = [cycle EXCEPT ![w] = z]
             /\ z.left \subseteq Owned(w)
             /\ z.lag = IF z.at = "asleep" THEN 0 ELSE cycle[w].lag
             /\ z.at = "reading" =>
                  \/ ListFresh(w) /\ z.left = Fresh(w) /\ z.read = {}
                  \/ /\ cycle[w].at = "reading"
                     /\ \E e \in cycle[w].left : /\ z.left = cycle[w].left \ {e}
                                                 /\ z.read = cycle[w].read \cup {<<e, samples[e]>>}
  BY CycleMoves
<1>5. cycle'[w] = z /\ \A v \in Writers \ {w} : cycle'[v] = cycle[v]
  BY <1>3, <1>4
<1>6. FilledEarly'
  BY <1>1, <1>2 DEF FilledEarly
<1>7. \A e \in Edges : score'[e] = score[e] \/ score'[e] = None
  <2>1. CASE DropFromIndex(w)
    BY <1>3, <2>1 DEF DropFromIndex
  <2>. QED
    BY <2>1 DEF WriterStep, StartCycle, RevertTile, DeleteHash, ListFresh, ReadHash, WriteTiles,
                CycleFails, redisVars
\* A cycle that ends has no lag left: what is in time was in time before.
<1>8. ASSUME NEW e \in Edges, InTime(e)' PROVE InTime(e) /\ score'[e] = score[e]
  <2>1. score'[e] = score[e] /\ score[e] # None
    BY <1>7, <1>8 DEF InTime
  <2>2. /\ cycle[Shard[e]].lag \in 0 .. MaxLag /\ TTL \in Nat /\ MaxLag \in Nat
        /\ score[e] \in Int /\ Shard[e] \in Writers
    BY AgesAndLags
  <2>3. cycle'[Shard[e]].lag = cycle[Shard[e]].lag \/ cycle'[Shard[e]].lag = 0
    BY <1>4, <1>5, <2>2
  <2>4. score[e] <= TTL + cycle'[Shard[e]].lag
    BY <1>8, <2>1 DEF InTime
  <2>5. score[e] <= TTL + cycle[Shard[e]].lag
    BY <2>2, <2>3, <2>4
  <2>. QED
    BY <2>1, <2>5 DEF InTime
<1>9. \A e \in Edges : e \in Fresh(w) <=> Shard[e] = w /\ InTime(e)
  BY DEF Fresh, Owned, InTime
<1>10. ASSUME NEW e \in Edges \ early' PROVE FreshRipe(e)' /\ FoldRipe(e)'
  <2>1. e \in Edges \ early /\ FreshRipe(e) /\ FoldRipe(e)
    BY <1>1, <1>2, <1>10
  <2>2. CASE samples'[e] = samples[e]
    BY <1>1, <1>8, <2>1, <2>2 DEF FreshRipe, FoldRipe
  <2>3. CASE samples'[e] # samples[e]
    <3>1. DeleteHash(w)
      BY <2>3 DEF WriterStep, StartCycle, RevertTile, DropFromIndex, ListFresh, ReadHash,
                  WriteTiles, CycleFails, redisVars
    <3>2. e \in cycle[w].left /\ (e \in Fresh(w) \/ Folded(e) => e \in early')
      BY <1>3, <2>3, <3>1 DEF DeleteHash
    <3>3. ~ InTime(e) /\ ~ Folded(e)
      BY <1>3, <1>9, <1>10, <3>2 DEF Owned
    <3>. QED
      BY <1>1, <1>8, <3>3 DEF FreshRipe, FoldRipe, Folded
  <2>. QED
    BY <2>2, <2>3
<1>11. TilesRipe'
  <2> SUFFICES ASSUME NEW e \in Edges \ early' PROVE tile'[e] \in {Unknown, MinSamples}
    BY DEF TilesRipe
  <2>1. e \in Edges \ early /\ tile[e] \in {Unknown, MinSamples}
    BY <1>1, <1>2 DEF TilesRipe
  <2>2. CASE WriteTiles(w)
    <3>1. CASE \E n \in 1 .. MinSamples : <<e, n>> \in cycle[w].read
      <4>1. PICK n \in 1 .. MinSamples :
              /\ n = CHOOSE m \in 1 .. MinSamples : <<e, m>> \in cycle[w].read
              /\ <<e, n>> \in cycle[w].read
        BY <3>1
      <4>2. tile'[e] = n
        BY <2>2, <3>1, <4>1 DEF WriteTiles
      <4>3. cycle[w].at = "reading" /\ n \in 0 .. MinSamples
        BY <2>2, SpeedConstants DEF WriteTiles
      <4>4. n = MinSamples
        BY <1>2, <2>1, <4>1, <4>3 DEF ReadRipe
      <4>. QED
        BY <4>2, <4>4
    <3>2. CASE ~ \E n \in 1 .. MinSamples : <<e, n>> \in cycle[w].read
      BY <2>1, <2>2, <3>2 DEF WriteTiles
    <3>. QED
      BY <3>1, <3>2
  <2>3. CASE RevertTile(w)
    BY <2>1, <2>3 DEF RevertTile
  <2>4. CASE UNCHANGED tile
    BY <2>1, <2>4
  <2>. QED
    BY <2>2, <2>3, <2>4 DEF WriterStep, StartCycle, DeleteHash, DropFromIndex, ListFresh,
                            ReadHash, CycleFails
<1>12. ASSUME NEW v \in Writers, v # w PROVE ReadRipe(v)'
  <2>1. /\ cycle'[v] = cycle[v] /\ ReadRipe(v) /\ cycle[v].left \subseteq Owned(v)
    BY <1>2, <1>5, <1>12 DEF SpeedTypes, CycleOK
  <2>2. ASSUME NEW e \in cycle[v].left, InTime(e) PROVE InTime(e)'
    <3>1. e \in Edges /\ Shard[e] = v /\ e \notin cycle[w].left
      BY <1>3, <1>12, <2>1, <2>2 DEF Owned
    <3>2. score'[e] = score[e]
      <4>1. CASE DropFromIndex(w)
        BY <3>1, <4>1 DEF DropFromIndex
      <4>. QED
        BY <4>1 DEF WriterStep, StartCycle, RevertTile, DeleteHash, ListFresh, ReadHash,
                    WriteTiles, CycleFails, redisVars
    <3>. QED
      BY <2>1, <2>2, <3>1, <3>2 DEF InTime
  <2>. QED
    BY <1>1, <2>1, <2>2 DEF ReadRipe
<1>13. ReadRipe(w)'
  <2> SUFFICES ASSUME z.at = "reading"
               PROVE  /\ \A e \in z.left : InTime(e)'
                      /\ \A e \in Edges \ early', n \in 0 .. MinSamples :
                            <<e, n>> \in z.read => n = MinSamples
    BY <1>5 DEF ReadRipe
  <2>1. cycle'[w].lag = cycle[w].lag /\ cycle'[w].at = "reading"
    BY <1>4, <1>5
  <2>2. UNCHANGED score
    <3>1. DropFromIndex(w) => cycle'[w].at = "reverting"
      BY <1>3 DEF DropFromIndex, GotoCycle, Cycles
    <3>. QED
      BY <2>1, <3>1 DEF WriterStep, StartCycle, RevertTile, DeleteHash, ListFresh, ReadHash,
                        WriteTiles, CycleFails, redisVars
  <2>3. \A e \in Edges : Shard[e] = w => (InTime(e)' <=> InTime(e))
    BY <2>1, <2>2 DEF InTime
  <2>4. CASE z.left = Fresh(w) /\ z.read = {}
    BY <1>9, <2>3, <2>4 DEF Fresh, Owned
  <2>5. ASSUME cycle[w].at = "reading", NEW d \in cycle[w].left, z.left = cycle[w].left \ {d},
               z.read = cycle[w].read \cup {<<d, samples[d]>>}
        PROVE  /\ \A e \in z.left : InTime(e)'
               /\ \A e \in Edges \ early', n \in 0 .. MinSamples :
                     <<e, n>> \in z.read => n = MinSamples
    <3>1. \A e \in cycle[w].left : e \in Edges /\ Shard[e] = w /\ InTime(e)
      BY <1>2, <1>3, <2>5 DEF ReadRipe, Owned
    <3>2. \A e \in z.left : InTime(e)'
      BY <2>3, <2>5, <3>1
    <3>3. ASSUME NEW e \in Edges \ early', NEW n \in 0 .. MinSamples, <<e, n>> \in z.read
          PROVE  n = MinSamples
      <4>1. e \in Edges \ early
        BY <1>1, <3>3
      <4>2. CASE <<e, n>> \in cycle[w].read
        BY <1>2, <2>5, <4>1, <4>2 DEF ReadRipe
      <4>3. CASE <<e, n>> = <<d, samples[d]>>
        <5>1. e = d /\ n = samples[e]
          BY <4>3
        <5>2. InTime(e) /\ FreshRipe(e)
          BY <1>2, <3>1, <4>1, <5>1
        <5>. QED
          BY <5>1, <5>2 DEF FreshRipe
      <4>. QED
        BY <2>5, <3>3, <4>2, <4>3
    <3>. QED
      BY <3>2, <3>3
  <2>. QED
    BY <1>4, <2>4, <2>5
<1>. QED
  BY <1>6, <1>10, <1>11, <1>12, <1>13 DEF Ripe

LEMMA RipeStays ==
    ASSUME TrafficSpeedsAssumption, SpeedTypes, Backing, Ripe, [SpeedsNext]_speedVars
    PROVE  Ripe'
<1>1. CASE WipeRedis
  <2>1. wipes' # 0
    BY <1>1, SpeedConstants DEF WipeRedis, SpeedTypes
  <2>. QED
    BY <2>1 DEF Ripe
<1>2. CASE ~ WipeRedis /\ ~ (wipes = 0 /\ MaxLag <= TTL)
  <2>1. UNCHANGED wipes
    BY <1>2 DEF SpeedsNext, FoldStep, FoldIn, IndexEdge, FoldFails, Observe, WriterStep, StartCycle,
                RevertTile, DeleteHash, DropFromIndex, ListFresh, ReadHash, WriteTiles, CycleFails,
                AskProvider, FillHash, IndexFilled, AskFails, ExpireHash, Tick, speedVars
  <2>. QED
    BY <1>2, <2>1 DEF Ripe
<1>3. CASE ~ WipeRedis /\ wipes = 0 /\ MaxLag <= TTL
  <2>1. CASE UNCHANGED speedVars
    BY <2>1 DEF speedVars, redisVars, Ripe, FreshRipe, FoldRipe, ReadRipe, InTime, FilledEarly,
                TilesRipe
  <2>. QED
    BY <1>3, <2>1, RipeOfFolds, RipeOfEdges, RipeOfTick, RipeOfWriters DEF SpeedsNext, EdgeStep
<1>. QED
  BY <1>1, <1>2, <1>3

----------------------------------------------------------------------------
SpeedsIInv == SpeedTypes /\ TileBacked /\ Backing /\ Ripe

LEMMA SpeedsStart ==
    ASSUME TrafficSpeedsAssumption, SpeedsInit
    PROVE  SpeedsIInv
<1>1. SpeedTypes
  <2>1. \A w \in Writers : CycleOK(w)
    BY DEF SpeedsInit, CycleOK, NoCycle
  <2>2. \A a \in Aggregators : OneEdge(fold[a])
    BY SpeedConstants DEF SpeedsInit
  <2>3. 0 \in 0 .. MaxErrors /\ 0 \in 0 .. MaxWipes
    BY SpeedConstants
  <2>. QED
    BY <2>1, <2>2, <2>3, SpeedConstants DEF SpeedsInit, SpeedTypes
<1>2. TileBacked /\ Backing
  BY DEF SpeedsInit, TileBacked, Backing, BackedBy, NoCycle
<1>3. Ripe
  BY DEF SpeedsInit, Ripe, FreshRipe, FoldRipe, ReadRipe, InTime, FilledEarly, TilesRipe,
         NoCycle, NoFold
<1>. QED
  BY <1>1, <1>2, <1>3 DEF SpeedsIInv

(* With any number of edges, aggregators and writers: a live speed in a    *)
(* tile is always in the index, so that a writer will revert it, and an    *)
(* edge is shown only with MinSamples samples, unless a hash was deleted   *)
(* under it or a provider's speed took its place (traffic_writer.py, `run`,*)
(* and traffic_aggregator.py, `_update_edge`).                             *)
THEOREM SpeedsInvariant == SpeedsSpec => []SpeedsInv
<1>1. SpeedsInit => SpeedsIInv
  BY TrafficSpeedsAssumption, SpeedsStart
<1>2. SpeedsIInv /\ [SpeedsNext]_speedVars => SpeedsIInv'
  BY TrafficSpeedsAssumption, SpeedTypesStay, BackingStays, RipeStays DEF SpeedsIInv
<1>3. SpeedsIInv => SpeedsInv
  BY TrafficSpeedsAssumption, SpeedTypesImply
     DEF SpeedsIInv, SpeedsInv, Ripe, TilesRipe, EnoughSamples
<1>. QED
  BY <1>1, <1>2, <1>3, PTL DEF SpeedsSpec
=============================================================================

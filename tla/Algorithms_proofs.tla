------------------------- MODULE Algorithms_proofs -------------------------
(***************************************************************************)
(* The algorithms, for any questions: how traffic is painted, cut and      *)
(* stored, how pages are merged and ranked, what ranks and prices come to. *)
(* Folds over sequences come first, then one part for each algorithm, then *)
(* the invariant that an answer is the one computed for its question.      *)
(***************************************************************************)
EXTENDS Algorithms, Sums_proofs


(***************************************************************************)
(* Folds.                                                                  *)
(***************************************************************************)

(* What holds of 0 and of each number after one it holds of.               *)
LEMMA UpTo ==
    ASSUME NEW n \in Nat, NEW S, 0 \in S, \A k \in 1 .. n : k - 1 \in S => k \in S
    PROVE  0 .. n \subseteq S
<1> DEFINE Bad == (0 .. n) \ S
<1>1. SUFFICES ASSUME Bad # {} PROVE FALSE
  OBVIOUS
<1>2. PICK k \in Bad : \A i \in Bad : k <= i
  <2>1. Bad \subseteq Nat
    OBVIOUS
  <2> HIDE DEF Bad
  <2>. QED
    BY <1>1, <2>1, LeastOf
<1>3. k \in 1 .. n /\ k - 1 \in 0 .. n /\ k - 1 \notin Bad
  BY <1>2
<1>. QED
  BY <1>3

(* An accumulator of X can be carried through the numbers up to n by the   *)
(* steps st.                                                               *)
StepsOn(X, n, st) == st \in [X \X (1 .. n) -> X]

Carried(X, base, n, st, f) ==
    /\ f \in [0 .. n -> X]
    /\ f[0] = base
    /\ \A i \in 1 .. n : f[i] = st[<<f[i - 1], i>>]

LEMMA Iterates ==
    ASSUME NEW n \in Nat, NEW X, NEW base \in X, NEW st, StepsOn(X, n, st)
    PROVE  \E f : Carried(X, base, n, st, f)
<1> DEFINE S == {k \in 0 .. n : \E f : Carried(X, base, k, st, f)}
<1>1. 0 \in S
  <2>1. Carried(X, base, 0, st, [i \in 0 .. 0 |-> base])
    BY DEF Carried
  <2>. QED
    BY <2>1
<1>2. ASSUME NEW k \in 1 .. n, k - 1 \in S PROVE k \in S
  <2>1. PICK f : Carried(X, base, k - 1, st, f)
    BY <1>2
  <2>2. f[k - 1] \in X /\ f[0] = base /\ \A i \in 0 .. k - 1 : f[i] \in X
    BY <2>1 DEF Carried
  <2>3. st[<<f[k - 1], k>>] \in X
    BY <2>2 DEF StepsOn
  <2> DEFINE h == [i \in 0 .. k |-> IF i = k THEN st[<<f[k - 1], k>>] ELSE f[i]]
  <2>4. h \in [0 .. k -> X]
    <3>1. ASSUME NEW i \in 0 .. k, i # k PROVE f[i] \in X
      BY <2>2, <3>1
    <3>. QED
      BY <2>3, <3>1
  <2>5. h[k] = st[<<f[k - 1], k>>] /\ \A i \in 0 .. k - 1 : h[i] = f[i]
    OBVIOUS
  <2> HIDE DEF h
  <2>6. ASSUME NEW i \in 1 .. k PROVE h[i] = st[<<h[i - 1], i>>]
    <3>1. h[i - 1] = f[i - 1]
      BY <2>5
    <3>2. CASE i = k
      BY <2>5, <3>1, <3>2
    <3>3. CASE i # k
      <4>1. PICK j \in 1 .. k - 1 : j = i
        BY <3>3
      <4>2. h[j] = f[j] /\ f[j] = st[<<f[j - 1], j>>]
        BY <2>1, <2>5 DEF Carried
      <4>. QED
        BY <3>1, <4>1, <4>2
    <3>. QED
      BY <3>2, <3>3
  <2>7. Carried(X, base, k, st, h)
    BY <2>2, <2>4, <2>5, <2>6 DEF Carried
  <2>. QED
    BY <2>7
<1>3. 0 .. n \subseteq S
  <2> HIDE DEF S
  <2>. QED
    BY <1>1, <1>2, UpTo
<1>. QED
  BY <1>3

(* A fold of FoldLeft takes a set of numbers from its top: what it makes   *)
(* of the numbers up to n is what the accumulator is after n.              *)
Top(s) == CHOOSE x \in s : \A y \in s : x >= y

Folds(st, base, n, g) ==
    g = [s \in SUBSET (1 .. n) |-> IF s = {} THEN base ELSE st[<<g[s \ {Top(s)}], Top(s)>>]]

LEMMA TopFacts ==
    ASSUME NEW n \in Nat, NEW s \in SUBSET (1 .. n), s # {}
    PROVE  Top(s) \in s /\ \A y \in s : y <= Top(s)
<1>1. PICK m \in s : \A y \in s : y <= m
  <2>1. s \subseteq 0 .. n
    OBVIOUS
  <2>. QED
    BY <2>1, GreatestOf
<1>. QED
  BY <1>1 DEF Top

\* The accumulator that skips what is not in s.
Skips(st, base, n, s, f) ==
    f[0] = base /\ \A i \in 1 .. n : f[i] = IF i \in s THEN st[<<f[i - 1], i>>] ELSE f[i - 1]

LEMMA SkipsExist ==
    ASSUME NEW n \in Nat, NEW X, NEW base \in X, NEW st, StepsOn(X, n, st), NEW s
    PROVE  \E f : Skips(st, base, n, s, f) /\ f[n] \in X
<1> DEFINE skip == [p \in X \X (1 .. n) |-> IF p[2] \in s THEN st[p] ELSE p[1]]
<1>1. StepsOn(X, n, skip)
  BY DEF StepsOn
<1>2. \A x \in X, i \in 1 .. n : skip[<<x, i>>] = IF i \in s THEN st[<<x, i>>] ELSE x
  OBVIOUS
<1> HIDE DEF skip
<1>3. PICK f : Carried(X, base, n, skip, f)
  BY <1>1, Iterates
<1>4. ASSUME NEW i \in 1 .. n PROVE f[i] = IF i \in s THEN st[<<f[i - 1], i>>] ELSE f[i - 1]
  <2>1. f[i - 1] \in X /\ f[i] = skip[<<f[i - 1], i>>]
    BY <1>3 DEF Carried
  <2>. QED
    BY <1>2, <2>1
<1>5. f[n] \in X
  BY <1>3 DEF Carried
<1>. QED
  BY <1>3, <1>4, <1>5 DEF Skips, Carried

(* It depends only on the part of s so far, and stays after the last.      *)
LEMMA SkipsAgree ==
    ASSUME NEW n \in Nat, NEW base, NEW st,
           NEW s, NEW t, NEW f, Skips(st, base, n, s, f), NEW h, Skips(st, base, n, t, h),
           NEW k \in 0 .. n, (1 .. k) \cap s = (1 .. k) \cap t
    PROVE  f[k] = h[k]
<1> DEFINE Bad == {j \in 0 .. k : f[j] # h[j]}
<1>1. SUFFICES ASSUME Bad # {} PROVE FALSE
  OBVIOUS
<1>2. PICK j \in Bad : \A i \in Bad : j <= i
  <2>1. Bad \subseteq Nat
    OBVIOUS
  <2> HIDE DEF Bad
  <2>. QED
    BY <1>1, <2>1, LeastOf
<1>3. j # 0
  BY DEF Skips
<1>4. j \in 1 .. n /\ j \in 1 .. k /\ j - 1 \in 0 .. k /\ j - 1 \notin Bad
  BY <1>2, <1>3
<1>5. f[j - 1] = h[j - 1]
  BY <1>4
<1>6. /\ f[j] = IF j \in s THEN st[<<f[j - 1], j>>] ELSE f[j - 1]
      /\ h[j] = IF j \in t THEN st[<<h[j - 1], j>>] ELSE h[j - 1]
  BY <1>4 DEF Skips
<1>. QED
  BY <1>2, <1>4, <1>5, <1>6

LEMMA SkipsStay ==
    ASSUME NEW n \in Nat, NEW base, NEW st, NEW s, NEW f, Skips(st, base, n, s, f),
           NEW k \in 0 .. n, (1 .. k) \cap s = s
    PROVE  f[n] = f[k]
<1> DEFINE Bad == {j \in k .. n : f[j] # f[k]}
<1>1. SUFFICES ASSUME Bad # {} PROVE FALSE
  OBVIOUS
<1>2. PICK j \in Bad : \A i \in Bad : j <= i
  <2>1. Bad \subseteq Nat
    OBVIOUS
  <2> HIDE DEF Bad
  <2>. QED
    BY <1>1, <2>1, LeastOf
<1>3. j # k
  OBVIOUS
<1>4. j \in 1 .. n /\ j \notin s /\ j - 1 \in k .. n /\ j - 1 \notin Bad
  <2>1. j \in 1 .. n /\ j > k /\ j - 1 \in k .. n
    BY <1>3
  <2>2. j \notin s
    BY <2>1
  <2>3. j - 1 \notin Bad
    BY <1>2, <2>1
  <2>. QED
    BY <2>1, <2>2, <2>3
<1>5. f[j] = f[j - 1] /\ f[j - 1] = f[k]
  BY <1>4 DEF Skips
<1>. QED
  BY <1>2, <1>5

LEMMA FoldsExist ==
    ASSUME NEW n \in Nat, NEW X, NEW base \in X, NEW st, StepsOn(X, n, st)
    PROVE  \E g \in [SUBSET (1 .. n) -> X] : Folds(st, base, n, g)
<1> DEFINE F(s) == CHOOSE f : Skips(st, base, n, s, f) /\ f[n] \in X
           g == [s \in SUBSET (1 .. n) |-> F(s)[n]]
<1>1. ASSUME NEW s PROVE Skips(st, base, n, s, F(s)) /\ F(s)[n] \in X
  <2>1. \E f : Skips(st, base, n, s, f) /\ f[n] \in X
    BY SkipsExist
  <2>. QED
    BY <2>1
<1> HIDE DEF F
<1>2. ASSUME NEW s \in SUBSET (1 .. n)
      PROVE  g[s] = IF s = {} THEN base ELSE st[<<g[s \ {Top(s)}], Top(s)>>]
  <2>1. CASE s = {}
    <3>1. F(s)[n] = F(s)[0]
      <4>1. PICK k \in 0 .. n : k = 0
        OBVIOUS
      <4>2. (1 .. k) \cap s = s
        BY <2>1
      <4>3. Skips(st, base, n, s, F(s))
        BY <1>1
      <4>4. F(s)[n] = F(s)[k]
        BY <4>2, <4>3, SkipsStay
      <4>. QED
        BY <4>1, <4>4
    <3>. QED
      BY <1>1, <2>1, <3>1 DEF Skips
  <2>2. CASE s # {}
    <3>1. PICK m \in s : m = Top(s) /\ \A y \in s : y <= m
      BY <2>2, TopFacts
    <3>2. m \in 1 .. n /\ m \in 0 .. n /\ m - 1 \in 0 .. n
      BY <3>1
    <3> DEFINE t == s \ {m}
    <3>3. t \in SUBSET (1 .. n) /\ (1 .. m - 1) \cap t = t /\ (1 .. m) \cap s = s
      <4>1. ASSUME NEW y \in t PROVE y \in 1 .. m - 1
        BY <3>1
      <4>2. ASSUME NEW y \in s PROVE y \in 1 .. m
        BY <3>1
      <4>. QED
        BY <4>1, <4>2
    <3>4. (1 .. m - 1) \cap s = (1 .. m - 1) \cap t
      BY <3>2
    <3> HIDE DEF t
    <3>10. Skips(st, base, n, s, F(s)) /\ Skips(st, base, n, t, F(t))
      BY <1>1
    <3>5. F(t)[n] = F(t)[m - 1]
      BY <3>2, <3>3, <3>10, SkipsStay
    <3>6. F(s)[n] = F(s)[m]
      BY <3>2, <3>3, <3>10, SkipsStay
    <3>7. F(s)[m - 1] = F(t)[m - 1]
      BY <3>2, <3>4, <3>10, SkipsAgree
    <3>8. F(s)[m] = st[<<F(s)[m - 1], m>>]
      BY <1>1, <3>1, <3>2 DEF Skips
    <3>9. g[s] = st[<<g[t], m>>]
      BY <3>3, <3>5, <3>6, <3>7, <3>8
    <3>. QED
      BY <2>2, <3>1, <3>9 DEF t
  <2>. QED
    BY <2>1, <2>2
<1>3. g = [s \in SUBSET (1 .. n) |-> IF s = {} THEN base ELSE st[<<g[s \ {Top(s)}], Top(s)>>]]
  BY <1>2
<1>4. g \in [SUBSET (1 .. n) -> X]
  BY <1>1
<1>. QED
  BY <1>3, <1>4 DEF Folds

LEMMA PrefixFacts ==
    ASSUME NEW n \in Nat, NEW k \in 1 .. n
    PROVE  /\ 1 .. k \in SUBSET (1 .. n) /\ 1 .. k # {}
           /\ Top(1 .. k) = k /\ (1 .. k) \ {k} = 1 .. k - 1
<1>1. 1 \in 1 .. k /\ 1 .. k \in SUBSET (1 .. n)
  <2>1. \A y \in 1 .. k : y \in 1 .. n
    OBVIOUS
  <2>2. 1 \in 1 .. k
    OBVIOUS
  <2>. QED
    BY <2>1, <2>2
<1>2. Top(1 .. k) = k
  <2>1. Top(1 .. k) \in 1 .. k /\ \A y \in 1 .. k : y <= Top(1 .. k)
    <3>1. 1 .. k # {}
      BY <1>1
    <3>. QED
      BY <1>1, <3>1, TopFacts
  <2>. QED
    BY <2>1
<1>3. (1 .. k) \ {k} = 1 .. k - 1
  OBVIOUS
<1>4. 1 .. k # {}
  BY <1>1
<1>. QED
  BY <1>1, <1>2, <1>3, <1>4

(***************************************************************************)
(* Prices.                                                                 *)
(***************************************************************************)

Prices(weights) ==
    /\ DOMAIN weights \subseteq Endpoints \cup {Element}
    /\ \A e \in DOMAIN weights : weights[e] \in Nat

LEMMA SmallestIn ==
    ASSUME NEW S, S \subseteq Nat, S # {}
    PROVE  Min(S) \in S /\ \A x \in S : Min(S) <= x
<1>1. PICK m \in S : \A x \in S : m <= x
  BY LeastOf
<1>. QED
  BY <1>1 DEF Min

LEMMA LargerOf ==
    ASSUME NEW m \in Nat, NEW n \in Nat
    PROVE  Max({m, n}) = IF m >= n THEN m ELSE n
<1>1. PICK x \in {m, n} : \A y \in {m, n} : x >= y
  OBVIOUS
<1>2. \A z : (z \in {m, n} /\ \A y \in {m, n} : z >= y) => z = x
  BY <1>1
<1>. QED
  BY <1>1, <1>2 DEF Max

LEMMA WeightFacts ==
    ASSUME NEW weights, Prices(weights)
    PROVE  /\ \A e \in Endpoints : WeightFor(weights, e) \in Nat
           /\ ElementRate(weights) \in Nat
BY CreditPricingAssumption DEF WeightFor, ElementRate, Prices

LEMMA ProductFacts ==
    ASSUME NEW k \in Nat, NEW m \in Nat, NEW n \in Nat, m <= n
    PROVE  k * m \in Nat /\ k * m <= k * n /\ m * k <= n * k
<1>1. PICK d \in Nat : n = m + d
  OBVIOUS
<1>. QED
  BY <1>1

LEMMA MatrixFacts ==
    ASSUME NEW weights, Prices(weights), NEW s \in Nat, NEW t \in Nat
    PROVE  /\ MatrixMilli(weights, s, t) \in Nat
           /\ MatrixMilli(weights, s, t) >= WeightFor(weights, Matrix)
           /\ s = 0 \/ t = 0 => MatrixMilli(weights, s, t) = WeightFor(weights, Matrix)
           /\ s > 0 /\ t > 0 => MatrixMilli(weights, s, t) >= s * t * ElementRate(weights)
           /\ s > 0 /\ t > 0 => MatrixMilli(weights, s, t) \in
                                    {WeightFor(weights, Matrix), s * t * ElementRate(weights)}
<1>1. PICK floor \in Nat : floor = WeightFor(weights, Matrix)
  BY WeightFacts, CreditPricingAssumption
<1>2. PICK rate \in Nat : rate = ElementRate(weights)
  BY WeightFacts
<1>3. PICK whole \in Nat : whole = s * t * rate
  OBVIOUS
<1>4. Max({floor, whole}) = IF floor >= whole THEN floor ELSE whole
  BY LargerOf
<1>. QED
  BY <1>1, <1>2, <1>3, <1>4 DEF MatrixMilli

(* The cheapest endpoint with a row is what some call costs.               *)
LEMMA CheapestIsACost ==
    ASSUME NEW weights, Prices(weights)
    PROVE  /\ MinWeight(weights) \in Costs(weights, Sizes)
           /\ Costs(weights, Sizes) \subseteq Nat
           /\ Endpoints \subseteq DOMAIN weights \/ MinWeight(weights) <= DefaultWeight =>
                \A c \in Costs(weights, Sizes) : MinWeight(weights) <= c
<1> DEFINE least == MinWeight(weights)
           costs == {weights[e] : e \in DOMAIN weights \ {Element}}
<1>1. \A e \in Endpoints : WeightFor(weights, e) \in Nat
  BY WeightFacts
<1>2. WeightFor(weights, Matrix) \in Costs(weights, Sizes)
  <2>1. MatrixMilli(weights, 0, 0) = WeightFor(weights, Matrix)
    BY MatrixFacts
  <2>. QED
    BY <2>1, PricesAssumption DEF Costs
<1>3. \A e \in Endpoints : WeightFor(weights, e) \in Costs(weights, Sizes)
  BY <1>2 DEF Costs
<1>4. \A e \in DOMAIN weights \ {Element} : e \in Endpoints /\ weights[e] = WeightFor(weights, e)
  BY DEF Prices, WeightFor
<1>5. costs \subseteq Nat
  BY DEF Prices
<1>6. least \in Costs(weights, Sizes)
  <2>1. CASE costs = {}
    <3>1. least = DefaultWeight
      BY <2>1 DEF MinWeight
    <3>2. WeightFor(weights, Matrix) = DefaultWeight
      BY <2>1, CreditPricingAssumption DEF WeightFor
    <3>. QED
      BY <1>2, <3>1, <3>2
  <2>2. CASE costs # {}
    <3>1. least = Min(costs)
      BY <2>2 DEF MinWeight
    <3>2. least \in costs
      BY <1>5, <2>2, <3>1, SmallestIn
    <3>. QED
      BY <1>3, <1>4, <3>2
  <2>. QED
    BY <2>1, <2>2
<1>7. Costs(weights, Sizes) \subseteq Nat
  <2>1. \A s, t \in Sizes : MatrixMilli(weights, s, t) \in Nat
    BY PricesAssumption, MatrixFacts
  <2>. QED
    BY <1>1, <2>1 DEF Costs
<1>8. ASSUME Endpoints \subseteq DOMAIN weights \/ least <= DefaultWeight,
             NEW c \in Costs(weights, Sizes)
      PROVE  least <= c
  <2>1. \A e \in DOMAIN weights \ {Element} : least <= weights[e]
    <3>1. ASSUME NEW e \in DOMAIN weights \ {Element} PROVE least <= weights[e]
      <4>1. costs # {} /\ weights[e] \in costs
        OBVIOUS
      <4>2. least = Min(costs)
        BY <4>1 DEF MinWeight
      <4>. QED
        BY <1>5, <4>1, <4>2, SmallestIn
    <3>. QED
      BY <3>1
  <2>2. ASSUME NEW e \in Endpoints PROVE least <= WeightFor(weights, e)
    <3>1. CASE e \in DOMAIN weights
      BY <2>1, <3>1, CreditPricingAssumption DEF WeightFor
    <3>2. CASE e \notin DOMAIN weights
      BY <1>8, <3>2 DEF WeightFor
    <3>. QED
      BY <3>1, <3>2
  <2>3. ASSUME NEW s \in Sizes, NEW t \in Sizes PROVE least <= MatrixMilli(weights, s, t)
    <3>1. least <= WeightFor(weights, Matrix)
      BY <2>2, CreditPricingAssumption
    <3>2. MatrixMilli(weights, s, t) \in Nat /\ MatrixMilli(weights, s, t) >= WeightFor(weights, Matrix)
      BY PricesAssumption, MatrixFacts
    <3>3. least \in Nat /\ WeightFor(weights, Matrix) \in Nat
      BY <1>1, <1>6, <1>7, CreditPricingAssumption
    <3>. QED
      BY <3>1, <3>2, <3>3
  <2>. QED
    BY <2>2, <2>3 DEF Costs
<1>. QED
  BY <1>6, <1>7, <1>8

(* A quotient, from above and from below.                                  *)
LEMMA QuotientFacts ==
    ASSUME NEW n \in Nat, NEW m \in Nat \ {0}
    PROVE  /\ n \div m \in Nat
           /\ (n \div m) * m <= n /\ n < ((n \div m) + 1) * m
OBVIOUS

LEMMA BackstopFacts ==
    ASSUME NEW weights, Prices(weights), NEW credits \in Nat, 0 \notin Costs(weights, Sizes),
           Endpoints \subseteq DOMAIN weights \/ MinWeight(weights) <= DefaultWeight
    PROVE  LET cap   == ProjectedRequestCap(weights, credits)
               costs == Costs(weights, Sizes)
           IN /\ \A c \in costs : (cap + 1) * c > credits * MilliPerCredit
              /\ cap * Min(costs) <= credits * MilliPerCredit
<1>1. PICK m : m = MinWeight(weights)
  OBVIOUS
<1>2. PICK costs : costs = Costs(weights, Sizes)
  OBVIOUS
<1>3. /\ m \in costs /\ costs \subseteq Nat /\ \A c \in costs : m <= c
  BY <1>1, <1>2, CheapestIsACost
<1>4. m \in Nat \ {0}
  BY <1>2, <1>3
<1>5. PICK cap : cap = ProjectedRequestCap(weights, credits)
  OBVIOUS
<1>6. PICK quota \in Nat : quota = credits * MilliPerCredit
  BY DEF MilliPerCredit
<1>7. cap = quota \div m
  <2>1. Max({1, m}) = m
    BY <1>4, LargerOf
  <2>. QED
    BY <1>1, <1>5, <1>6, <2>1 DEF ProjectedRequestCap
<1>8. cap \in Nat /\ cap * m <= quota /\ quota < (cap + 1) * m
  BY <1>4, <1>7, QuotientFacts
<1>9. ASSUME NEW c \in costs PROVE (cap + 1) * c > quota
  <2>1. c \in Nat /\ m <= c /\ cap + 1 \in Nat
    BY <1>3, <1>8
  <2>2. (cap + 1) * m <= (cap + 1) * c /\ (cap + 1) * m \in Nat /\ (cap + 1) * c \in Nat
    BY <1>4, <2>1, ProductFacts
  <2>. QED
    BY <1>8, <2>2
<1>10. Min(costs) = m
  <2>1. Min(costs) \in costs /\ Min(costs) <= m
    BY <1>3, SmallestIn
  <2>2. Min(costs) \in Nat /\ m <= Min(costs)
    BY <1>3, <2>1
  <2>. QED
    BY <1>4, <2>1, <2>2
<1>. QED
  BY <1>2, <1>5, <1>6, <1>8, <1>9, <1>10

LEMMA MatrixGrows ==
    ASSUME NEW weights, Prices(weights), NEW s \in Nat, NEW t \in Nat, NEW u \in Nat, u >= t
    PROVE  MatrixMilli(weights, s, u) >= MatrixMilli(weights, s, t)
<1>1. PICK floor \in Nat : floor = WeightFor(weights, Matrix)
  BY WeightFacts, CreditPricingAssumption
<1>2. PICK rate \in Nat : rate = ElementRate(weights)
  BY WeightFacts
<1>3. PICK low \in Nat : low = MatrixMilli(weights, s, t)
  BY MatrixFacts
<1>4. PICK high \in Nat : high = MatrixMilli(weights, s, u)
  BY MatrixFacts
<1>5. high >= floor
  BY <1>1, <1>4, MatrixFacts
<1>6. CASE s = 0 \/ t = 0
  BY <1>1, <1>3, <1>4, <1>5, <1>6, MatrixFacts
<1>7. CASE s > 0 /\ t > 0
  <2>1. high >= s * u * rate
    BY <1>2, <1>4, <1>7, MatrixFacts
  <2>2. low = floor \/ low = s * t * rate
    BY <1>1, <1>2, <1>3, <1>7, MatrixFacts
  <2>3. s * t \in Nat /\ s * u \in Nat /\ s * t <= s * u
    BY ProductFacts
  <2>4. (s * t) * rate \in Nat /\ (s * u) * rate \in Nat /\ (s * t) * rate <= (s * u) * rate
    BY <2>3, ProductFacts
  <2>. QED
    BY <1>3, <1>4, <1>5, <2>1, <2>2, <2>4
<1>. QED
  BY <1>3, <1>4, <1>6, <1>7

(***************************************************************************)
(* Ranks.                                                                  *)
(***************************************************************************)

LEMMA MaxIn ==
    ASSUME NEW S, S \subseteq 0 .. 100, S # {}
    PROVE  Max(S) \in S /\ \A x \in S : x <= Max(S)
<1>1. PICK m \in S : \A x \in S : x <= m
  BY GreatestOf
<1>. QED
  BY <1>1 DEF Max

LEMMA ClampedFacts == \A n \in Int : Clamped(n) \in 0 .. 100
<1> SUFFICES ASSUME NEW n \in Int PROVE Clamped(n) \in 0 .. 100
  OBVIOUS
<1>1. PICK m \in {100, n} : \A x \in {100, n} : m <= x
  BY n <= 100 \/ 100 <= n
<1>2. Min({100, n}) = m
  BY <1>1 DEF Min
<1>3. PICK k \in {0, m} : \A x \in {0, m} : k >= x
  BY <1>1, m <= 0 \/ 0 <= m
<1>4. Max({0, m}) = k
  BY <1>1, <1>3 DEF Max
<1>. QED
  BY <1>1, <1>2, <1>3, <1>4 DEF Clamped

LEMMA HundredthsFacts ==
    ASSUME NEW tags, InHundredths(tags)
    PROVE  /\ tags.place \in 0 .. 100 /\ tags.landuse \in 0 .. 100 /\ tags.brand \in 0 .. 100
           /\ tags.highway \in 0 .. 100 /\ tags.natural \in 0 .. 100
           /\ tags.venue \in 0 .. 100 /\ tags.building \in 0 .. 100
BY DEF InHundredths

(* Each score of an element is one of hundredths.                          *)
LEMMA ScoreFacts ==
    ASSUME NEW tags, InHundredths(tags), NEW admin \in Int, NEW area \in SUBSET Int
    PROVE  /\ AdminScore(admin) \in 0 .. 100 /\ AreaScore(area) \in 0 .. 100
           /\ PopulationScore(tags.population) \in 0 .. 100
           /\ MetadataScore(tags) \in 0 .. 100 /\ PoiScore(tags) \in 0 .. 100
           /\ admin <= 0 => AdminScore(admin) = 0
           /\ area = {} => AreaScore(area) = 0
<1>1. AdminScore(admin) \in 0 .. 100
  BY ClampedFacts DEF AdminScore
<1>2. AreaScore(area) \in 0 .. 100
  <2>1. CASE area # {}
    <3>1. PICK d \in Int : d = CHOOSE x \in area : TRUE
      BY <2>1
    <3>2. (100 * (d + 2)) \div 6 \in Int
      OBVIOUS
    <3>. QED
      BY <2>1, <3>1, <3>2, ClampedFacts DEF AreaScore
  <2>. QED
    BY <2>1 DEF AreaScore
<1>3. PopulationScore(tags.population) \in 0 .. 100
  <2>1. CASE tags.population # {}
    <3>1. PICK d \in Nat : d = CHOOSE x \in tags.population : TRUE
      BY <2>1 DEF InHundredths
    <3>2. PICK n \in Nat : n = (100 * d) \div 7
      OBVIOUS
    <3>3. PICK m \in {100, n} : \A x \in {100, n} : m <= x
      BY n <= 100 \/ 100 <= n
    <3>4. Min({100, n}) = m
      BY <3>3 DEF Min
    <3>. QED
      BY <2>1, <3>1, <3>2, <3>3, <3>4 DEF PopulationScore
  <2>. QED
    BY <2>1 DEF PopulationScore
<1>4. {MetadataScore(tags), OfficeScore(tags), NamedPoiScore(tags)} \subseteq 0 .. 100
  BY DEF MetadataScore, OfficeScore, NamedPoiScore
<1>5. PoiScore(tags) \in 0 .. 100
  BY <1>4, MaxIn DEF PoiScore, InHundredths
<1>6. MetadataScore(tags) \in 0 .. 100
  BY <1>4
<1>7. admin <= 0 => AdminScore(admin) = 0
  BY DEF AdminScore
<1>8. area = {} => AreaScore(area) = 0
  BY DEF AreaScore
<1>. QED
  BY <1>1, <1>2, <1>3, <1>5, <1>6, <1>7, <1>8

LEMMA PoiScoreGrows ==
    ASSUME NEW tags, InHundredths(tags), NEW better, InHundredths(better), NoWorse(better, tags)
    PROVE  PoiScore(tags) <= PoiScore(better)
<1>1. {OfficeScore(tags), NamedPoiScore(tags), OfficeScore(better), NamedPoiScore(better)} \subseteq 0 .. 100
  BY DEF OfficeScore, NamedPoiScore
<1> DEFINE S == {tags.venue, tags.building, OfficeScore(tags), NamedPoiScore(tags)}
           T == {better.venue, better.building, OfficeScore(better), NamedPoiScore(better)}
<1>2. S \subseteq 0 .. 100 /\ T \subseteq 0 .. 100 /\ S # {} /\ T # {}
  BY <1>1 DEF InHundredths
<1>3. \A x \in S : \E y \in T : x <= y
  BY DEF NoWorse
<1> HIDE DEF S, T
<1>4. Max(S) \in S /\ Max(T) \in T /\ \A y \in T : y <= Max(T)
  BY <1>2, MaxIn
<1>5. PICK y \in T : Max(S) <= y
  BY <1>3, <1>4
<1>6. Max(S) <= Max(T)
  <2>1. PICK a \in 0 .. 100, b \in 0 .. 100 : a = Max(S) /\ b = Max(T)
    BY <1>2, <1>4
  <2>. QED
    BY <1>2, <1>4, <1>5, <2>1
<1>. QED
  BY <1>6 DEF PoiScore, S, T

(* No more than the weights that count allow, and no less for better tags. *)
LEMMA RawFacts ==
    ASSUME NEW tags, InHundredths(tags), NEW admin \in Int, NEW area \in SUBSET Int
    PROVE  /\ WTotal(tags, admin, area) \in Nat \ {0}
           /\ Raw(tags, admin, area) \in Nat
           /\ Raw(tags, admin, area) <= 100 * WTotal(tags, admin, area)
<1>1. PICK a, r, p, m, o \in 0 .. 100 :
         /\ a = AdminScore(admin) /\ r = AreaScore(area) /\ p = PopulationScore(tags.population)
         /\ m = MetadataScore(tags) /\ o = PoiScore(tags)
         /\ admin <= 0 => a = 0
         /\ area = {} => r = 0
  <2>1. /\ AdminScore(admin) \in 0 .. 100 /\ AreaScore(area) \in 0 .. 100
        /\ PopulationScore(tags.population) \in 0 .. 100
        /\ MetadataScore(tags) \in 0 .. 100 /\ PoiScore(tags) \in 0 .. 100
        /\ admin <= 0 => AdminScore(admin) = 0
        /\ area = {} => AreaScore(area) = 0
    BY ScoreFacts
  <2>. QED
    BY <2>1, Zenon
<1>2. PICK place, landuse, brand, highway, natural \in 0 .. 100 :
         /\ place = tags.place /\ landuse = tags.landuse /\ brand = tags.brand
         /\ highway = tags.highway /\ natural = tags.natural
  <2>1. /\ tags.place \in 0 .. 100 /\ tags.landuse \in 0 .. 100 /\ tags.brand \in 0 .. 100
        /\ tags.highway \in 0 .. 100 /\ tags.natural \in 0 .. 100
    BY HundredthsFacts
  <2>. QED
    BY <2>1, Zenon
<1>3. Raw(tags, admin, area) = 50 * a + 40 * r + 25 * place + 15 * p + 5 * m + 10 * landuse
                                + 3 * brand + 10 * o + 15 * highway + 10 * natural
  BY <1>1, <1>2 DEF Raw, WAdmin, WArea, WPlace, WPop, WMeta, WLanduse, WBrand, WPoi, WHighway, WNatural
<1>4. WTotal(tags, admin, area) = 68 + If(admin > 0, 50) + If(area # {}, 40)
                                   + If(highway > 0, 15) + If(natural > 0, 10)
  BY <1>2 DEF WTotal, WBase, WPlace, WPop, WMeta, WLanduse, WPoi, WBrand, WAdmin, WArea, WHighway, WNatural
<1>5. PICK wa, wr, wh, wn \in Nat :
         /\ wa = If(admin > 0, 50) /\ wr = If(area # {}, 40) /\ wh = If(highway > 0, 15)
         /\ wn = If(natural > 0, 10)
  BY DEF If
<1>6. 50 * a <= 100 * wa /\ 40 * r <= 100 * wr /\ 15 * highway <= 100 * wh /\ 10 * natural <= 100 * wn
  BY <1>1, <1>5 DEF If
<1>7. PICK low, high \in Nat :
         /\ low = 25 * place + 15 * p + 5 * m + 10 * landuse + 3 * brand + 10 * o /\ low <= 6800
         /\ high = 50 * a + 40 * r + 15 * highway + 10 * natural
  OBVIOUS
<1>8. high <= 100 * (wa + wr + wh + wn)
  BY <1>6, <1>7
<1>9. Raw(tags, admin, area) = low + high
  BY <1>3, <1>7
<1>10. WTotal(tags, admin, area) = 68 + wa + wr + wh + wn
  BY <1>4, <1>5
<1>. QED
  BY <1>7, <1>8, <1>9, <1>10

LEMMA RawGrows ==
    ASSUME NEW tags, InHundredths(tags), NEW better, InHundredths(better), NoWorse(better, tags),
           NEW admin \in Int, NEW area \in SUBSET Int
    PROVE  /\ Raw(tags, admin, area) <= Raw(better, admin, area)
           /\ WTotal(tags, admin, area) = WTotal(better, admin, area)
<1>1. PICK a, r, p, m, o, q, n, u \in 0 .. 100 :
         /\ a = AdminScore(admin) /\ r = AreaScore(area)
         /\ p = PopulationScore(tags.population) /\ q = PopulationScore(better.population)
         /\ m = MetadataScore(tags) /\ n = MetadataScore(better)
         /\ o = PoiScore(tags) /\ u = PoiScore(better)
  <2>1. /\ AdminScore(admin) \in 0 .. 100 /\ AreaScore(area) \in 0 .. 100
        /\ PopulationScore(tags.population) \in 0 .. 100
        /\ MetadataScore(tags) \in 0 .. 100 /\ PoiScore(tags) \in 0 .. 100
    BY ScoreFacts
  <2>2. /\ PopulationScore(better.population) \in 0 .. 100
        /\ MetadataScore(better) \in 0 .. 100 /\ PoiScore(better) \in 0 .. 100
    BY ScoreFacts
  <2>. QED
    BY <2>1, <2>2, Zenon
<1>2. p <= q /\ m <= n /\ o <= u
  BY <1>1, PoiScoreGrows DEF NoWorse
<1>3. /\ tags.place <= better.place /\ tags.landuse <= better.landuse /\ tags.brand <= better.brand
      /\ tags.highway <= better.highway /\ tags.natural <= better.natural
  BY DEF NoWorse, InHundredths
<1>4. Raw(tags, admin, area) <= Raw(better, admin, area)
  <2>1. PICK place, landuse, brand, highway, natural \in 0 .. 100 :
           /\ place = tags.place /\ landuse = tags.landuse /\ brand = tags.brand
           /\ highway = tags.highway /\ natural = tags.natural
    <3>1. /\ tags.place \in 0 .. 100 /\ tags.landuse \in 0 .. 100 /\ tags.brand \in 0 .. 100
          /\ tags.highway \in 0 .. 100 /\ tags.natural \in 0 .. 100
      BY HundredthsFacts
    <3>. QED
      BY <3>1, Zenon
  <2>2. PICK place2, landuse2, brand2, highway2, natural2 \in 0 .. 100 :
           /\ place2 = better.place /\ landuse2 = better.landuse /\ brand2 = better.brand
           /\ highway2 = better.highway /\ natural2 = better.natural
    <3>1. /\ better.place \in 0 .. 100 /\ better.landuse \in 0 .. 100 /\ better.brand \in 0 .. 100
          /\ better.highway \in 0 .. 100 /\ better.natural \in 0 .. 100
      BY HundredthsFacts
    <3>. QED
      BY <3>1, Zenon
  <2>3. /\ Raw(tags, admin, area) = 50 * a + 40 * r + 25 * place + 15 * p + 5 * m + 10 * landuse
                                     + 3 * brand + 10 * o + 15 * highway + 10 * natural
        /\ Raw(better, admin, area) = 50 * a + 40 * r + 25 * place2 + 15 * q + 5 * n + 10 * landuse2
                                       + 3 * brand2 + 10 * u + 15 * highway2 + 10 * natural2
    BY <1>1, <2>1, <2>2 DEF Raw, WAdmin, WArea, WPlace, WPop, WMeta, WLanduse, WBrand, WPoi, WHighway, WNatural
  <2>4. place <= place2 /\ landuse <= landuse2 /\ brand <= brand2 /\ highway <= highway2 /\ natural <= natural2
    BY <1>3, <2>1, <2>2
  <2>5. 50 * a + 40 * r + 25 * place + 15 * p + 5 * m + 10 * landuse + 3 * brand + 10 * o + 15 * highway
          + 10 * natural
        <= 50 * a + 40 * r + 25 * place2 + 15 * q + 5 * n + 10 * landuse2 + 3 * brand2 + 10 * u
             + 15 * highway2 + 10 * natural2
    <3>1. PICK x, y \in Nat :
             /\ x = 50 * a + 40 * r + 15 * p + 5 * m + 10 * o
             /\ y = 50 * a + 40 * r + 15 * q + 5 * n + 10 * u /\ x <= y
      BY <1>2
    <3>2. 25 * place + 10 * landuse + 3 * brand + 15 * highway + 10 * natural
            <= 25 * place2 + 10 * landuse2 + 3 * brand2 + 15 * highway2 + 10 * natural2
      BY <2>4
    <3>. QED
      BY <3>1, <3>2
  <2>. QED
    BY <2>3, <2>5
<1>5. WTotal(tags, admin, area) = WTotal(better, admin, area)
  BY DEF WTotal, NoWorse, If
<1>. QED
  BY <1>4, <1>5

Quotients(m, n, d, k, x, y) == x = m \div d /\ y = n \div d /\ x <= y /\ y <= k

LEMMA QuotientGrows ==
    ASSUME NEW m \in Nat, NEW n \in Nat, m <= n, NEW d \in Nat \ {0}, NEW k \in Nat, n <= k * d
    PROVE  \E x, y \in Nat : Quotients(m, n, d, k, x, y)
<1>1. PICK x, y \in Nat : x = m \div d /\ y = n \div d
  OBVIOUS
<1>2. x * d <= m /\ n < (y + 1) * d /\ y * d <= n
  BY <1>1
<1>3. x <= y
  BY <1>2
<1>4. y <= k
  BY <1>2
<1>. QED
  BY <1>1, <1>3, <1>4, Zenon DEF Quotients

\* A rank, and one that is no lower, are on the scale.
OnScale(rank, better) == rank \in RankScale /\ better \in RankScale /\ rank <= better

LEMMA RankFacts ==
    ASSUME NEW q \in RankQuestions
    PROVE  OnScale(ComputeOfflineRank(q.tags, q.admin, q.area), ComputeOfflineRank(q.better, q.admin, q.area))
<1>1. /\ InHundredths(q.tags) /\ InHundredths(q.better) /\ NoWorse(q.better, q.tags)
      /\ q.admin \in Int /\ q.area \in SUBSET Int
  BY RanksAssumption
<1>2. PICK w \in Nat \ {0}, m, n \in Nat :
         /\ w = WTotal(q.tags, q.admin, q.area) /\ w = WTotal(q.better, q.admin, q.area)
         /\ m = Raw(q.tags, q.admin, q.area) /\ n = Raw(q.better, q.admin, q.area)
         /\ m <= n /\ n <= 100 * w
  BY <1>1, RawFacts, RawGrows
<1>3. PICK top, x, y \in Nat : top = 10000 /\ x = 100 * m /\ y = 100 * n /\ x <= y /\ y <= top * w
  BY <1>2
<1>4. /\ ComputeOfflineRank(q.tags, q.admin, q.area) = x \div w
      /\ ComputeOfflineRank(q.better, q.admin, q.area) = y \div w
  BY <1>2, <1>3 DEF ComputeOfflineRank
<1>5. PICK rank, better \in Nat : Quotients(x, y, w, top, rank, better)
  <2>1. x <= y /\ y <= top * w
    BY <1>3
  <2>. QED
    BY <2>1, QuotientGrows
<1>7. rank = x \div w /\ better = y \div w /\ rank <= better /\ better <= top
  BY <1>5 DEF Quotients
<1>6. rank \in RankScale /\ better \in RankScale
  <2>1. rank \in 0 .. top /\ better \in 0 .. top
    BY <1>7
  <2>2. RankScale = 0 .. top
    BY <1>3 DEF RankScale
  <2>. QED
    BY <2>1, <2>2
<1>. QED
  <2>1. rank \in RankScale /\ better \in RankScale /\ rank <= better
    BY <1>6, <1>7
  <2>2. /\ ComputeOfflineRank(q.tags, q.admin, q.area) = rank
        /\ ComputeOfflineRank(q.better, q.admin, q.area) = better
    BY <1>4, <1>7
  <2>. QED
    BY <2>1, <2>2, Zenon DEF OnScale

(***************************************************************************)
(* Runs and windows of a leg.                                              *)
(***************************************************************************)

----------------------------------------------------------------------------
(* Windows.                                                                *)

\* The step and the fold of Windows.
Empty == [done |-> <<>>, cur |-> <<>>, km |-> 0]
Take(edges, fetchable, acc, i) ==
    IF i \notin fetchable
      THEN IF acc.cur = <<>> THEN acc
           ELSE [done |-> Append(acc.done, acc.cur), cur |-> <<>>, km |-> 0]
    ELSE IF acc.cur # <<>> /\ acc.km + edges[i].length > WindowKm
           THEN [done |-> Append(acc.done, acc.cur), cur |-> <<i>>, km |-> edges[i].length]
    ELSE [acc EXCEPT !.cur = Append(@, i), !.km = @ + edges[i].length]

Indexed(edges) == [i \in DOMAIN edges |-> i]
AllTaken(edges, fetchable) ==
    FoldLeft(LAMBDA acc, i : Take(edges, fetchable, acc, i), Empty, Indexed(edges))
Taken(edges, fetchable, g) ==
    g = [s \in SUBSET DOMAIN Indexed(edges) |->
            IF s = {} THEN Empty ELSE Take(edges, fetchable, g[s \ {Top(s)}], Indexed(edges)[Top(s)])]

LEMMA WindowsAreTaken ==
    ASSUME NEW edges, NEW fetchable, NEW all, all = AllTaken(edges, fetchable)
    PROVE  Windows(edges, fetchable) = IF all.cur = <<>> THEN all.done ELSE Append(all.done, all.cur)
<1>1. Windows(edges, fetchable) =
         IF AllTaken(edges, fetchable).cur = <<>> THEN AllTaken(edges, fetchable).done
         ELSE Append(AllTaken(edges, fetchable).done, AllTaken(edges, fetchable).cur)
  BY DEF Windows, AllTaken, Take, Empty, Indexed
<1>. QED
  BY <1>1

LEMMA TakenIsChosen ==
    ASSUME NEW edges, NEW fetchable
    PROVE  AllTaken(edges, fetchable) = (CHOOSE g : Taken(edges, fetchable, g))[DOMAIN Indexed(edges)]
BY DEF AllTaken, FoldLeft, MapThenFoldSet, Max, Top, Taken

Accs == [done : Seq(Seq(Nat)), cur : Seq(Nat), km : Nat]

LEMMA TakeTyped ==
    ASSUME NEW edges \in Seq(RouteEdges), NEW fetchable, NEW acc \in Accs, NEW i \in 1 .. Len(edges)
    PROVE  Take(edges, fetchable, acc, i) \in Accs
<1>1. edges[i].length \in Nat
  <2>1. edges[i] \in RouteEdges
    OBVIOUS
  <2>. QED
    BY <2>1 DEF RouteEdges
<1>2. acc.done \in Seq(Seq(Nat)) /\ acc.cur \in Seq(Nat) /\ acc.km \in Nat /\ i \in Nat
  BY DEF Accs
<1>3. /\ Append(acc.done, acc.cur) \in Seq(Seq(Nat)) /\ Append(acc.cur, i) \in Seq(Nat)
      /\ <<i>> \in Seq(Nat) /\ <<>> \in Seq(Nat) /\ acc.km + edges[i].length \in Nat
  BY <1>1, <1>2
<1>. QED
  BY <1>1, <1>2, <1>3 DEF Take, Accs

\* The accumulator after each edge.
TakenUpTo(edges, fetchable, f) ==
    /\ f[0] = Empty
    /\ \A i \in 1 .. Len(edges) : f[i] = Take(edges, fetchable, f[i - 1], i)

LEMMA TakenStepwise ==
    ASSUME NEW edges \in Seq(RouteEdges), NEW fetchable
    PROVE  \E f : TakenUpTo(edges, fetchable, f) /\ f[Len(edges)] = AllTaken(edges, fetchable)
<1>1. PICK n \in Nat : n = Len(edges) /\ DOMAIN edges = 1 .. n
  OBVIOUS
<1>2. DOMAIN Indexed(edges) = 1 .. n /\ \A i \in 1 .. n : Indexed(edges)[i] = i
  BY <1>1 DEF Indexed
<1> DEFINE st == [p \in Accs \X (1 .. n) |-> Take(edges, fetchable, p[1], p[2])]
<1>3. StepsOn(Accs, n, st)
  BY <1>1, TakeTyped DEF StepsOn
<1>4. \A acc \in Accs, i \in 1 .. n : st[<<acc, i>>] = Take(edges, fetchable, acc, i)
  OBVIOUS
<1>5. Empty \in Accs
  BY DEF Empty, Accs
<1> HIDE DEF st
<1>6. PICK g \in [SUBSET (1 .. n) -> Accs] : Folds(st, Empty, n, g)
  BY <1>3, <1>5, FoldsExist
<1>7. Taken(edges, fetchable, g)
  <2>1. ASSUME NEW s \in SUBSET (1 .. n)
        PROVE  g[s] = IF s = {} THEN Empty
                      ELSE Take(edges, fetchable, g[s \ {Top(s)}], Indexed(edges)[Top(s)])
    <3>1. CASE s = {}
      BY <1>6, <3>1 DEF Folds
    <3>2. CASE s # {}
      <4>1. Top(s) \in 1 .. n
        BY <3>2, TopFacts
      <4>2. g[s] = st[<<g[s \ {Top(s)}], Top(s)>>] /\ g[s \ {Top(s)}] \in Accs
        BY <1>6, <3>2 DEF Folds
      <4>. QED
        BY <1>2, <1>4, <3>2, <4>1, <4>2
    <3>. QED
      BY <3>1, <3>2
  <2>. QED
    BY <1>2, <1>6, <2>1 DEF Taken, Folds
<1>8. PICK h : Taken(edges, fetchable, h) /\ AllTaken(edges, fetchable) = h[1 .. n]
  BY <1>2, <1>7, TakenIsChosen
<1> DEFINE f == [k \in 0 .. n |-> h[1 .. k]]
<1>9. f[0] = Empty
  <2>1. 1 .. 0 = {}
    OBVIOUS
  <2>. QED
    BY <1>2, <1>8, <2>1 DEF Taken
<1>10. ASSUME NEW i \in 1 .. n PROVE f[i] = Take(edges, fetchable, f[i - 1], i)
  <2>1. /\ 1 .. i \in SUBSET (1 .. n) /\ 1 .. i # {}
        /\ Top(1 .. i) = i /\ (1 .. i) \ {i} = 1 .. i - 1
    BY PrefixFacts
  <2>2. h[1 .. i] = Take(edges, fetchable, h[(1 .. i) \ {Top(1 .. i)}], Indexed(edges)[Top(1 .. i)])
    BY <1>2, <1>8, <2>1 DEF Taken
  <2>3. h[1 .. i] = Take(edges, fetchable, h[1 .. i - 1], i)
    BY <1>2, <2>1, <2>2
  <2>. QED
    BY <2>3
<1>11. f[n] = AllTaken(edges, fetchable)
  BY <1>8
<1> HIDE DEF f
<1>. QED
  BY <1>1, <1>9, <1>10, <1>11 DEF TakenUpTo

Lengths(edges) == [i \in DOMAIN edges |-> edges[i].length]

\* A window: an unbroken stretch, short enough.
Stretch(edges, w) ==
    /\ w # <<>> /\ \A i \in 1 .. Len(w) - 1 : w[i + 1] = w[i] + 1
    /\ Len(w) > 1 => SumFunctionOnSet(Lengths(edges), Range(w)) <= WindowKm

Covered(ws) == UNION {Range(w) : w \in Range(ws)}
InOrder(ws) == \A k, l \in DOMAIN ws : k < l =>
                  \A i \in Range(ws[k]), j \in Range(ws[l]) : i < j

\* The windows of the edges up to k.
Windowed(edges, fetchable, k, ws) ==
    /\ ws \in Seq(Seq(Nat))
    /\ Covered(ws) = fetchable \cap (1 .. k)
    /\ InOrder(ws)
    /\ \A w \in Range(ws) : Stretch(edges, w)

LEMMA RangeOfAppend ==
    ASSUME NEW X, NEW s \in Seq(X), NEW x \in X
    PROVE  /\ Range(Append(s, x)) = Range(s) \cup {x}
           /\ Append(s, x) \in Seq(X) /\ Append(s, x) # <<>> /\ Len(Append(s, x)) = Len(s) + 1
           /\ Append(s, x)[Len(s) + 1] = x /\ \A i \in 1 .. Len(s) : Append(s, x)[i] = s[i]
           /\ DOMAIN Append(s, x) = 1 .. Len(s) + 1 /\ DOMAIN s = 1 .. Len(s) /\ Len(s) \in Nat
<1>1. /\ DOMAIN Append(s, x) = 1 .. Len(s) + 1 /\ DOMAIN s = 1 .. Len(s) /\ Len(s) \in Nat
      /\ Append(s, x)[Len(s) + 1] = x /\ \A i \in 1 .. Len(s) : Append(s, x)[i] = s[i]
      /\ Append(s, x) \in Seq(X) /\ Append(s, x) # <<>> /\ Len(Append(s, x)) = Len(s) + 1
  OBVIOUS
<1>2. Range(Append(s, x)) \subseteq Range(s) \cup {x}
  <2>1. ASSUME NEW i \in 1 .. Len(s) + 1 PROVE Append(s, x)[i] \in Range(s) \cup {x}
    <3>1. CASE i = Len(s) + 1
      BY <1>1, <3>1
    <3>2. CASE i \in 1 .. Len(s)
      BY <1>1, <3>2 DEF Range
    <3>. QED
      BY <1>1, <3>1, <3>2
  <2>. QED
    BY <1>1, <2>1 DEF Range
<1>3. Range(s) \cup {x} \subseteq Range(Append(s, x))
  <2>1. x \in Range(Append(s, x))
    <3>1. Len(s) + 1 \in 1 .. Len(s) + 1
      BY <1>1
    <3>. QED
      BY <1>1, <3>1 DEF Range
  <2>2. ASSUME NEW i \in 1 .. Len(s) PROVE s[i] \in Range(Append(s, x))
    <3>1. i \in 1 .. Len(s) + 1
      BY <1>1
    <3>. QED
      BY <1>1, <3>1 DEF Range
  <2>. QED
    BY <1>1, <2>1, <2>2 DEF Range
<1>. QED
  BY <1>1, <1>2, <1>3

LEMMA CoveredByAppend ==
    ASSUME NEW ws \in Seq(Seq(Nat)), NEW w \in Seq(Nat)
    PROVE  Covered(Append(ws, w)) = Covered(ws) \cup Range(w)
<1>1. Range(Append(ws, w)) = Range(ws) \cup {w}
  BY RangeOfAppend
<1>. QED
  BY <1>1 DEF Covered

\* A window put after those before it.
LEMMA InOrderAppend ==
    ASSUME NEW ws \in Seq(Seq(Nat)), NEW w \in Seq(Nat)
    PROVE  InOrder(Append(ws, w)) <=>
             InOrder(ws) /\ \A i \in Covered(ws), j \in Range(w) : i < j
<1>1. /\ DOMAIN Append(ws, w) = 1 .. Len(ws) + 1 /\ DOMAIN ws = 1 .. Len(ws) /\ Len(ws) \in Nat
      /\ Append(ws, w)[Len(ws) + 1] = w /\ \A i \in 1 .. Len(ws) : Append(ws, w)[i] = ws[i]
  BY RangeOfAppend
<1>2. ASSUME InOrder(Append(ws, w))
      PROVE  InOrder(ws) /\ \A i \in Covered(ws), j \in Range(w) : i < j
  <2>1. ASSUME NEW k \in DOMAIN ws, NEW l \in DOMAIN ws, k < l,
               NEW i \in Range(ws[k]), NEW j \in Range(ws[l])
        PROVE  i < j
    <3>1. k \in DOMAIN Append(ws, w) /\ l \in DOMAIN Append(ws, w)
      BY <1>1
    <3>. QED
      BY <1>1, <1>2, <2>1, <3>1 DEF InOrder
  <2>2. ASSUME NEW i \in Covered(ws), NEW j \in Range(w) PROVE i < j
    <3>1. PICK k \in 1 .. Len(ws) : i \in Range(ws[k])
      BY <1>1 DEF Covered, Range
    <3>2. k \in DOMAIN Append(ws, w) /\ Len(ws) + 1 \in DOMAIN Append(ws, w) /\ k < Len(ws) + 1
      BY <1>1
    <3>. QED
      BY <1>1, <1>2, <3>1, <3>2 DEF InOrder
  <2>. QED
    BY <2>1, <2>2 DEF InOrder
<1>3. ASSUME InOrder(ws), \A i \in Covered(ws), j \in Range(w) : i < j
      PROVE  InOrder(Append(ws, w))
  <2>1. SUFFICES ASSUME NEW k \in 1 .. Len(ws) + 1, NEW l \in 1 .. Len(ws) + 1, k < l,
                        NEW i \in Range(Append(ws, w)[k]), NEW j \in Range(Append(ws, w)[l])
                 PROVE  i < j
    BY <1>1 DEF InOrder
  <2>2. k \in 1 .. Len(ws) /\ i \in Range(ws[k])
    BY <1>1, <2>1
  <2>3. CASE l \in 1 .. Len(ws)
    BY <1>1, <1>3, <2>1, <2>2, <2>3 DEF InOrder
  <2>4. CASE l = Len(ws) + 1
    <3>1. ws[k] \in Range(ws)
      BY <1>1, <2>2 DEF Range
    <3>3. i \in Covered(ws)
      BY <2>2, <3>1 DEF Covered
    <3>. QED
      BY <1>1, <1>3, <2>4, <3>3
  <2>. QED
    BY <1>1, <2>3, <2>4
<1>. QED
  BY <1>2, <1>3

\* An edge that no window may hold.
LEMMA WindowSkips ==
    ASSUME NEW edges, NEW fetchable, NEW k \in Nat \ {0}, k \notin fetchable,
           NEW ws, Windowed(edges, fetchable, k - 1, ws)
    PROVE  Windowed(edges, fetchable, k, ws)
<1>1. fetchable \cap (1 .. k - 1) = fetchable \cap (1 .. k)
  OBVIOUS
<1>. QED
  BY <1>1 DEF Windowed

\* A window of one edge is opened.
LEMMA WindowOpens ==
    ASSUME NEW edges, NEW fetchable, NEW k \in Nat \ {0}, k \in fetchable,
           NEW ws, Windowed(edges, fetchable, k - 1, ws)
    PROVE  Windowed(edges, fetchable, k, Append(ws, <<k>>))
<1>1. ws \in Seq(Seq(Nat)) /\ <<k>> \in Seq(Nat) /\ Range(<<k>>) = {k}
  BY DEF Windowed, Range
<1>2. Covered(ws) = fetchable \cap (1 .. k - 1)
  BY DEF Windowed
<1>3. fetchable \cap (1 .. k) = (fetchable \cap (1 .. k - 1)) \cup {k}
  OBVIOUS
<1>4. Covered(Append(ws, <<k>>)) = fetchable \cap (1 .. k)
  BY <1>1, <1>2, <1>3, CoveredByAppend
<1>5. InOrder(Append(ws, <<k>>))
  <2>1. \A i \in Covered(ws) : i < k
    BY <1>2
  <2>. QED
    BY <1>1, <2>1, InOrderAppend DEF Windowed
<1>6. Stretch(edges, <<k>>)
  <2>1. Len(<<k>>) = 1 /\ <<k>> # <<>> /\ 1 .. Len(<<k>>) - 1 = {}
    OBVIOUS
  <2>. QED
    BY <2>1 DEF Stretch
<1>7. \A w \in Range(Append(ws, <<k>>)) : Stretch(edges, w)
  <2>1. \A v \in Seq(Nat) : Range(Append(ws, v)) = Range(ws) \cup {v}
    BY <1>1, RangeOfAppend
  <2>2. Range(Append(ws, <<k>>)) = Range(ws) \cup {<<k>>}
    BY <1>1, <2>1
  <2>. QED
    BY <1>6, <2>2 DEF Windowed
<1>8. Append(ws, <<k>>) \in Seq(Seq(Nat))
  BY <1>1
<1>. QED
  BY <1>4, <1>5, <1>7, <1>8 DEF Windowed

\* The last window is extended.
LEMMA WindowGrows ==
    ASSUME NEW edges \in Seq(RouteEdges), NEW fetchable, NEW k \in 1 .. Len(edges), k \in fetchable,
           NEW ws \in Seq(Seq(Nat)), NEW w \in Seq(Nat), w # <<>>, w[Len(w)] = k - 1,
           Windowed(edges, fetchable, k - 1, Append(ws, w)),
           SumFunctionOnSet(Lengths(edges), Range(w)) + edges[k].length <= WindowKm
    PROVE  Windowed(edges, fetchable, k, Append(ws, Append(w, k)))
<1>1. /\ k \in Nat /\ Len(w) \in Nat /\ Len(w) > 0 /\ Append(w, k) \in Seq(Nat)
      /\ Len(Append(w, k)) = Len(w) + 1 /\ Append(w, k) # <<>> /\ Append(w, k)[Len(w) + 1] = k
      /\ \A i \in 1 .. Len(w) : Append(w, k)[i] = w[i]
  <2>1. k \in Nat /\ Len(w) \in Nat /\ Len(w) > 0
    OBVIOUS
  <2>2. Append(w, k) \in Seq(Nat) /\ Append(w, k) # <<>> /\ Len(Append(w, k)) = Len(w) + 1
    BY <2>1
  <2>3. Append(w, k)[Len(w) + 1] = k
    BY <2>1
  <2>4. \A i \in 1 .. Len(w) : Append(w, k)[i] = w[i]
    BY <2>1
  <2>. QED
    BY <2>1, <2>2, <2>3, <2>4
<1>2. Range(Append(w, k)) = Range(w) \cup {k} /\ Range(Append(ws, w)) = Range(ws) \cup {w}
      /\ Range(Append(ws, Append(w, k))) = Range(ws) \cup {Append(w, k)}
  <2>1. Range(Append(w, k)) = Range(w) \cup {k}
    BY <1>1, RangeOfAppend
  <2>2. \A v \in Seq(Nat) : Range(Append(ws, v)) = Range(ws) \cup {v}
    BY RangeOfAppend
  <2>. QED
    BY <1>1, <2>1, <2>2
<1>3. Covered(Append(ws, w)) = fetchable \cap (1 .. k - 1) /\ Covered(Append(ws, w)) = Covered(ws) \cup Range(w)
  BY CoveredByAppend DEF Windowed
<1>4. Covered(Append(ws, Append(w, k))) = fetchable \cap (1 .. k)
  <2>1. fetchable \cap (1 .. k) = (fetchable \cap (1 .. k - 1)) \cup {k}
    BY <1>1
  <2>2. Covered(Append(ws, Append(w, k))) = Covered(ws) \cup Range(Append(w, k))
    BY <1>1, CoveredByAppend
  <2>. QED
    BY <1>2, <1>3, <2>1, <2>2
<1>5. InOrder(ws) /\ \A i \in Covered(ws), j \in Range(w) : i < j
  BY InOrderAppend DEF Windowed
<1>6. InOrder(Append(ws, Append(w, k)))
  <2>1. \A i \in Covered(ws) : i < k
    BY <1>1, <1>3
  <2>2. \A i \in Covered(ws), j \in Range(Append(w, k)) : i < j
    BY <1>2, <1>5, <2>1
  <2>. QED
    BY <1>1, <1>5, <2>2, InOrderAppend
<1>7. Stretch(edges, w)
  BY <1>2 DEF Windowed
<1>8. k \notin Range(w) /\ Range(w) \subseteq 1 .. k - 1 /\ IsFiniteSet(Range(w))
  <2>1. Range(w) \subseteq 1 .. k - 1
    BY <1>3
  <2>2. IsFiniteSet(1 .. k - 1)
    BY <1>1, FS_Interval
  <2>. QED
    BY <1>1, <2>1, <2>2, FS_Subset
<1>9. SumFunctionOnSet(Lengths(edges), Range(w) \cup {k})
         = SumFunctionOnSet(Lengths(edges), Range(w)) + edges[k].length
  <2>1. \A i \in Range(w) \cup {k} : i \in 1 .. Len(edges)
    BY <1>8
  <2>2. \A i \in 1 .. Len(edges) : Lengths(edges)[i] = edges[i].length /\ edges[i].length \in Int
    <3>1. \A i \in 1 .. Len(edges) : i \in DOMAIN edges /\ edges[i] \in RouteEdges
      OBVIOUS
    <3>. QED
      BY <3>1 DEF Lengths, RouteEdges
  <2>3. \A i \in Range(w) \cup {k} : Lengths(edges)[i] \in Int
    BY <2>1, <2>2
  <2>4. SumFunctionOnSet(Lengths(edges), Range(w) \cup {k})
           = SumFunctionOnSet(Lengths(edges), Range(w)) + Lengths(edges)[k]
    BY <1>8, <2>3, SumAdd
  <2>. QED
    BY <2>2, <2>4
<1>10. Stretch(edges, Append(w, k))
  <2>1. ASSUME NEW i \in 1 .. Len(w) PROVE Append(w, k)[i + 1] = Append(w, k)[i] + 1
    <3>1. CASE i = Len(w)
      BY <1>1, <3>1
    <3>2. CASE i \in 1 .. Len(w) - 1
      <4>1. w[i + 1] = w[i] + 1 /\ i + 1 \in 1 .. Len(w)
        BY <1>7, <1>1, <3>2 DEF Stretch
      <4>. QED
        BY <1>1, <4>1
    <3>. QED
      BY <1>1, <3>1, <3>2
  <2>. QED
    BY <1>1, <1>2, <1>9, <2>1 DEF Stretch
<1>11. \A v \in Range(Append(ws, Append(w, k))) : Stretch(edges, v)
  BY <1>2, <1>10 DEF Windowed
<1>12. Append(ws, Append(w, k)) \in Seq(Seq(Nat))
  BY <1>1
<1>. QED
  BY <1>4, <1>6, <1>11, <1>12 DEF Windowed

\* The windows so far, the open one with them.
Parts(acc) == IF acc.cur = <<>> THEN acc.done ELSE Append(acc.done, acc.cur)

TakenOk(edges, fetchable, k, acc) ==
    /\ acc \in Accs
    /\ Windowed(edges, fetchable, k, Parts(acc))
    /\ acc.km = SumFunctionOnSet(Lengths(edges), Range(acc.cur))
    /\ acc.cur # <<>> => acc.cur[Len(acc.cur)] = k

LEMMA EmptyOk ==
    ASSUME NEW edges, NEW fetchable
    PROVE  TakenOk(edges, fetchable, 0, Empty)
<1>1. Parts(Empty) = <<>> /\ Empty \in Accs /\ Range(Empty.cur) = {} /\ Empty.km = 0 /\ Empty.cur = <<>>
  BY DEF Parts, Empty, Accs, Range
<1>2. Covered(<<>>) = {} /\ InOrder(<<>>) /\ Range(<<>>) = {}
  BY DEF Covered, InOrder, Range
<1>3. fetchable \cap (1 .. 0) = {}
  OBVIOUS
<1>4. Windowed(edges, fetchable, 0, <<>>)
  BY <1>2, <1>3 DEF Windowed
<1>. QED
  BY <1>1, <1>4, SumEmpty DEF TakenOk

LEMMA TakeOk ==
    ASSUME NEW edges \in Seq(RouteEdges), NEW fetchable, NEW k \in 1 .. Len(edges),
           NEW acc, TakenOk(edges, fetchable, k - 1, acc)
    PROVE  TakenOk(edges, fetchable, k, Take(edges, fetchable, acc, k))
<1>1. /\ acc.done \in Seq(Seq(Nat)) /\ acc.cur \in Seq(Nat) /\ acc.km \in Nat
      /\ acc = [done |-> acc.done, cur |-> acc.cur, km |-> acc.km]
      /\ k \in Nat \ {0} /\ acc \in Accs
  BY DEF TakenOk, Accs
<1>2. edges[k].length \in Nat /\ Lengths(edges)[k] = edges[k].length
  <2>1. k \in DOMAIN edges /\ edges[k] \in RouteEdges
    OBVIOUS
  <2>. QED
    BY <2>1 DEF Lengths, RouteEdges
<1>3. SumFunctionOnSet(Lengths(edges), {}) = 0 /\ Range(<<>>) = {}
  BY SumEmpty DEF Range
<1>4. Take(edges, fetchable, acc, k) \in Accs
  BY <1>1, TakeTyped
<1>5. SumFunctionOnSet(Lengths(edges), {k}) = edges[k].length /\ Range(<<k>>) = {k}
  <2>1. SumFunctionOnSet(Lengths(edges), {} \cup {k}) = SumFunctionOnSet(Lengths(edges), {}) + Lengths(edges)[k]
    <3>1. \A i \in {} \cup {k} : Lengths(edges)[i] \in Int
      BY <1>2
    <3>2. IsFiniteSet({}) /\ k \notin {}
      BY FS_EmptySet
    <3>. QED
      BY <3>1, <3>2, SumAdd
  <2>2. Range(<<k>>) = {k}
    BY DEF Range
  <2>. QED
    BY <1>2, <1>3, <2>1, <2>2
<1> DEFINE new == Take(edges, fetchable, acc, k)
<1>6. CASE k \notin fetchable
  <2>1. Parts(new) = Parts(acc) /\ new.cur = <<>> /\ new.km = 0
    <3>1. CASE acc.cur = <<>>
      BY <1>3, <1>6, <3>1 DEF Take, Parts, TakenOk
    <3>2. CASE acc.cur # <<>>
      BY <1>6, <3>2 DEF Take, Parts
    <3>. QED
      BY <3>1, <3>2
  <2>. QED
    BY <1>1, <1>3, <1>4, <1>6, <2>1, WindowSkips DEF TakenOk
<1>7. CASE k \in fetchable /\ (acc.cur = <<>> \/ acc.km + edges[k].length > WindowKm)
  <2>1. new = [done |-> Parts(acc), cur |-> <<k>>, km |-> edges[k].length]
    <3>1. CASE acc.cur = <<>>
      <4>1. acc.km = 0
        BY <1>3, <3>1 DEF TakenOk
      <4>2. Append(acc.cur, k) = <<k>>
        BY <3>1
      <4>3. new = [acc EXCEPT !.cur = Append(@, k), !.km = @ + edges[k].length]
        BY <1>7, <3>1 DEF Take
      <4>4. new = [done |-> acc.done, cur |-> Append(acc.cur, k), km |-> acc.km + edges[k].length]
        BY <1>1, <4>3
      <4>5. acc.km + edges[k].length = edges[k].length
        BY <1>2, <4>1
      <4>. QED
        BY <3>1, <4>2, <4>4, <4>5 DEF Parts
    <3>2. CASE acc.cur # <<>>
      BY <1>7, <3>2 DEF Take, Parts
    <3>. QED
      BY <3>1, <3>2
  <2>2. Parts(new) = Append(Parts(acc), <<k>>) /\ new.cur = <<k>> /\ new.km = edges[k].length
    BY <2>1 DEF Parts
  <2>3. Windowed(edges, fetchable, k, Append(Parts(acc), <<k>>))
    BY <1>1, <1>7, WindowOpens DEF TakenOk
  <2>4. <<k>>[Len(<<k>>)] = k
    OBVIOUS
  <2> HIDE DEF new
  <2>. QED
    BY <1>4, <1>5, <2>2, <2>3, <2>4 DEF TakenOk, new
<1>8. CASE k \in fetchable /\ acc.cur # <<>> /\ ~ acc.km + edges[k].length > WindowKm
  <2>1. new = [done |-> acc.done, cur |-> Append(acc.cur, k), km |-> acc.km + edges[k].length]
    BY <1>1, <1>8 DEF Take
  <2>2. /\ Parts(new) = Append(acc.done, Append(acc.cur, k)) /\ new.cur = Append(acc.cur, k)
        /\ new.km = acc.km + edges[k].length
    <3>1. Append(acc.cur, k) # <<>>
      <4>1. PICK c \in Seq(Nat) : c = acc.cur
        BY <1>1
      <4>2. \A x \in Nat : Append(c, x) # <<>>
        BY RangeOfAppend
      <4>. QED
        BY <1>1, <4>1, <4>2
    <3>. QED
      BY <2>1, <3>1 DEF Parts
  <2>3. acc.km + edges[k].length <= WindowKm
    BY <1>1, <1>2, <1>8, RouteTrafficAssumption
  <2>4. Parts(acc) = Append(acc.done, acc.cur)
    BY <1>8 DEF Parts
  <2>5. Windowed(edges, fetchable, k, Append(acc.done, Append(acc.cur, k)))
    BY <1>1, <1>8, <2>3, <2>4, WindowGrows DEF TakenOk
  <2>6. new.cur[Len(new.cur)] = k
    BY <1>1, <2>2
  <2>7. new.km = SumFunctionOnSet(Lengths(edges), Range(new.cur))
    <3>1. Range(new.cur) = Range(acc.cur) \cup {k}
      <4>1. PICK c \in Seq(Nat), x \in Nat : c = acc.cur /\ x = k
        BY <1>1
      <4>2. Range(Append(c, x)) = Range(c) \cup {x}
        BY RangeOfAppend
      <4> HIDE DEF new
      <4>. QED
        BY <2>2, <4>1, <4>2
    <3>2. Range(acc.cur) \subseteq 1 .. k - 1
      <4>1. Covered(Append(acc.done, acc.cur)) = Covered(acc.done) \cup Range(acc.cur)
        BY <1>1, CoveredByAppend
      <4>. QED
        BY <2>4, <4>1 DEF TakenOk, Windowed
    <3>3. IsFiniteSet(1 .. k - 1)
      <4>1. 1 \in Int /\ k - 1 \in Int
        BY <1>1
      <4>. QED
        BY <4>1, FS_Interval
    <3>4. IsFiniteSet(Range(acc.cur)) /\ k \notin Range(acc.cur)
      BY <1>1, <3>2, <3>3, FS_Subset
    <3>5. \A i \in Range(acc.cur) \cup {k} : Lengths(edges)[i] \in Int
      <4>1. \A i \in 1 .. Len(edges) : i \in DOMAIN edges /\ edges[i] \in RouteEdges
        OBVIOUS
      <4>2. \A i \in Range(acc.cur) \cup {k} : i \in 1 .. Len(edges)
        BY <3>2
      <4>. QED
        BY <4>1, <4>2 DEF Lengths, RouteEdges
    <3>. QED
      BY <1>2, <2>2, <3>1, <3>4, <3>5, SumAdd DEF TakenOk
  <2> HIDE DEF new
  <2>. QED
    BY <1>4, <2>2, <2>5, <2>6, <2>7 DEF TakenOk, new
<1>. QED
  BY <1>6, <1>7, <1>8

(* The windows of any edges in any state of coverage.                      *)
LEMMA WindowFacts ==
    ASSUME NEW edges \in Seq(RouteEdges), NEW fetchable, fetchable \subseteq DOMAIN edges
    PROVE  Windowed(edges, fetchable, Len(edges), Windows(edges, fetchable))
<1>1. PICK f : TakenUpTo(edges, fetchable, f) /\ f[Len(edges)] = AllTaken(edges, fetchable)
  BY TakenStepwise
<1>2. PICK n \in Nat : n = Len(edges)
  OBVIOUS
<1> DEFINE S == {k \in 0 .. n : TakenOk(edges, fetchable, k, f[k])}
<1>3. 0 \in S
  BY <1>1, EmptyOk DEF TakenUpTo
<1>4. ASSUME NEW k \in 1 .. n, k - 1 \in S PROVE k \in S
  <2>1. f[k] = Take(edges, fetchable, f[k - 1], k) /\ TakenOk(edges, fetchable, k - 1, f[k - 1])
    BY <1>1, <1>2, <1>4 DEF TakenUpTo
  <2>. QED
    BY <1>2, <2>1, TakeOk
<1>5. 0 .. n \subseteq S
  <2> HIDE DEF S
  <2>. QED
    BY <1>3, <1>4, UpTo
<1>6. TakenOk(edges, fetchable, n, AllTaken(edges, fetchable))
  BY <1>1, <1>2, <1>5
<1>7. Windows(edges, fetchable) = Parts(AllTaken(edges, fetchable))
  BY WindowsAreTaken DEF Parts
<1>. QED
  BY <1>2, <1>6, <1>7 DEF TakenOk

Levels == {"unknown", "green", "yellow", "orange", "red"}
RunRecs == [from : Nat, to : Nat, level : Levels, live : Nat, free : Nat]

\* The step and the fold of Runs.
Level(e) == Classify(e.live, e.free)
RunOf(e) == [from |-> e.from, to |-> e.to, level |-> Level(e), live |-> e.live, free |-> e.free]
Paint(runs, e) ==
    IF ~ Drawn(e) THEN runs
    ELSE IF runs # <<>> /\ Last(runs).level = Level(e)
           THEN Append(Front(runs), Merged(Last(runs), e))
    ELSE Append(runs, RunOf(e))

Painted(edges, g) ==
    g = [s \in SUBSET DOMAIN edges |->
            IF s = {} THEN <<>> ELSE Paint(g[s \ {Top(s)}], edges[Top(s)])]

LEMMA RunsAreChosen ==
    ASSUME NEW edges
    PROVE  Runs(edges) = (CHOOSE g : Painted(edges, g))[DOMAIN edges]
BY DEF Runs, FoldLeft, MapThenFoldSet, Max, Top, Painted, Paint, RunOf, Level

LEMMA EdgeFacts ==
    ASSUME NEW e \in RouteEdges
    PROVE  /\ e.live \in Nat /\ e.free \in Nat /\ e.length \in Nat
           /\ Level(e) \in Levels
           /\ Drawn(e) => /\ e.from \in Nat /\ e.to \in Nat /\ e.from < e.to
                          /\ RunOf(e) \in RunRecs
<1>1. e.live \in Nat /\ e.free \in Nat /\ e.length \in Nat /\ e.from \in {-1} \cup Nat /\ e.to \in {-1} \cup Nat
  BY DEF RouteEdges
<1>2. Level(e) \in Levels
  BY DEF Level, Classify, Levels
<1>3. ASSUME Drawn(e) PROVE e.from \in Nat /\ e.to \in Nat /\ e.from < e.to
  BY <1>1, <1>3 DEF Drawn
<1>. QED
  BY <1>1, <1>2, <1>3 DEF RunOf, RunRecs

LEMMA MergedFacts ==
    ASSUME NEW run \in RunRecs, NEW e \in RouteEdges, Drawn(e)
    PROVE  /\ Merged(run, e) \in RunRecs
           /\ Merged(run, e).from = run.from /\ Merged(run, e).to = e.to
           /\ Merged(run, e).level = run.level
           /\ Merged(run, e).live = IF e.live # 0 /\ (run.live = 0 \/ e.live < run.live)
                                      THEN e.live ELSE run.live
<1>1. e.live \in Nat /\ e.free \in Nat /\ e.to \in Nat
  BY EdgeFacts
<1>2. run = [from |-> run.from, to |-> run.to, level |-> run.level, live |-> run.live, free |-> run.free]
      /\ run.from \in Nat /\ run.to \in Nat /\ run.level \in Levels /\ run.live \in Nat /\ run.free \in Nat
  BY DEF RunRecs
<1>3. Merged(run, e) = [from |-> run.from, to |-> e.to, level |-> run.level,
                        live |-> IF e.live # 0 /\ (run.live = 0 \/ e.live < run.live) THEN e.live ELSE run.live,
                        free |-> IF e.live # 0 /\ (run.live = 0 \/ e.live < run.live) THEN e.free ELSE run.free]
  BY <1>2 DEF Merged
<1> DEFINE slow == e.live # 0 /\ (run.live = 0 \/ e.live < run.live)
<1>4. (IF slow THEN e.live ELSE run.live) \in Nat /\ (IF slow THEN e.free ELSE run.free) \in Nat
  BY <1>1, <1>2
<1>. QED
  BY <1>1, <1>2, <1>3, <1>4 DEF RunRecs

\* A run put in the place of the last one.
LEMMA LastReplaced ==
    ASSUME NEW X, NEW s \in Seq(X), s # <<>>, NEW x \in X
    PROVE  /\ Append(Front(s), x) \in Seq(X) /\ Len(Append(Front(s), x)) = Len(s) /\ Len(s) \in Nat \ {0}
           /\ \A i \in 1 .. Len(s) : Append(Front(s), x)[i] = IF i = Len(s) THEN x ELSE s[i]
           /\ Last(s) = s[Len(s)] /\ s[Len(s)] \in X
<1> DEFINE r == Append(Front(s), x)
<1>1. Len(s) \in Nat \ {0} /\ Last(s) = s[Len(s)] /\ s[Len(s)] \in X
  BY DEF Last
<1>2. Front(s) = SubSeq(s, 1, Len(s) - 1)
  BY DEF Front
<1>3. /\ Front(s) \in Seq(X) /\ Len(Front(s)) = Len(s) - 1
      /\ \A i \in 1 .. Len(s) - 1 : Front(s)[i] = s[i]
  <2>1. PICK m \in Nat : m = Len(s) - 1
    BY <1>1
  <2>2. \A i \in 1 .. m : s[i] \in X
    BY <2>1
  <2>3. SubSeq(s, 1, m) = [i \in 1 .. m |-> s[i]]
    BY <2>1
  <2>4. Front(s) = [i \in 1 .. m |-> s[i]] /\ Front(s) \in Seq(X)
    BY <1>2, <2>1, <2>2, <2>3
  <2>5. Len(Front(s)) = m
    BY <2>1, <2>4
  <2>. QED
    BY <2>1, <2>4, <2>5
<1>4. /\ r \in Seq(X) /\ Len(r) = Len(s) /\ r[Len(s)] = x
      /\ \A i \in 1 .. Len(s) - 1 : r[i] = Front(s)[i]
  BY <1>1, <1>3, RangeOfAppend
<1>. QED
  BY <1>1, <1>3, <1>4

LEMMA PaintTyped ==
    ASSUME NEW runs \in Seq(RunRecs), NEW e \in RouteEdges
    PROVE  Paint(runs, e) \in Seq(RunRecs)
<1>1. CASE ~ Drawn(e)
  BY <1>1 DEF Paint
<1>2. CASE Drawn(e) /\ runs # <<>> /\ Last(runs).level = Level(e)
  <2>1. Last(runs) \in RunRecs
    BY <1>2 DEF Last
  <2>2. Merged(Last(runs), e) \in RunRecs
    BY <1>2, <2>1, MergedFacts
  <2>. QED
    BY <1>2, <2>2, LastReplaced DEF Paint
<1>3. CASE Drawn(e) /\ ~ (runs # <<>> /\ Last(runs).level = Level(e))
  BY <1>3, EdgeFacts DEF Paint
<1>. QED
  BY <1>1, <1>2, <1>3

PaintedUpTo(edges, f) ==
    /\ f[0] = <<>>
    /\ \A i \in 1 .. Len(edges) : f[i] = Paint(f[i - 1], edges[i])

LEMMA PaintedStepwise ==
    ASSUME NEW edges \in Seq(RouteEdges)
    PROVE  \E f : PaintedUpTo(edges, f) /\ f[Len(edges)] = Runs(edges)
<1>1. PICK n \in Nat : n = Len(edges) /\ DOMAIN edges = 1 .. n
  OBVIOUS
<1>2. \A i \in 1 .. n : edges[i] \in RouteEdges
  BY <1>1
<1> DEFINE X == Seq(RunRecs)
           st == [p \in X \X (1 .. n) |-> Paint(p[1], edges[p[2]])]
<1>3. StepsOn(X, n, st)
  BY <1>2, PaintTyped DEF StepsOn
<1>4. \A runs \in X, i \in 1 .. n : st[<<runs, i>>] = Paint(runs, edges[i])
  OBVIOUS
<1>5. <<>> \in X
  OBVIOUS
<1> HIDE DEF X, st
<1>6. PICK g \in [SUBSET (1 .. n) -> X] : Folds(st, <<>>, n, g)
  BY <1>3, <1>5, FoldsExist
<1>7. Painted(edges, g)
  <2>1. ASSUME NEW s \in SUBSET (1 .. n)
        PROVE  g[s] = IF s = {} THEN <<>> ELSE Paint(g[s \ {Top(s)}], edges[Top(s)])
    <3>1. CASE s = {}
      BY <1>6, <3>1 DEF Folds
    <3>2. CASE s # {}
      <4>1. Top(s) \in 1 .. n
        BY <3>2, TopFacts
      <4>2. g[s] = st[<<g[s \ {Top(s)}], Top(s)>>] /\ g[s \ {Top(s)}] \in X
        BY <1>6, <3>2 DEF Folds
      <4>. QED
        BY <1>4, <3>2, <4>1, <4>2
    <3>. QED
      BY <3>1, <3>2
  <2>. QED
    BY <1>1, <1>6, <2>1 DEF Painted, Folds
<1>8. PICK h : Painted(edges, h) /\ Runs(edges) = h[1 .. n]
  BY <1>1, <1>7, RunsAreChosen
<1> DEFINE f == [k \in 0 .. n |-> h[1 .. k]]
<1>9. f[0] = <<>>
  <2>1. 1 .. 0 = {}
    OBVIOUS
  <2>. QED
    BY <1>1, <1>8, <2>1 DEF Painted
<1>10. ASSUME NEW i \in 1 .. n PROVE f[i] = Paint(f[i - 1], edges[i])
  <2>1. /\ 1 .. i \in SUBSET (1 .. n) /\ 1 .. i # {}
        /\ Top(1 .. i) = i /\ (1 .. i) \ {i} = 1 .. i - 1
    BY PrefixFacts
  <2>2. h[1 .. i] = Paint(h[(1 .. i) \ {Top(1 .. i)}], edges[Top(1 .. i)])
    BY <1>1, <1>8, <2>1 DEF Painted
  <2>3. h[1 .. i] = Paint(h[1 .. i - 1], edges[i])
    BY <2>1, <2>2
  <2>. QED
    BY <2>3
<1>11. f[n] = Runs(edges)
  BY <1>8
<1> HIDE DEF f
<1>. QED
  BY <1>1, <1>9, <1>10, <1>11 DEF PaintedUpTo

\* The edges that are drawn, of the first k; those a run covers.
DrawnUpTo(edges, k) == {edges[i] : i \in {j \in 1 .. k : Drawn(edges[j])}}
Within(edges, k, run) == {e \in DrawnUpTo(edges, k) : run.from <= e.from /\ e.to <= run.to}

\* v is the least of the speeds of es, those that are known.
Slowest(es, v) ==
    \/ v = 0 /\ \A e \in es : e.live = 0
    \/ v # 0 /\ (\E e \in es : e.live = v) /\ \A e \in es : e.live # 0 => v <= e.live

InShapeOrder(edges) ==
    \A i, j \in DOMAIN edges :
        i < j /\ Drawn(edges[i]) /\ Drawn(edges[j]) => edges[i].to <= edges[j].from

\* One after the other, each of some length.
Aligned(runs) ==
    /\ \A i \in DOMAIN runs : runs[i].from < runs[i].to
    /\ \A i, j \in DOMAIN runs : i < j => runs[i].to <= runs[j].from
Alternate(runs) == \A i \in 1 .. Len(runs) - 1 : runs[i].level # runs[i + 1].level
Shown(edges, k, runs) ==
    \A e \in DrawnUpTo(edges, k) : \E i \in DOMAIN runs :
        runs[i].from <= e.from /\ e.to <= runs[i].to /\ runs[i].level = Level(e)
Slow(edges, k, runs) == \A i \in DOMAIN runs : Slowest(Within(edges, k, runs[i]), runs[i].live)
EndsDrawn(edges, k, runs) ==
    \A i \in DOMAIN runs : \E e \in DrawnUpTo(edges, k) : runs[i].to = e.to

PaintedOk(edges, k, runs) ==
    /\ runs \in Seq(RunRecs)
    /\ Aligned(runs) /\ Alternate(runs)
    /\ Shown(edges, k, runs) /\ Slow(edges, k, runs) /\ EndsDrawn(edges, k, runs)

LEMMA DrawnFacts ==
    ASSUME NEW edges \in Seq(RouteEdges), NEW k \in 1 .. Len(edges)
    PROVE  /\ DrawnUpTo(edges, k) = DrawnUpTo(edges, k - 1)
                                       \cup (IF Drawn(edges[k]) THEN {edges[k]} ELSE {})
           /\ \A e \in DrawnUpTo(edges, k) :
                 e \in RouteEdges /\ Drawn(e) /\ e.from \in Nat /\ e.to \in Nat /\ e.from < e.to /\ e.live \in Nat
           /\ InShapeOrder(edges) /\ Drawn(edges[k]) =>
                 \A e \in DrawnUpTo(edges, k - 1) : e.to <= edges[k].from
<1>1. 1 .. k = (1 .. k - 1) \cup {k} /\ \A i \in 1 .. k : i \in DOMAIN edges /\ edges[i] \in RouteEdges
  OBVIOUS
<1>2. DrawnUpTo(edges, k) = DrawnUpTo(edges, k - 1) \cup (IF Drawn(edges[k]) THEN {edges[k]} ELSE {})
  BY <1>1 DEF DrawnUpTo
<1>3. ASSUME NEW e \in DrawnUpTo(edges, k)
      PROVE  e \in RouteEdges /\ Drawn(e) /\ e.from \in Nat /\ e.to \in Nat /\ e.from < e.to /\ e.live \in Nat
  <2>1. e \in RouteEdges /\ Drawn(e)
    BY <1>1 DEF DrawnUpTo
  <2>. QED
    BY <2>1, EdgeFacts
<1>4. ASSUME InShapeOrder(edges), Drawn(edges[k]), NEW e \in DrawnUpTo(edges, k - 1)
      PROVE  e.to <= edges[k].from
  <2>1. PICK j \in 1 .. k - 1 : e = edges[j] /\ Drawn(edges[j])
    BY DEF DrawnUpTo
  <2>2. j < k /\ j \in DOMAIN edges /\ k \in DOMAIN edges
    BY <1>1
  <2>. QED
    BY <1>4, <2>1, <2>2 DEF InShapeOrder
<1>. QED
  BY <1>2, <1>3, <1>4

LEMMA NothingPainted ==
    ASSUME NEW edges
    PROVE  PaintedOk(edges, 0, <<>>)
<1>1. DrawnUpTo(edges, 0) = {} /\ DOMAIN <<>> = {} /\ 1 .. Len(<<>>) - 1 = {} /\ <<>> \in Seq(RunRecs)
  BY DEF DrawnUpTo
<1>. QED
  BY <1>1 DEF PaintedOk, Aligned, Alternate, Shown, Slow, EndsDrawn

\* Every drawn edge so far ends where the last run does, or before.
LEMMA RunsEndLast ==
    ASSUME NEW edges, NEW k, NEW runs, PaintedOk(edges, k, runs), runs # <<>>,
           \A e \in DrawnUpTo(edges, k) : e.from \in Nat /\ e.to \in Nat
    PROVE  /\ Len(runs) \in DOMAIN runs
           /\ \A i \in DOMAIN runs : /\ runs[i] \in RunRecs /\ runs[i].from \in Nat /\ runs[i].to \in Nat
                                     /\ runs[i].live \in Nat /\ runs[i].level \in Levels
                                     /\ runs[i].to <= runs[Len(runs)].to
           /\ \A e \in DrawnUpTo(edges, k) : e.to <= runs[Len(runs)].to
<1>1. runs \in Seq(RunRecs) /\ Len(runs) \in DOMAIN runs /\ DOMAIN runs = 1 .. Len(runs)
  BY DEF PaintedOk
<1>2. ASSUME NEW i \in DOMAIN runs
      PROVE  /\ runs[i] \in RunRecs /\ runs[i].from \in Nat /\ runs[i].to \in Nat
             /\ runs[i].live \in Nat /\ runs[i].level \in Levels
  <2>1. runs[i] \in RunRecs
    BY <1>1
  <2>. QED
    BY <2>1 DEF RunRecs
<1>3. ASSUME NEW i \in DOMAIN runs PROVE runs[i].to <= runs[Len(runs)].to
  <2>1. CASE i = Len(runs)
    BY <1>2, <2>1
  <2>2. CASE i < Len(runs)
    <3>1. runs[i].to <= runs[Len(runs)].from /\ runs[Len(runs)].from < runs[Len(runs)].to
      BY <1>1, <2>2 DEF PaintedOk, Aligned
    <3>. QED
      BY <1>1, <1>2, <3>1
  <2>. QED
    BY <1>1, <2>1, <2>2
<1>4. ASSUME NEW e \in DrawnUpTo(edges, k) PROVE e.to <= runs[Len(runs)].to
  <2>1. PICK i \in DOMAIN runs : e.to <= runs[i].to
    BY DEF PaintedOk, Shown
  <2>. QED
    BY <1>1, <1>2, <1>3, <2>1
<1>. QED
  BY <1>1, <1>2, <1>3, <1>4

\* An edge that begins where the runs end, or later, is in none of them.
LEMMA WithinBefore ==
    ASSUME NEW edges \in Seq(RouteEdges), NEW k \in 1 .. Len(edges), Drawn(edges[k]),
           NEW run, run.to \in Nat, run.to <= edges[k].from
    PROVE  Within(edges, k, run) = Within(edges, k - 1, run)
<1>1. DrawnUpTo(edges, k) = DrawnUpTo(edges, k - 1) \cup {edges[k]}
  BY DrawnFacts
<1>2. edges[k].from \in Nat /\ edges[k].to \in Nat /\ edges[k].from < edges[k].to
  <2>1. edges[k] \in RouteEdges
    OBVIOUS
  <2>. QED
    BY <2>1, EdgeFacts
<1>. QED
  BY <1>1, <1>2 DEF Within

\* An edge that is not drawn.
LEMMA PaintSkips ==
    ASSUME NEW edges \in Seq(RouteEdges), NEW k \in 1 .. Len(edges), ~ Drawn(edges[k]),
           NEW runs, PaintedOk(edges, k - 1, runs)
    PROVE  PaintedOk(edges, k, runs)
<1>1. DrawnUpTo(edges, k) = DrawnUpTo(edges, k - 1)
  <2>1. DrawnUpTo(edges, k) = DrawnUpTo(edges, k - 1) \cup (IF Drawn(edges[k]) THEN {edges[k]} ELSE {})
    BY DrawnFacts
  <2>. QED
    BY <2>1
<1>. QED
  BY <1>1 DEF PaintedOk, Shown, Slow, EndsDrawn, Within

\* A run of one edge after those there are.
LEMMA PaintOpens ==
    ASSUME NEW edges \in Seq(RouteEdges), InShapeOrder(edges),
           NEW k \in 1 .. Len(edges), Drawn(edges[k]),
           NEW runs, PaintedOk(edges, k - 1, runs),
           runs = <<>> \/ runs[Len(runs)].level # Level(edges[k])
    PROVE  PaintedOk(edges, k, Append(runs, RunOf(edges[k])))
<1> DEFINE new == Append(runs, RunOf(edges[k]))
<1>1. PICK e \in RouteEdges : e = edges[k]
  OBVIOUS
<1>2. /\ e.from \in Nat /\ e.to \in Nat /\ e.from < e.to /\ e.live \in Nat
      /\ RunOf(e) \in RunRecs /\ RunOf(e).from = e.from /\ RunOf(e).to = e.to
      /\ RunOf(e).level = Level(e) /\ RunOf(e).live = e.live
  BY <1>1, EdgeFacts DEF RunOf
<1>3. /\ DrawnUpTo(edges, k) = DrawnUpTo(edges, k - 1) \cup {e}
      /\ \A d \in DrawnUpTo(edges, k) : d.from \in Nat /\ d.to \in Nat /\ d.from < d.to /\ d.live \in Nat
      /\ \A d \in DrawnUpTo(edges, k - 1) : d.to <= e.from
  BY <1>1, DrawnFacts
<1>4. runs \in Seq(RunRecs)
  BY DEF PaintedOk
<1>5. /\ new \in Seq(RunRecs) /\ DOMAIN new = 1 .. Len(runs) + 1 /\ DOMAIN runs = 1 .. Len(runs)
      /\ Len(runs) \in Nat /\ new[Len(runs) + 1] = RunOf(e) /\ Len(new) = Len(runs) + 1
      /\ \A i \in 1 .. Len(runs) : new[i] = runs[i]
  BY <1>1, <1>2, <1>4, RangeOfAppend
<1>6. ASSUME NEW i \in 1 .. Len(runs)
      PROVE  /\ runs[i].from \in Nat /\ runs[i].to \in Nat /\ runs[i].to <= e.from
             /\ runs[i].from < runs[i].to
  <2>1. runs[i] \in RunRecs
    BY <1>4, <1>5
  <2>2. PICK d \in DrawnUpTo(edges, k - 1) : runs[i].to = d.to
    BY <1>5 DEF PaintedOk, EndsDrawn
  <2>3. runs[i].from < runs[i].to
    BY <1>5 DEF PaintedOk, Aligned
  <2>. QED
    BY <1>3, <2>1, <2>2, <2>3 DEF RunRecs
<1> HIDE DEF new
<1>7. Aligned(new)
  <2>1. ASSUME NEW i \in 1 .. Len(runs) + 1 PROVE new[i].from < new[i].to
    <3>1. CASE i = Len(runs) + 1
      BY <1>2, <1>5, <3>1
    <3>2. CASE i \in 1 .. Len(runs)
      BY <1>5, <1>6, <3>2
    <3>. QED
      BY <1>5, <3>1, <3>2
  <2>2. ASSUME NEW i \in 1 .. Len(runs) + 1, NEW j \in 1 .. Len(runs) + 1, i < j
        PROVE  new[i].to <= new[j].from
    <3>1. i \in 1 .. Len(runs)
      BY <1>5, <2>2
    <3>2. CASE j = Len(runs) + 1
      BY <1>2, <1>5, <1>6, <3>1, <3>2
    <3>3. CASE j \in 1 .. Len(runs)
      BY <1>5, <2>2, <3>1, <3>3 DEF PaintedOk, Aligned
    <3>. QED
      BY <1>5, <3>2, <3>3
  <2>. QED
    BY <1>5, <2>1, <2>2 DEF Aligned
<1>8. Alternate(new)
  <2>1. ASSUME NEW i \in 1 .. Len(runs) PROVE new[i].level # new[i + 1].level
    <3>1. CASE i = Len(runs)
      <4>1. runs # <<>>
        BY <1>5
      <4>. QED
        BY <1>1, <1>2, <1>5, <3>1, <4>1
    <3>2. CASE i \in 1 .. Len(runs) - 1
      <4>1. i + 1 \in 1 .. Len(runs) /\ runs[i].level # runs[i + 1].level
        BY <1>5, <3>2 DEF PaintedOk, Alternate
      <4>. QED
        BY <1>5, <4>1
    <3>3. i = Len(runs) \/ i \in 1 .. Len(runs) - 1
      OBVIOUS
    <3>. QED
      BY <3>1, <3>2, <3>3
  <2>. QED
    BY <1>5, <2>1 DEF Alternate
<1>9. Shown(edges, k, new)
  <2>1. ASSUME NEW d \in DrawnUpTo(edges, k)
        PROVE  \E i \in DOMAIN new : new[i].from <= d.from /\ d.to <= new[i].to /\ new[i].level = Level(d)
    <3>1. CASE d = e
      <4>1. PICK i \in DOMAIN new : new[i] = RunOf(e)
        BY <1>5
      <4> HIDE DEF new
      <4>2. new[i].from = e.from /\ new[i].to = e.to /\ new[i].level = Level(e)
        BY <1>2, <4>1
      <4>3. new[i].from <= e.from /\ e.to <= new[i].to
        BY <1>2, <4>2
      <4>. QED
        BY <3>1, <4>2, <4>3
    <3>2. CASE d \in DrawnUpTo(edges, k - 1)
      <4>1. PICK i \in 1 .. Len(runs) :
               runs[i].from <= d.from /\ d.to <= runs[i].to /\ runs[i].level = Level(d)
        BY <1>5, <3>2 DEF PaintedOk, Shown
      <4>2. i \in DOMAIN new /\ new[i] = runs[i]
        BY <1>5
      <4>. QED
        BY <4>1, <4>2
    <3>. QED
      BY <1>3, <3>1, <3>2
  <2>. QED
    BY <2>1 DEF Shown
<1>10. Slow(edges, k, new)
  <2>1. Within(edges, k, RunOf(e)) = {e}
    <3>1. ASSUME NEW d \in DrawnUpTo(edges, k - 1) PROVE ~ e.from <= d.from
      <4>1. d.to <= e.from /\ d.from < d.to /\ d.from \in Nat /\ d.to \in Nat
        BY <1>3
      <4>. QED
        BY <1>2, <4>1
    <3>. QED
      BY <1>2, <1>3, <3>1 DEF Within
  <2>2. Slowest(Within(edges, k, RunOf(e)), RunOf(e).live)
    BY <1>2, <2>1 DEF Slowest
  <2>3. ASSUME NEW i \in 1 .. Len(runs) PROVE Slowest(Within(edges, k, runs[i]), runs[i].live)
    <3>1. Within(edges, k, runs[i]) = Within(edges, k - 1, runs[i])
      BY <1>1, <1>6, WithinBefore
    <3>. QED
      BY <1>5, <3>1 DEF PaintedOk, Slow
  <2>4. ASSUME NEW i \in 1 .. Len(runs) + 1 PROVE Slowest(Within(edges, k, new[i]), new[i].live)
    <3>1. CASE i = Len(runs) + 1
      BY <1>5, <2>2, <3>1
    <3>2. CASE i \in 1 .. Len(runs)
      BY <1>5, <2>3, <3>2
    <3>. QED
      BY <1>5, <3>1, <3>2
  <2>. QED
    BY <1>5, <2>4 DEF Slow
<1>11. EndsDrawn(edges, k, new)
  <2>1. ASSUME NEW i \in 1 .. Len(runs) + 1 PROVE \E d \in DrawnUpTo(edges, k) : new[i].to = d.to
    <3>1. CASE i = Len(runs) + 1
      BY <1>2, <1>3, <1>5, <3>1
    <3>2. CASE i \in 1 .. Len(runs)
      <4>1. PICK d \in DrawnUpTo(edges, k - 1) : runs[i].to = d.to
        BY <1>5, <3>2 DEF PaintedOk, EndsDrawn
      <4>. QED
        BY <1>3, <1>5, <3>2, <4>1
    <3>. QED
      BY <1>5, <3>1, <3>2
  <2>. QED
    BY <1>5, <2>1 DEF EndsDrawn
<1>12. PaintedOk(edges, k, new)
  BY <1>5, <1>7, <1>8, <1>9, <1>10, <1>11 DEF PaintedOk
<1>. QED
  BY <1>12 DEF new

\* The last run goes on with an edge of its level.
LEMMA PaintExtends ==
    ASSUME NEW edges \in Seq(RouteEdges), InShapeOrder(edges),
           NEW k \in 1 .. Len(edges), Drawn(edges[k]),
           NEW runs, PaintedOk(edges, k - 1, runs), runs # <<>>,
           runs[Len(runs)].level = Level(edges[k]),
           NEW new, new = Append(Front(runs), Merged(Last(runs), edges[k]))
    PROVE  PaintedOk(edges, k, new)
<1>1. PICK e \in RouteEdges : e = edges[k]
  OBVIOUS
<1>2. e.from \in Nat /\ e.to \in Nat /\ e.from < e.to /\ e.live \in Nat /\ Drawn(e)
  BY <1>1, EdgeFacts
<1>3. /\ DrawnUpTo(edges, k) = DrawnUpTo(edges, k - 1) \cup {e}
      /\ \A d \in DrawnUpTo(edges, k) : d.from \in Nat /\ d.to \in Nat /\ d.from < d.to /\ d.live \in Nat
      /\ \A d \in DrawnUpTo(edges, k - 1) : d.to <= e.from
  BY <1>1, DrawnFacts
<1>4. runs \in Seq(RunRecs) /\ DOMAIN runs = 1 .. Len(runs)
  BY DEF PaintedOk
<1>5. PICK n \in Nat \ {0} : n = Len(runs)
  <2>1. Len(runs) \in Nat /\ Len(runs) # 0
    BY <1>4
  <2>. QED
    BY <2>1
<1>6. /\ n \in DOMAIN runs
      /\ \A i \in DOMAIN runs : /\ runs[i] \in RunRecs /\ runs[i].from \in Nat /\ runs[i].to \in Nat
                                /\ runs[i].live \in Nat /\ runs[i].level \in Levels
                                /\ runs[i].to <= runs[n].to
      /\ \A d \in DrawnUpTo(edges, k - 1) : d.to <= runs[n].to
  <2>1. \A d \in DrawnUpTo(edges, k - 1) : d.from \in Nat /\ d.to \in Nat
    BY <1>3
  <2>. QED
    BY <1>5, <2>1, RunsEndLast
<1>7. PICK run \in RunRecs : run = runs[n]
  BY <1>6
<1>8. PICK merged \in RunRecs : merged = Merged(run, e)
  BY <1>2, MergedFacts
<1>9. /\ merged.from = run.from /\ merged.to = e.to /\ merged.level = run.level
      /\ merged.live = IF e.live # 0 /\ (run.live = 0 \/ e.live < run.live) THEN e.live ELSE run.live
  <2>1. /\ Merged(run, e).from = run.from /\ Merged(run, e).to = e.to /\ Merged(run, e).level = run.level
        /\ Merged(run, e).live = IF e.live # 0 /\ (run.live = 0 \/ e.live < run.live) THEN e.live ELSE run.live
    BY <1>2, MergedFacts
  <2>. QED
    BY <1>8, <2>1, Zenon
<1>10. /\ new \in Seq(RunRecs) /\ Len(new) = n /\ DOMAIN new = 1 .. n /\ DOMAIN runs = 1 .. n
       /\ \A i \in 1 .. n : new[i] = IF i = n THEN merged ELSE runs[i]
  <2>1. Last(runs) = run
    BY <1>5, <1>7 DEF Last
  <2>2. new = Append(Front(runs), merged)
    BY <1>1, <1>8, <2>1
  <2>3. /\ new \in Seq(RunRecs) /\ Len(new) = Len(runs)
        /\ \A i \in 1 .. Len(runs) : new[i] = IF i = Len(runs) THEN merged ELSE runs[i]
    <3>1. runs \in Seq(RunRecs) /\ runs # <<>> /\ merged \in RunRecs
      BY <1>4
    <3>2. /\ Append(Front(runs), merged) \in Seq(RunRecs)
          /\ Len(Append(Front(runs), merged)) = Len(runs)
      BY <3>1, LastReplaced
    <3>3. \A i \in 1 .. Len(runs) : Append(Front(runs), merged)[i] = IF i = Len(runs) THEN merged ELSE runs[i]
      BY <3>1, LastReplaced
    <3>. QED
      BY <2>2, <3>2, <3>3
  <2>4. new \in Seq(RunRecs) /\ Len(new) = n
    BY <1>5, <2>3
  <2>5. DOMAIN new = 1 .. n
    BY <2>4
  <2>. QED
    BY <1>4, <1>5, <2>3, <2>5, Zenon
<1>11. run.to <= e.from /\ run.from < run.to /\ run.from \in Nat /\ run.to \in Nat /\ run.live \in Nat
       /\ run.level = Level(e)
  <2>1. PICK d \in DrawnUpTo(edges, k - 1) : run.to = d.to
    BY <1>6, <1>7 DEF PaintedOk, EndsDrawn
  <2>2. run.from < run.to
    BY <1>6, <1>7 DEF PaintedOk, Aligned
  <2>. QED
    BY <1>1, <1>3, <1>5, <1>6, <1>7, <2>1, <2>2
<1>12. Aligned(new)
  <2>1. ASSUME NEW i \in 1 .. n PROVE new[i].from < new[i].to
    <3>1. CASE i = n
      BY <1>2, <1>9, <1>10, <1>11, <3>1
    <3>2. CASE i # n
      BY <1>10, <3>2 DEF PaintedOk, Aligned
    <3>. QED
      BY <3>1, <3>2
  <2>2. ASSUME NEW i \in 1 .. n, NEW j \in 1 .. n, i < j PROVE new[i].to <= new[j].from
    <3>1. runs[i].to <= runs[j].from /\ i # n
      BY <1>10, <2>2 DEF PaintedOk, Aligned
    <3>2. new[j].from = runs[j].from
      BY <1>7, <1>9, <1>10
    <3>. QED
      BY <1>10, <3>1, <3>2
  <2>. QED
    BY <1>10, <2>1, <2>2 DEF Aligned
<1>13. Alternate(new)
  <2>1. \A i \in 1 .. n : new[i].level = runs[i].level
    BY <1>7, <1>9, <1>10
  <2>2. ASSUME NEW i \in 1 .. n - 1 PROVE new[i].level # new[i + 1].level
    <3>1. i \in 1 .. n /\ i + 1 \in 1 .. n /\ runs[i].level # runs[i + 1].level
      BY <1>5 DEF PaintedOk, Alternate
    <3>. QED
      BY <2>1, <3>1
  <2>. QED
    BY <1>10, <2>2 DEF Alternate
<1>14. Shown(edges, k, new)
  <2>1. ASSUME NEW d \in DrawnUpTo(edges, k)
        PROVE  \E i \in DOMAIN new : new[i].from <= d.from /\ d.to <= new[i].to /\ new[i].level = Level(d)
    <3>1. CASE d = e
      <4>1. n \in DOMAIN new /\ new[n] = merged
        BY <1>10
      <4>2. merged.from <= e.from /\ e.to <= merged.to /\ merged.level = Level(e)
        BY <1>2, <1>9, <1>11
      <4>. QED
        BY <3>1, <4>1, <4>2
    <3>2. CASE d \in DrawnUpTo(edges, k - 1)
      <4>1. PICK i \in 1 .. n : runs[i].from <= d.from /\ d.to <= runs[i].to /\ runs[i].level = Level(d)
        BY <1>10, <3>2 DEF PaintedOk, Shown
      <4>2. CASE i # n
        BY <1>10, <4>1, <4>2
      <4>3. CASE i = n
        <5>1. d.to <= e.to
          BY <1>2, <1>3, <3>2
        <5>2. new[n] = merged /\ n \in DOMAIN new
          BY <1>10
        <5>. QED
          BY <1>7, <1>9, <4>1, <4>3, <5>1, <5>2
      <4>. QED
        BY <4>2, <4>3
    <3>. QED
      BY <1>3, <3>1, <3>2
  <2>. QED
    BY <2>1 DEF Shown
<1>15. Slow(edges, k, new)
  <2>1. Within(edges, k, merged) = Within(edges, k - 1, run) \cup {e}
    <3>1. ASSUME NEW d \in DrawnUpTo(edges, k - 1) PROVE d.to <= run.to /\ d.to <= e.to
      BY <1>2, <1>3, <1>6, <1>7
    <3>2. merged.from <= e.from /\ e.to <= merged.to
      BY <1>2, <1>9, <1>11
    <3>. QED
      BY <1>3, <1>9, <3>1, <3>2 DEF Within
  <2>2. Slowest(Within(edges, k - 1, run), run.live)
    BY <1>6, <1>7 DEF PaintedOk, Slow
  <2>3. \A d \in Within(edges, k - 1, run) : d.live \in Nat
    BY <1>3 DEF Within
  <2>4. Slowest(Within(edges, k, merged), merged.live)
    <3>1. CASE e.live # 0 /\ (run.live = 0 \/ e.live < run.live)
      BY <1>2, <1>9, <1>11, <2>1, <2>2, <2>3, <3>1 DEF Slowest
    <3>2. CASE ~ (e.live # 0 /\ (run.live = 0 \/ e.live < run.live))
      BY <1>2, <1>9, <1>11, <2>1, <2>2, <2>3, <3>2 DEF Slowest
    <3>. QED
      BY <3>1, <3>2
  <2>5. ASSUME NEW i \in 1 .. n, i # n PROVE Slowest(Within(edges, k, runs[i]), runs[i].live)
    <3>1. runs[i].to <= e.from
      <4>1. PICK x \in Nat : x = runs[i].to /\ x <= run.to
        BY <1>6, <1>7, <1>10
      <4>2. x <= e.from
        BY <1>2, <1>11, <4>1
      <4>. QED
        BY <4>1, <4>2
    <3>2. Within(edges, k, runs[i]) = Within(edges, k - 1, runs[i])
      BY <1>1, <1>2, <1>6, <1>10, <3>1, WithinBefore
    <3>. QED
      BY <1>10, <3>2 DEF PaintedOk, Slow
  <2>6. ASSUME NEW i \in 1 .. n PROVE Slowest(Within(edges, k, new[i]), new[i].live)
    BY <1>10, <2>4, <2>5
  <2>. QED
    BY <1>10, <2>6 DEF Slow
<1>16. EndsDrawn(edges, k, new)
  <2>1. ASSUME NEW i \in 1 .. n PROVE \E d \in DrawnUpTo(edges, k) : new[i].to = d.to
    <3>1. CASE i = n
      BY <1>3, <1>9, <1>10, <3>1
    <3>2. CASE i # n
      <4>1. PICK d \in DrawnUpTo(edges, k - 1) : runs[i].to = d.to
        BY <1>10 DEF PaintedOk, EndsDrawn
      <4>. QED
        BY <1>3, <1>10, <3>2, <4>1
    <3>. QED
      BY <3>1, <3>2
  <2>. QED
    BY <1>10, <2>1 DEF EndsDrawn
<1>. QED
  BY <1>10, <1>12, <1>13, <1>14, <1>15, <1>16 DEF PaintedOk

(* The runs of any edges that are in the order of the shape.               *)
LEMMA RunFacts ==
    ASSUME NEW edges \in Seq(RouteEdges), InShapeOrder(edges)
    PROVE  PaintedOk(edges, Len(edges), Runs(edges))
<1>1. PICK f : PaintedUpTo(edges, f) /\ f[Len(edges)] = Runs(edges)
  BY PaintedStepwise
<1>2. PICK n \in Nat : n = Len(edges)
  OBVIOUS
<1> DEFINE S == {k \in 0 .. n : PaintedOk(edges, k, f[k])}
<1>3. 0 \in S
  BY <1>1, NothingPainted DEF PaintedUpTo
<1>4. ASSUME NEW k \in 1 .. n, k - 1 \in S PROVE k \in S
  <2>1. f[k] = Paint(f[k - 1], edges[k]) /\ PaintedOk(edges, k - 1, f[k - 1])
    BY <1>1, <1>2, <1>4 DEF PaintedUpTo
  <2>2. PICK runs : runs = f[k - 1]
    OBVIOUS
  <2>3. CASE ~ Drawn(edges[k])
    BY <1>2, <2>1, <2>3, PaintSkips DEF Paint
  <2>4. CASE Drawn(edges[k]) /\ runs # <<>> /\ runs[Len(runs)].level = Level(edges[k])
    <3>1. f[k] = Append(Front(runs), Merged(Last(runs), edges[k]))
      BY <2>1, <2>2, <2>4 DEF Paint, Last
    <3>2. PaintedOk(edges, k - 1, runs) /\ k \in 1 .. Len(edges)
      BY <1>2, <2>1, <2>2
    <3>3. PaintedOk(edges, k, f[k])
      BY <2>4, <3>1, <3>2, PaintExtends
    <3>. QED
      BY <3>3
  <2>5. CASE Drawn(edges[k]) /\ ~ (runs # <<>> /\ runs[Len(runs)].level = Level(edges[k]))
    <3>1. f[k] = Append(runs, RunOf(edges[k]))
      BY <2>1, <2>2, <2>5 DEF Paint, Last
    <3>. QED
      <4>1. PaintedOk(edges, k - 1, runs) /\ k \in 1 .. Len(edges) /\ Drawn(edges[k])
        BY <1>2, <2>1, <2>2, <2>5
      <4>2. runs = <<>> \/ runs[Len(runs)].level # Level(edges[k])
        BY <2>5
      <4>3. PaintedOk(edges, k, Append(runs, RunOf(edges[k])))
        BY <4>1, <4>2, PaintOpens
      <4>4. PaintedOk(edges, k, f[k])
        BY <3>1, <4>3
      <4>. QED
        BY <4>4
  <2>. QED
    BY <2>3, <2>4, <2>5
<1>5. 0 .. n \subseteq S
  <2> HIDE DEF S
  <2>. QED
    BY <1>3, <1>4, UpTo
<1>. QED
  BY <1>1, <1>2, <1>5

(***************************************************************************)
(* The packed speed record.                                                *)
(***************************************************************************)

LEMMA Powers ==
    /\ 2^0 = 1 /\ 2^1 = 2 /\ 2^2 = 4 /\ 2^3 = 8 /\ 2^4 = 16 /\ 2^5 = 32 /\ 2^6 = 64 /\ 2^7 = 128
    /\ \A i \in 1 .. 8 : 2^(i - 1) \in Nat \ {0}
<1>1. 2^0 = 1 /\ 2^1 = 2 /\ 2^2 = 4 /\ 2^3 = 8 /\ 2^4 = 16 /\ 2^5 = 32 /\ 2^6 = 64 /\ 2^7 = 128
  OBVIOUS
<1>2. ASSUME NEW i \in 1 .. 8 PROVE 2^(i - 1) \in Nat \ {0}
  <2>1. PICK k : k = i - 1
    OBVIOUS
  <2>2. k = 0 \/ k = 1 \/ k = 2 \/ k = 3 \/ k = 4 \/ k = 5 \/ k = 6 \/ k = 7
    BY <2>1
  <2>3. 2^k \in {1, 2, 4, 8, 16, 32, 64, 128}
    <3>1. CASE k = 0  BY <1>1, <3>1
    <3>2. CASE k = 1  BY <1>1, <3>2
    <3>3. CASE k = 2  BY <1>1, <3>3
    <3>4. CASE k = 3  BY <1>1, <3>4
    <3>5. CASE k = 4  BY <1>1, <3>5
    <3>6. CASE k = 5  BY <1>1, <3>6
    <3>7. CASE k = 6  BY <1>1, <3>7
    <3>8. CASE k = 7  BY <1>1, <3>8
    <3>. QED
      BY <2>2, <3>1, <3>2, <3>3, <3>4, <3>5, <3>6, <3>7, <3>8
  <2>. QED
    BY <2>1, <2>3
<1>. QED
  BY <1>1, <1>2

LEMMA PowersAt ==
    /\ 2^(1 - 1) = 1 /\ 2^(2 - 1) = 2 /\ 2^(3 - 1) = 4 /\ 2^(4 - 1) = 8
    /\ 2^(5 - 1) = 16 /\ 2^(6 - 1) = 32 /\ 2^(7 - 1) = 64 /\ 2^(8 - 1) = 128
OBVIOUS

LEMMA SevenBits ==
    ASSUME NEW n \in 0 .. 127
    PROVE  ((n \div 1) % 2) * 1 + ((n \div 2) % 2) * 2 + ((n \div 4) % 2) * 4 + ((n \div 8) % 2) * 8
             + ((n \div 16) % 2) * 16 + ((n \div 32) % 2) * 32 + ((n \div 64) % 2) * 64 = n
OBVIOUS

LEMMA BitsFacts ==
    ASSUME NEW n \in Nat, NEW width \in 1 .. 8
    PROVE  /\ Bits(n, width) \in Seq(Int) /\ Len(Bits(n, width)) = width
           /\ DOMAIN Bits(n, width) = 1 .. width
           /\ \A i \in 1 .. width : Bits(n, width)[i] = (n \div 2^(i - 1)) % 2
<1>1. \A i \in 1 .. width : (n \div 2^(i - 1)) % 2 \in Int
  BY Powers
<1>. QED
  BY <1>1 DEF Bits

\* A fold that adds up the terms of a sequence.
Added(term, n, g) ==
    g = [s \in SUBSET (1 .. n) |-> IF s = {} THEN 0 ELSE g[s \ {Top(s)}] + term[Top(s)]]

LEMMA AddedExists ==
    ASSUME NEW n \in Nat, NEW term, \A i \in 1 .. n : term[i] \in Int
    PROVE  \E g : Added(term, n, g)
<1> DEFINE st == [p \in Int \X (1 .. n) |-> p[1] + term[p[2]]]
<1>1. StepsOn(Int, n, st)
  BY DEF StepsOn
<1>2. \A x \in Int, i \in 1 .. n : st[<<x, i>>] = x + term[i]
  OBVIOUS
<1>5. 0 \in Int
  OBVIOUS
<1> HIDE DEF st
<1>3. PICK g \in [SUBSET (1 .. n) -> Int] : Folds(st, 0, n, g)
  BY <1>1, <1>5, FoldsExist
<1>4. ASSUME NEW s \in SUBSET (1 .. n)
      PROVE  g[s] = IF s = {} THEN 0 ELSE g[s \ {Top(s)}] + term[Top(s)]
  <2>1. CASE s = {}
    BY <1>3, <2>1 DEF Folds
  <2>2. CASE s # {}
    <3>1. Top(s) \in 1 .. n
      BY <2>2, TopFacts
    <3>2. g[s] = st[<<g[s \ {Top(s)}], Top(s)>>] /\ g[s \ {Top(s)}] \in Int
      BY <1>3, <2>2 DEF Folds
    <3>. QED
      BY <1>2, <2>2, <3>1, <3>2
  <2>. QED
    BY <2>1, <2>2
<1>. QED
  BY <1>3, <1>4 DEF Added, Folds

LEMMA AddedStep ==
    ASSUME NEW n \in Nat, NEW term, NEW g, Added(term, n, g)
    PROVE  /\ g[1 .. 0] = 0
           /\ \A k \in 1 .. n : g[1 .. k] = g[1 .. k - 1] + term[k]
<1>1. g[1 .. 0] = 0
  <2>1. 1 .. 0 = {} /\ {} \in SUBSET (1 .. n)
    OBVIOUS
  <2>. QED
    BY <2>1 DEF Added
<1>2. ASSUME NEW k \in 1 .. n PROVE g[1 .. k] = g[1 .. k - 1] + term[k]
  <2>1. /\ 1 .. k \in SUBSET (1 .. n) /\ 1 .. k # {}
        /\ Top(1 .. k) = k /\ (1 .. k) \ {k} = 1 .. k - 1
    BY PrefixFacts
  <2>2. g[1 .. k] = g[(1 .. k) \ {Top(1 .. k)}] + term[Top(1 .. k)]
    BY <2>1 DEF Added
  <2>. QED
    BY <2>1, <2>2
<1>. QED
  BY <1>1, <1>2

Weighted(bits) == [i \in DOMAIN bits |-> bits[i] * 2^(i - 1)]
Positions(bits) == [i \in DOMAIN bits |-> i]

LEMMA ValueIsChosen ==
    ASSUME NEW bits
    PROVE  Value(bits) = (CHOOSE g : g = [s \in SUBSET DOMAIN Positions(bits) |->
                              IF s = {} THEN 0
                              ELSE g[s \ {Top(s)}] + bits[Positions(bits)[Top(s)]] * 2^(Positions(bits)[Top(s)] - 1)])
                         [DOMAIN Positions(bits)]
BY DEF Value, FoldLeft, MapThenFoldSet, Max, Top, Positions

LEMMA ValueStepwise ==
    ASSUME NEW n \in 1 .. 8, NEW bits \in Seq(Int), Len(bits) = n
    PROVE  \E g : /\ Value(bits) = g[1 .. n] /\ g[1 .. 0] = 0
                  /\ \A k \in 1 .. n : g[1 .. k] = g[1 .. k - 1] + bits[k] * 2^(k - 1)
<1>1. DOMAIN Positions(bits) = 1 .. n /\ \A i \in 1 .. n : Positions(bits)[i] = i
  BY DEF Positions
<1> DEFINE term == Weighted(bits)
           Is(g) == g = [s \in SUBSET DOMAIN Positions(bits) |->
                              IF s = {} THEN 0
                              ELSE g[s \ {Top(s)}] + bits[Positions(bits)[Top(s)]] * 2^(Positions(bits)[Top(s)] - 1)]
<1>2. \A i \in 1 .. n : term[i] = bits[i] * 2^(i - 1) /\ term[i] \in Int
  <2>1. ASSUME NEW i \in 1 .. n PROVE 2^(i - 1) \in Nat \ {0} /\ bits[i] \in Int
    <3>1. i \in 1 .. 8
      OBVIOUS
    <3>2. bits[i] \in Int
      OBVIOUS
    <3>. QED
      BY <3>1, <3>2, Powers
  <2>2. \A i \in 1 .. n : term[i] = bits[i] * 2^(i - 1)
    BY DEF Weighted
  <2>. QED
    BY <2>1, <2>2
<1> HIDE DEF term
<1>3. ASSUME NEW g PROVE Is(g) <=> Added(term, n, g)
  <2>1. ASSUME NEW s \in SUBSET (1 .. n), s # {}
        PROVE  g[s \ {Top(s)}] + bits[Positions(bits)[Top(s)]] * 2^(Positions(bits)[Top(s)] - 1)
                 = g[s \ {Top(s)}] + term[Top(s)]
    <3>1. Top(s) \in 1 .. n
      <4>1. n \in Nat
        OBVIOUS
      <4>. QED
        BY <2>1, <4>1, TopFacts
    <3>2. Positions(bits)[Top(s)] = Top(s)
      BY <1>1, <3>1
    <3>. QED
      BY <1>2, <3>1, <3>2
  <2>. QED
    BY <1>1, <2>1 DEF Added
<1>4. PICK g : Added(term, n, g)
  BY <1>2, AddedExists
<1>5. Is(g)
  BY <1>3, <1>4
<1>6. Is(CHOOSE h : Is(h))
  BY <1>5
<1>7. Value(bits) = (CHOOSE h : Is(h))[DOMAIN Positions(bits)]
  BY ValueIsChosen
<1>8. PICK h : Added(term, n, h) /\ Value(bits) = h[1 .. n]
  BY <1>1, <1>3, <1>6, <1>7
<1>9. h[1 .. 0] = 0 /\ \A k \in 1 .. n : h[1 .. k] = h[1 .. k - 1] + term[k]
  BY <1>8, AddedStep
<1>. QED
  BY <1>2, <1>8, <1>9

LEMMA MembersAreInts ==
    ASSUME NEW bits \in Seq(Int), NEW n \in Nat, Len(bits) = n, NEW i \in 1 .. n
    PROVE  bits[i] \in Int
OBVIOUS

LEMMA ValueOfSeven ==
    ASSUME NEW bits \in Seq(Int), Len(bits) = 7
    PROVE  Value(bits) = bits[1] * 1 + bits[2] * 2 + bits[3] * 4 + bits[4] * 8
                           + bits[5] * 16 + bits[6] * 32 + bits[7] * 64
<1>1. PICK g : /\ Value(bits) = g[1 .. 7] /\ g[1 .. 0] = 0
               /\ \A k \in 1 .. 7 : g[1 .. k] = g[1 .. k - 1] + bits[k] * 2^(k - 1)
  BY ValueStepwise
<1>2. /\ bits[1] \in Int /\ bits[2] \in Int /\ bits[3] \in Int /\ bits[4] \in Int
      /\ bits[5] \in Int /\ bits[6] \in Int /\ bits[7] \in Int
  <2>1. \A i \in 1 .. 7 : bits[i] \in Int
    BY MembersAreInts
  <2>. QED
    BY <2>1
<1>3. /\ g[1 .. 1] = g[1 .. 1 - 1] + bits[1] * 2^(1 - 1) /\ g[1 .. 2] = g[1 .. 2 - 1] + bits[2] * 2^(2 - 1)
      /\ g[1 .. 3] = g[1 .. 3 - 1] + bits[3] * 2^(3 - 1) /\ g[1 .. 4] = g[1 .. 4 - 1] + bits[4] * 2^(4 - 1)
      /\ g[1 .. 5] = g[1 .. 5 - 1] + bits[5] * 2^(5 - 1) /\ g[1 .. 6] = g[1 .. 6 - 1] + bits[6] * 2^(6 - 1)
      /\ g[1 .. 7] = g[1 .. 7 - 1] + bits[7] * 2^(7 - 1)
  BY <1>1
<1>4. /\ 1 - 1 = 0 /\ 2 - 1 = 1 /\ 3 - 1 = 2 /\ 4 - 1 = 3 /\ 5 - 1 = 4 /\ 6 - 1 = 5 /\ 7 - 1 = 6
  OBVIOUS
<1>5. /\ g[1 .. 1] = g[1 .. 0] + bits[1] * 1 /\ g[1 .. 2] = g[1 .. 1] + bits[2] * 2
      /\ g[1 .. 3] = g[1 .. 2] + bits[3] * 4 /\ g[1 .. 4] = g[1 .. 3] + bits[4] * 8
      /\ g[1 .. 5] = g[1 .. 4] + bits[5] * 16 /\ g[1 .. 6] = g[1 .. 5] + bits[6] * 32
      /\ g[1 .. 7] = g[1 .. 6] + bits[7] * 64
  BY <1>3, <1>4, PowersAt, SMTT(25)
<1>6. g[1 .. 1] = bits[1] * 1
  BY <1>1, <1>2, <1>5
<1>7. g[1 .. 2] = bits[1] * 1 + bits[2] * 2
  BY <1>6, <1>2, <1>5
<1>8. g[1 .. 3] = bits[1] * 1 + bits[2] * 2 + bits[3] * 4
  BY <1>7, <1>2, <1>5
<1>9. g[1 .. 4] = bits[1] * 1 + bits[2] * 2 + bits[3] * 4 + bits[4] * 8
  BY <1>8, <1>2, <1>5
<1>10. g[1 .. 5] = bits[1] * 1 + bits[2] * 2 + bits[3] * 4 + bits[4] * 8 + bits[5] * 16
  BY <1>9, <1>2, <1>5
<1>11. g[1 .. 6] = bits[1] * 1 + bits[2] * 2 + bits[3] * 4 + bits[4] * 8 + bits[5] * 16 + bits[6] * 32
  BY <1>10, <1>2, <1>5
<1>12. g[1 .. 7] = bits[1] * 1 + bits[2] * 2 + bits[3] * 4 + bits[4] * 8 + bits[5] * 16 + bits[6] * 32 + bits[7] * 64
  BY <1>11, <1>2, <1>5
<1>. QED
  <2>1. Value(bits) = g[1 .. 7]
    BY <1>1
  <2>. QED
    BY <2>1, <1>12

LEMMA ValueOfEight ==
    ASSUME NEW bits \in Seq(Int), Len(bits) = 8
    PROVE  Value(bits) = bits[1] * 1 + bits[2] * 2 + bits[3] * 4 + bits[4] * 8
                           + bits[5] * 16 + bits[6] * 32 + bits[7] * 64 + bits[8] * 128
<1>1. PICK g : /\ Value(bits) = g[1 .. 8] /\ g[1 .. 0] = 0
               /\ \A k \in 1 .. 8 : g[1 .. k] = g[1 .. k - 1] + bits[k] * 2^(k - 1)
  BY ValueStepwise
<1>2. /\ bits[1] \in Int /\ bits[2] \in Int /\ bits[3] \in Int /\ bits[4] \in Int
      /\ bits[5] \in Int /\ bits[6] \in Int /\ bits[7] \in Int /\ bits[8] \in Int
  <2>1. \A i \in 1 .. 8 : bits[i] \in Int
    BY MembersAreInts
  <2>. QED
    BY <2>1
<1>3. /\ g[1 .. 1] = g[1 .. 1 - 1] + bits[1] * 2^(1 - 1) /\ g[1 .. 2] = g[1 .. 2 - 1] + bits[2] * 2^(2 - 1)
      /\ g[1 .. 3] = g[1 .. 3 - 1] + bits[3] * 2^(3 - 1) /\ g[1 .. 4] = g[1 .. 4 - 1] + bits[4] * 2^(4 - 1)
      /\ g[1 .. 5] = g[1 .. 5 - 1] + bits[5] * 2^(5 - 1) /\ g[1 .. 6] = g[1 .. 6 - 1] + bits[6] * 2^(6 - 1)
      /\ g[1 .. 7] = g[1 .. 7 - 1] + bits[7] * 2^(7 - 1) /\ g[1 .. 8] = g[1 .. 8 - 1] + bits[8] * 2^(8 - 1)
  BY <1>1
<1>4. 1 - 1 = 0 /\ 2 - 1 = 1 /\ 3 - 1 = 2 /\ 4 - 1 = 3 /\ 5 - 1 = 4 /\ 6 - 1 = 5 /\ 7 - 1 = 6 /\ 8 - 1 = 7
  OBVIOUS
<1>5. /\ g[1 .. 1] = g[1 .. 0] + bits[1] * 1 /\ g[1 .. 2] = g[1 .. 1] + bits[2] * 2
      /\ g[1 .. 3] = g[1 .. 2] + bits[3] * 4 /\ g[1 .. 4] = g[1 .. 3] + bits[4] * 8
      /\ g[1 .. 5] = g[1 .. 4] + bits[5] * 16 /\ g[1 .. 6] = g[1 .. 5] + bits[6] * 32
      /\ g[1 .. 7] = g[1 .. 6] + bits[7] * 64 /\ g[1 .. 8] = g[1 .. 7] + bits[8] * 128
  BY <1>3, <1>4, PowersAt, SMTT(25)
<1>6. g[1 .. 1] = bits[1] * 1
  BY <1>1, <1>2, <1>5
<1>7. g[1 .. 2] = bits[1] * 1 + bits[2] * 2
  BY <1>6, <1>2, <1>5
<1>8. g[1 .. 3] = bits[1] * 1 + bits[2] * 2 + bits[3] * 4
  BY <1>7, <1>2, <1>5
<1>9. g[1 .. 4] = bits[1] * 1 + bits[2] * 2 + bits[3] * 4 + bits[4] * 8
  BY <1>8, <1>2, <1>5
<1>10. g[1 .. 5] = bits[1] * 1 + bits[2] * 2 + bits[3] * 4 + bits[4] * 8 + bits[5] * 16
  BY <1>9, <1>2, <1>5
<1>11. g[1 .. 6] = bits[1] * 1 + bits[2] * 2 + bits[3] * 4 + bits[4] * 8 + bits[5] * 16 + bits[6] * 32
  BY <1>10, <1>2, <1>5
<1>12. g[1 .. 7] = bits[1] * 1 + bits[2] * 2 + bits[3] * 4 + bits[4] * 8 + bits[5] * 16 + bits[6] * 32 + bits[7] * 64
  BY <1>11, <1>2, <1>5
<1>13. g[1 .. 8] = bits[1] * 1 + bits[2] * 2 + bits[3] * 4 + bits[4] * 8 + bits[5] * 16 + bits[6] * 32 + bits[7] * 64 + bits[8] * 128
  BY <1>12, <1>2, <1>5
<1>. QED
  <2>1. Value(bits) = g[1 .. 8]
    BY <1>1
  <2>. QED
    BY <2>1, <1>13

\* Where the first breakpoint is.
LEMMA ShiftIsChosen ==
    ASSUME NEW i, NEW ws, ws = SubSeq(FieldBits, 1, i - 1)
    PROVE  Shift(i) = (CHOOSE g : g = [s \in SUBSET DOMAIN ws |->
                                          IF s = {} THEN 0 ELSE g[s \ {Top(s)}] + ws[Top(s)]])[DOMAIN ws]
BY DEF Shift, FoldLeft, MapThenFoldSet, Max, Top

LEMMA ShiftOfBreakpoint == Shift(5) = 28
<1>1. PICK ws : ws = SubSeq(FieldBits, 1, 5 - 1)
  OBVIOUS
<1>2. FieldBits \in Seq(Nat) /\ Len(FieldBits) = 11
      /\ FieldBits[1] = 7 /\ FieldBits[2] = 7 /\ FieldBits[3] = 7 /\ FieldBits[4] = 7
  BY DEF FieldBits
<1>3. DOMAIN ws = 1 .. 4 /\ ws[1] = 7 /\ ws[2] = 7 /\ ws[3] = 7 /\ ws[4] = 7
  <2>1. ws = SubSeq(FieldBits, 1, 4)
    BY <1>1
  <2>2. ws = [i \in 1 .. 4 |-> FieldBits[i]]
    BY <1>2, <2>1
  <2>. QED
    BY <1>2, <2>2
<1>10. PICK n \in Nat : n = 4
  OBVIOUS
<1>4. Shift(5) = (CHOOSE g : Added(ws, n, g))[1 .. n]
  <2>1. Shift(5) = (CHOOSE g : g = [s \in SUBSET DOMAIN ws |->
                                          IF s = {} THEN 0 ELSE g[s \ {Top(s)}] + ws[Top(s)]])[DOMAIN ws]
    BY <1>1, ShiftIsChosen
  <2>2. DOMAIN ws = 1 .. n
    BY <1>3, <1>10
  <2>. QED
    BY <2>1, <2>2 DEF Added
<1>5. ASSUME NEW i \in 1 .. n PROVE ws[i] \in Int
  <2>1. i = 1 \/ i = 2 \/ i = 3 \/ i = 4
    BY <1>10
  <2>. QED
    BY <1>3, <2>1
<1>6. PICK g : Added(ws, n, g) /\ Shift(5) = g[1 .. n]
  BY <1>4, <1>5, AddedExists
<1>7. g[1 .. 0] = 0 /\ \A k \in 1 .. n : g[1 .. k] = g[1 .. k - 1] + ws[k]
  BY <1>6, AddedStep
<1>8. /\ g[1 .. 1] = g[1 .. 1 - 1] + ws[1] /\ g[1 .. 2] = g[1 .. 2 - 1] + ws[2]
      /\ g[1 .. 3] = g[1 .. 3 - 1] + ws[3] /\ g[1 .. 4] = g[1 .. 4 - 1] + ws[4]
  BY <1>7, <1>10
<1>9. 1 - 1 = 0 /\ 2 - 1 = 1 /\ 3 - 1 = 2 /\ 4 - 1 = 3
  OBVIOUS
<1>. QED
  BY <1>3, <1>6, <1>7, <1>8, <1>9, <1>10

\* Sequences one after the other.
Flattened(seqs, g) == g = [i \in 1 .. Len(seqs) |-> IF i = 1 THEN seqs[i] ELSE g[i - 1] \o seqs[i]]

LEMMA FlattenIsChosen ==
    ASSUME NEW seqs, Len(seqs) # 0
    PROVE  FlattenSeq(seqs) = (CHOOSE g : Flattened(seqs, g))[Len(seqs)]
BY DEF FlattenSeq, Flattened

LEMMA FlattenStepwise ==
    ASSUME NEW X, NEW seqs \in Seq(Seq(X)), Len(seqs) # 0
    PROVE  \E g : /\ FlattenSeq(seqs) = g[Len(seqs)] /\ g[1] = seqs[1]
                  /\ \A i \in 2 .. Len(seqs) : g[i] = g[i - 1] \o seqs[i]
                  /\ \A i \in 1 .. Len(seqs) : g[i] \in Seq(X)
<1>1. PICK n \in Nat \ {0} : n = Len(seqs) /\ n \in Nat
  OBVIOUS
<1>2. \A i \in 1 .. n : seqs[i] \in Seq(X)
  BY <1>1
<1> DEFINE S == Seq(X)
           st == [p \in S \X (1 .. n) |-> IF p[2] = 1 THEN seqs[1] ELSE p[1] \o seqs[p[2]]]
<1>3. StepsOn(S, n, st)
  <2>1. ASSUME NEW p \in S \X (1 .. n)
        PROVE  (IF p[2] = 1 THEN seqs[1] ELSE p[1] \o seqs[p[2]]) \in S
    <3>1. p[1] \in Seq(X) /\ seqs[p[2]] \in Seq(X) /\ seqs[1] \in Seq(X)
      BY <1>1, <1>2
    <3>. QED
      BY <3>1
  <2>. QED
    BY <2>1 DEF StepsOn
<1>4. \A q \in S, i \in 1 .. n : st[<<q, i>>] = IF i = 1 THEN seqs[1] ELSE q \o seqs[i]
  OBVIOUS
<1>5. <<>> \in S
  OBVIOUS
<1> HIDE DEF S, st
<1>6. PICK f : Carried(S, <<>>, n, st, f)
  BY <1>1, <1>3, <1>5, Iterates
<1>7. ASSUME NEW i \in 1 .. n
      PROVE  f[i] \in S /\ f[i] = IF i = 1 THEN seqs[i] ELSE f[i - 1] \o seqs[i]
  <2>1. i - 1 \in 0 .. n /\ i \in 0 .. n
    BY <1>1
  <2>2. f[i - 1] \in S /\ f[i] \in S
    BY <1>6, <2>1 DEF Carried
  <2>3. f[i] = st[<<f[i - 1], i>>]
    BY <1>6 DEF Carried
  <2>4. st[<<f[i - 1], i>>] = IF i = 1 THEN seqs[1] ELSE f[i - 1] \o seqs[i]
    BY <1>4, <2>2
  <2>. QED
    BY <2>2, <2>3, <2>4
<1> DEFINE g == [i \in 1 .. n |-> f[i]]
<1>8. Flattened(seqs, g)
  <2>1. ASSUME NEW i \in 1 .. n PROVE g[i] = IF i = 1 THEN seqs[i] ELSE g[i - 1] \o seqs[i]
    BY <1>1, <1>7
  <2>. QED
    BY <1>1, <2>1 DEF Flattened
<1>9. PICK h : Flattened(seqs, h) /\ FlattenSeq(seqs) = h[n]
  BY <1>1, <1>8, FlattenIsChosen
<1>10. \A i \in 1 .. n : h[i] = IF i = 1 THEN seqs[i] ELSE h[i - 1] \o seqs[i]
  BY <1>1, <1>9 DEF Flattened
<1> DEFINE T == {0} \cup {k \in 1 .. n : h[k] \in Seq(X)}
<1>11. ASSUME NEW k \in 1 .. n, k - 1 \in T PROVE k \in T
  <2>1. h[k] = IF k = 1 THEN seqs[k] ELSE h[k - 1] \o seqs[k]
    BY <1>10
  <2>2. CASE k = 1
    BY <1>2, <2>1, <2>2
  <2>3. CASE k # 1
    <3>1. h[k - 1] \in Seq(X) /\ seqs[k] \in Seq(X)
      BY <1>2, <1>11, <2>3
    <3>2. h[k - 1] \o seqs[k] \in Seq(X)
      BY <3>1
    <3>3. h[k] \in Seq(X)
      BY <2>1, <2>3, <3>2
    <3>. QED
      BY <3>3
  <2>. QED
    BY <2>2, <2>3
<1>12. 0 .. n \subseteq T
  <2>1. 0 \in T
    OBVIOUS
  <2> HIDE DEF T
  <2>. QED
    BY <1>1, <1>11, <2>1, UpTo
<1>13. \A i \in 1 .. n : h[i] \in Seq(X)
  BY <1>1, <1>12
<1>14. h[1] = seqs[1] /\ \A i \in 2 .. n : h[i] = h[i - 1] \o seqs[i]
  <2>1. ASSUME NEW i \in 2 .. n PROVE h[i] = h[i - 1] \o seqs[i]
    <3>1. i \in 1 .. n /\ i # 1
      BY <1>1
    <3>. QED
      BY <1>10, <3>1
  <2>2. 1 \in 1 .. n
    BY <1>1
  <2>. QED
    BY <1>10, <2>1, <2>2
<1>. QED
  BY <1>1, <1>9, <1>13, <1>14

Ends == <<7, 14, 21, 28, 36, 44, 50, 56, 62, 63, 64>>

\* The fields of a record with the speed `raw`, and what they are at most.
SpeedRecord(raw) == [overall |-> raw, speed1 |-> raw, breakpoint1 |-> 255, congestion1 |-> 0]
Parted(fields) == [i \in DOMAIN SpeedFields |-> Bits(Given(fields, SpeedFields[i]), FieldBits[i])]

LEMMA FieldBitsFacts ==
    /\ DOMAIN SpeedFields = 1 .. 11
    /\ FieldBits[1] = 7 /\ FieldBits[2] = 7 /\ FieldBits[3] = 7 /\ FieldBits[4] = 7
    /\ FieldBits[5] = 8 /\ FieldBits[6] = 8 /\ FieldBits[7] = 6 /\ FieldBits[8] = 6
    /\ FieldBits[9] = 6 /\ FieldBits[10] = 1 /\ FieldBits[11] = 1
    /\ \A i \in 1 .. 11 : FieldBits[i] \in 1 .. 8
<1>1. DOMAIN SpeedFields = 1 .. 11
  BY DEF SpeedFields
<1>2. /\ FieldBits[1] = 7 /\ FieldBits[2] = 7 /\ FieldBits[3] = 7 /\ FieldBits[4] = 7
      /\ FieldBits[5] = 8 /\ FieldBits[6] = 8 /\ FieldBits[7] = 6 /\ FieldBits[8] = 6
      /\ FieldBits[9] = 6 /\ FieldBits[10] = 1 /\ FieldBits[11] = 1
  BY DEF FieldBits
<1>3. ASSUME NEW i \in 1 .. 11 PROVE FieldBits[i] \in 1 .. 8
  <2>1. i = 1 \/ i = 2 \/ i = 3 \/ i = 4 \/ i = 5 \/ i = 6 \/ i = 7 \/ i = 8 \/ i = 9 \/ i = 10 \/ i = 11
    OBVIOUS
  <2>2. FieldBits[i] \in {1, 6, 7, 8}
    BY <1>2, <2>1
  <2>. QED
    BY <2>2
<1>. QED
  BY <1>1, <1>2, <1>3

LEMMA PartedFacts ==
    ASSUME NEW raw \in 0 .. 126, NEW seqs, seqs = Parted(SpeedRecord(raw))
    PROVE  /\ seqs \in Seq(Seq(Int)) /\ Len(seqs) = 11
           /\ \A i \in 1 .. 11 : seqs[i] \in Seq(Int) /\ Len(seqs[i]) = FieldBits[i]
           /\ seqs[1] = Bits(raw, 7) /\ seqs[5] = Bits(255, 8)
<1>1. \A i \in 1 .. 11 : seqs[i] = Bits(Given(SpeedRecord(raw), SpeedFields[i]), FieldBits[i])
      /\ DOMAIN seqs = 1 .. 11
  BY FieldBitsFacts DEF Parted
<1>2. ASSUME NEW name PROVE Given(SpeedRecord(raw), name) \in Nat
  <2>1. DOMAIN SpeedRecord(raw) = {"overall", "speed1", "breakpoint1", "congestion1"}
    BY DEF SpeedRecord
  <2>. QED
    BY <2>1 DEF Given, SpeedRecord
<1>3. ASSUME NEW i \in 1 .. 11 PROVE seqs[i] \in Seq(Int) /\ Len(seqs[i]) = FieldBits[i]
  <2>1. PICK n \in Nat : n = Given(SpeedRecord(raw), SpeedFields[i])
    BY <1>2
  <2>2. PICK width \in 1 .. 8 : width = FieldBits[i]
    BY FieldBitsFacts
  <2>3. seqs[i] = Bits(n, width)
    BY <1>1, <2>1, <2>2
  <2>4. Bits(n, width) \in Seq(Int) /\ Len(Bits(n, width)) = width
    BY BitsFacts
  <2>. QED
    BY <2>2, <2>3, <2>4
<1>4. seqs \in Seq(Seq(Int)) /\ Len(seqs) = 11
  <2>1. seqs = [i \in 1 .. 11 |-> seqs[i]]
    BY <1>1 DEF Parted
  <2>2. \A i \in 1 .. 11 : seqs[i] \in Seq(Int)
    BY <1>3
  <2>. QED
    BY <2>1, <2>2
<1>5. Given(SpeedRecord(raw), "overall") = raw /\ Given(SpeedRecord(raw), "breakpoint1") = 255
  BY DEF Given, SpeedRecord
<1>6. SpeedFields[1] = "overall" /\ SpeedFields[5] = "breakpoint1"
  BY DEF SpeedFields
<1>7. seqs[1] = Bits(raw, 7) /\ seqs[5] = Bits(255, 8)
  BY <1>1, <1>5, <1>6, FieldBitsFacts
<1>. QED
  BY <1>3, <1>4, <1>7

\* What a sequence put after another leaves and adds.
LEMMA JoinedOf ==
    ASSUME NEW Y, NEW s \in Seq(Y), NEW t \in Seq(Y)
    PROVE  /\ s \o t \in Seq(Y) /\ Len(s \o t) = Len(s) + Len(t)
           /\ \A i \in 1 .. Len(s) : (s \o t)[i] = s[i]
           /\ \A i \in 1 .. Len(t) : (s \o t)[Len(s) + i] = t[i]
           /\ \A i \in 1 .. Len(s) + Len(t) : (s \o t)[i] \in Range(s) \cup Range(t)
<1>1. s \o t \in Seq(Y) /\ Len(s \o t) = Len(s) + Len(t)
  OBVIOUS
<1>2. ASSUME NEW i \in 1 .. Len(s) PROVE (s \o t)[i] = s[i]
  OBVIOUS
<1>3. ASSUME NEW i \in 1 .. Len(t) PROVE (s \o t)[Len(s) + i] = t[i]
  <2>0. PICK m \in Nat, n \in Nat : m = Len(s) /\ n = Len(t)
    OBVIOUS
  <2>1. PICK k \in 1 .. Len(s) + Len(t) : k = Len(s) + i
    BY <2>0
  <2>2. ~ k <= Len(s) /\ k - Len(s) = i
    BY <2>1
  <2>3. (s \o t)[k] = t[k - Len(s)]
    BY <2>2
  <2>. QED
    BY <2>1, <2>2, <2>3
<1>4. ASSUME NEW i \in 1 .. Len(s) + Len(t) PROVE (s \o t)[i] \in Range(s) \cup Range(t)
  <2>1. CASE i <= Len(s)
    <3>1. i \in 1 .. Len(s) /\ i \in DOMAIN s
      BY <2>1
    <3>. QED
      BY <1>2, <3>1 DEF Range
  <2>2. CASE i > Len(s)
    <3>0. PICK a, b \in Nat : a = Len(s) /\ b = Len(t)
      OBVIOUS
    <3>5. i \in 1 .. a + b /\ i > a
      BY <2>2, <3>0
    <3>6. i - a \in 1 .. b
      BY <3>5
    <3>1. PICK m \in 1 .. Len(t) : m = i - Len(s)
      BY <3>0, <3>6
    <3>2. i = Len(s) + m /\ m \in DOMAIN t
      BY <3>1
    <3>3. (s \o t)[i] = t[m]
      BY <1>3, <3>2
    <3>. QED
      BY <3>2, <3>3 DEF Range
  <2>. QED
    BY <2>1, <2>2
<1>. QED
  BY <1>1, <1>2, <1>3, <1>4

LEMMA JoinedInts ==
    ASSUME NEW s \in Seq(Int), NEW t \in Seq(Int)
    PROVE  /\ s \o t \in Seq(Int) /\ Len(s \o t) = Len(s) + Len(t)
           /\ \A i \in 1 .. Len(s) : (s \o t)[i] = s[i]
           /\ \A i \in 1 .. Len(t) : (s \o t)[Len(s) + i] = t[i]
BY JoinedOf

\* Where the fields end.
LEMMA EndsFacts ==
    /\ Ends[1] = 7 /\ Ends[4] = 28 /\ Ends[11] = 64
    /\ \A k \in 1 .. 11 : Ends[k] \in Nat /\ Ends[k] >= 7 /\ (k >= 5 => Ends[k] >= 36)
    /\ \A k \in 2 .. 11 : Ends[k] = Ends[k - 1] + FieldBits[k]
<1>1. /\ Ends[1] = 7 /\ Ends[2] = 14 /\ Ends[3] = 21 /\ Ends[4] = 28 /\ Ends[5] = 36 /\ Ends[6] = 44
      /\ Ends[7] = 50 /\ Ends[8] = 56 /\ Ends[9] = 62 /\ Ends[10] = 63 /\ Ends[11] = 64
  BY DEF Ends
<1>2. ASSUME NEW k \in 1 .. 11 PROVE Ends[k] \in Nat /\ Ends[k] >= 7 /\ (k >= 5 => Ends[k] >= 36)
  <2>1. k = 1 \/ k = 2 \/ k = 3 \/ k = 4 \/ k = 5 \/ k = 6 \/ k = 7 \/ k = 8 \/ k = 9 \/ k = 10 \/ k = 11
    OBVIOUS
  <2>2. CASE k <= 4
    <3>1. Ends[k] \in {7, 14, 21, 28}
      BY <1>1, <2>1, <2>2
    <3>. QED
      BY <2>2, <3>1
  <2>3. CASE k >= 5
    <3>1. Ends[k] \in {36, 44, 50, 56, 62, 63, 64}
      BY <1>1, <2>1, <2>3
    <3>. QED
      BY <2>3, <3>1
  <2>. QED
    BY <2>2, <2>3
<1>3. ASSUME NEW k \in 2 .. 11 PROVE Ends[k] = Ends[k - 1] + FieldBits[k]
  <2>1. PICK j : j = k - 1
    OBVIOUS
  <2>2. j \in 1 .. 10 /\ k = j + 1
    BY <2>1
  <2>3. ASSUME j = 1 PROVE Ends[k] = Ends[j] + FieldBits[k]
    BY <1>1, <2>2, <2>3, FieldBitsFacts
  <2>4. ASSUME j = 2 PROVE Ends[k] = Ends[j] + FieldBits[k]
    BY <1>1, <2>2, <2>4, FieldBitsFacts
  <2>5. ASSUME j = 3 PROVE Ends[k] = Ends[j] + FieldBits[k]
    BY <1>1, <2>2, <2>5, FieldBitsFacts
  <2>6. ASSUME j = 4 PROVE Ends[k] = Ends[j] + FieldBits[k]
    BY <1>1, <2>2, <2>6, FieldBitsFacts
  <2>7. ASSUME j = 5 PROVE Ends[k] = Ends[j] + FieldBits[k]
    BY <1>1, <2>2, <2>7, FieldBitsFacts
  <2>8. ASSUME j = 6 PROVE Ends[k] = Ends[j] + FieldBits[k]
    BY <1>1, <2>2, <2>8, FieldBitsFacts
  <2>9. ASSUME j = 7 PROVE Ends[k] = Ends[j] + FieldBits[k]
    BY <1>1, <2>2, <2>9, FieldBitsFacts
  <2>10. ASSUME j = 8 PROVE Ends[k] = Ends[j] + FieldBits[k]
    BY <1>1, <2>2, <2>10, FieldBitsFacts
  <2>11. ASSUME j = 9 PROVE Ends[k] = Ends[j] + FieldBits[k]
    BY <1>1, <2>2, <2>11, FieldBitsFacts
  <2>12. ASSUME j = 10 PROVE Ends[k] = Ends[j] + FieldBits[k]
    BY <1>1, <2>2, <2>12, FieldBitsFacts
  <2>13. j = 1 \/ j = 2 \/ j = 3 \/ j = 4 \/ j = 5 \/ j = 6 \/ j = 7 \/ j = 8 \/ j = 9 \/ j = 10
    BY <2>2
  <2>14. Ends[k] = Ends[j] + FieldBits[k]
    BY <2>3, <2>4, <2>5, <2>6, <2>7, <2>8, <2>9, <2>10, <2>11, <2>12, <2>13
  <2>. QED
    BY <2>1, <2>14
<1>. QED
  BY <1>1, <1>2, <1>3

\* The record of a speed up to its k-th field.
Begins(raw, w, k) ==
    /\ w \in Seq(Int) /\ Len(w) = Ends[k]
    /\ \A i \in 1 .. 7 : w[i] = Bits(raw, 7)[i]
    /\ k >= 5 => \A i \in 1 .. 8 : w[28 + i] = Bits(255, 8)[i]

LEMMA BeginsOn ==
    ASSUME NEW raw, NEW w, NEW k \in 2 .. 11, Begins(raw, w, k - 1),
           NEW t \in Seq(Int), Len(t) = FieldBits[k], k = 5 => t = Bits(255, 8)
    PROVE  Begins(raw, w \o t, k)
<1>1. k - 1 \in 1 .. 11 /\ k \in 1 .. 11 /\ (k > 5 => k - 1 >= 5)
  OBVIOUS
<1>2. PICK m \in Nat, n \in Nat : m = Ends[k - 1] /\ n = FieldBits[k]
  <2>1. Ends[k - 1] \in Nat
    BY <1>1, EndsFacts
  <2>2. FieldBits[k] \in Nat
    <3>1. FieldBits[k] \in 1 .. 8
      BY <1>1, FieldBitsFacts
    <3>. QED
      BY <3>1
  <2>. QED
    BY <2>1, <2>2
<1>3. /\ w \in Seq(Int) /\ Len(w) = m /\ m >= 7 /\ Ends[k] = m + n
      /\ (k > 5 => m >= 36) /\ (k = 5 => m = 28 /\ n = 8)
  <2>1. w \in Seq(Int) /\ Len(w) = m
    BY <1>2 DEF Begins
  <2>2. m >= 7 /\ Ends[k] = m + n /\ (k > 5 => m >= 36)
    BY <1>1, <1>2, EndsFacts
  <2>3. ASSUME k = 5 PROVE m = 28 /\ n = 8
    <3>1. k - 1 = 4
      BY <2>3
    <3>. QED
      BY <1>2, <2>3, <3>1, EndsFacts, FieldBitsFacts
  <2>. QED
    BY <2>1, <2>2, <2>3
<1>4. /\ w \o t \in Seq(Int) /\ Len(w \o t) = m + n
      /\ \A i \in 1 .. m : (w \o t)[i] = w[i]
      /\ \A i \in 1 .. n : (w \o t)[m + i] = t[i]
  <2>1. w \in Seq(Int) /\ Len(w) = m /\ t \in Seq(Int) /\ Len(t) = n
    BY <1>2, <1>3
  <2>2. /\ w \o t \in Seq(Int) /\ Len(w \o t) = Len(w) + Len(t)
        /\ \A i \in 1 .. Len(w) : (w \o t)[i] = w[i]
        /\ \A i \in 1 .. Len(t) : (w \o t)[Len(w) + i] = t[i]
    <3>1. w \in Seq(Int)
      BY <2>1
    <3>. QED
      BY <3>1, JoinedInts
  <2>. QED
    BY <2>1, <2>2
<1>5. ASSUME NEW i \in 1 .. 7 PROVE (w \o t)[i] = Bits(raw, 7)[i]
  <2>1. i \in 1 .. m
    BY <1>3
  <2>2. (w \o t)[i] = w[i]
    BY <1>4, <2>1
  <2>3. w[i] = Bits(raw, 7)[i]
    BY DEF Begins
  <2>. QED
    BY <2>2, <2>3
<1>6. ASSUME k >= 5, NEW i \in 1 .. 8 PROVE (w \o t)[28 + i] = Bits(255, 8)[i]
  <2>1. CASE k = 5
    BY <1>3, <1>4, <2>1
  <2>2. CASE k > 5
    <3>1. k - 1 >= 5 /\ 28 + i \in 1 .. m
      BY <1>1, <1>3, <2>2
    <3>. QED
      BY <1>4, <3>1 DEF Begins
  <2>3. k = 5 \/ k > 5
    BY <1>6
  <2>. QED
    BY <2>1, <2>2, <2>3
<1>. QED
  BY <1>3, <1>4, <1>5, <1>6 DEF Begins

LEMMA WordFacts ==
    ASSUME NEW raw \in 0 .. 126
    PROVE  Begins(raw, AssembleSpeed(SpeedRecord(raw)), 11)
<1> DEFINE word == AssembleSpeed(SpeedRecord(raw))
<1>1. PICK seqs : seqs = Parted(SpeedRecord(raw))
  OBVIOUS
<1>2. /\ seqs \in Seq(Seq(Int)) /\ Len(seqs) = 11
      /\ \A i \in 1 .. 11 : seqs[i] \in Seq(Int) /\ Len(seqs[i]) = FieldBits[i]
      /\ seqs[1] = Bits(raw, 7) /\ seqs[5] = Bits(255, 8)
  <2>1. /\ Parted(SpeedRecord(raw)) \in Seq(Seq(Int)) /\ Len(Parted(SpeedRecord(raw))) = 11
        /\ \A i \in 1 .. 11 : /\ Parted(SpeedRecord(raw))[i] \in Seq(Int)
                              /\ Len(Parted(SpeedRecord(raw))[i]) = FieldBits[i]
        /\ Parted(SpeedRecord(raw))[1] = Bits(raw, 7) /\ Parted(SpeedRecord(raw))[5] = Bits(255, 8)
    BY PartedFacts
  <2>. QED
    BY <1>1, <2>1
<1>3. word = FlattenSeq(seqs)
  BY <1>1 DEF AssembleSpeed, Parted
<1>4. PICK n \in Nat : n = 11
  OBVIOUS
<1>5. PICK g : /\ word = g[n] /\ g[1] = seqs[1]
               /\ \A i \in 2 .. n : g[i] = g[i - 1] \o seqs[i]
  <2>1. Len(seqs) = n /\ Len(seqs) # 0
    BY <1>2, <1>4
  <2>2. PICK g : /\ FlattenSeq(seqs) = g[Len(seqs)] /\ g[1] = seqs[1]
                 /\ \A i \in 2 .. Len(seqs) : g[i] = g[i - 1] \o seqs[i]
                 /\ \A i \in 1 .. Len(seqs) : g[i] \in Seq(Int)
    <3>1. seqs \in Seq(Seq(Int)) /\ Len(seqs) # 0
      BY <1>2, <2>1
    <3>. QED
      BY <3>1, FlattenStepwise
  <2>. QED
    BY <1>3, <2>1, <2>2
<1> DEFINE S == {0} \cup {k \in 1 .. n : Begins(raw, g[k], k)}
<1>6. 1 \in S
  <2>1. Begins(raw, g[1], 1)
    <3>1. g[1] = Bits(raw, 7) /\ g[1] \in Seq(Int) /\ Len(g[1]) = Ends[1]
      <4>1. 1 \in 1 .. 11
        OBVIOUS
      <4>. QED
        BY <1>2, <1>5, <4>1, FieldBitsFacts, EndsFacts
    <3>2. ~ 1 >= 5
      OBVIOUS
    <3>. QED
      BY <3>1, <3>2 DEF Begins
  <2>. QED
    BY <1>4, <2>1
<1>7. ASSUME NEW k \in 1 .. n, k - 1 \in S PROVE k \in S
  <2>1. CASE k = 1
    BY <1>6, <2>1
  <2>2. CASE k # 1
    <3>1. k \in 2 .. 11 /\ k \in 1 .. 11 /\ Begins(raw, g[k - 1], k - 1) /\ g[k] = g[k - 1] \o seqs[k]
      <4>1. k \in 2 .. n /\ k - 1 # 0 /\ k - 1 \in 1 .. n
        BY <2>2
      <4>2. Begins(raw, g[k - 1], k - 1)
        BY <1>7, <4>1
      <4>. QED
        BY <1>4, <1>5, <4>1, <4>2
    <3>2. seqs[k] \in Seq(Int) /\ Len(seqs[k]) = FieldBits[k] /\ (k = 5 => seqs[k] = Bits(255, 8))
      BY <1>2, <3>1
    <3>3. Begins(raw, g[k], k)
      <4>1. PICK w, t : w = g[k - 1] /\ t = seqs[k]
        OBVIOUS
      <4>2. Begins(raw, w, k - 1) /\ t \in Seq(Int) /\ Len(t) = FieldBits[k] /\ (k = 5 => t = Bits(255, 8))
        BY <3>1, <3>2, <4>1
      <4>3. Begins(raw, w \o t, k)
        BY <3>1, <4>2, BeginsOn
      <4>. QED
        BY <3>1, <4>1, <4>3
    <3>. QED
      BY <3>3
  <2>. QED
    BY <2>1, <2>2
<1>8. 0 .. n \subseteq S
  <2>1. 0 \in S
    OBVIOUS
  <2> HIDE DEF S
  <2>. QED
    BY <1>7, <2>1, UpTo
<1>9. Begins(raw, word, 11)
  BY <1>4, <1>5, <1>8
<1>. QED
  BY <1>9

\* The speed that is encoded is the nearest there is.
LEMMA EncodedFacts ==
    ASSUME NEW kph4 \in Nat, NEW raw, raw = EncodeSpeedRaw(kph4)
    PROVE  /\ raw \in 0 .. 126
           /\ kph4 <= 4 * 2 * MaxRaw => 8 * raw - kph4 <= 4 /\ kph4 - 8 * raw <= 4
<1>1. PICK d \in Nat, r \in 0 .. 7 : d = kph4 \div 8 /\ r = kph4 % 8 /\ kph4 = 8 * d + r
  OBVIOUS
<1>2. PICK near \in Nat : near = IF r < 4 \/ (r = 4 /\ d % 2 = 0) THEN d ELSE d + 1
  OBVIOUS
<1>3. raw = IF near > 126 THEN 126 ELSE near
  BY <1>1, <1>2 DEF EncodeSpeedRaw, MaxRaw
<1>4. kph4 <= 1008 => near <= 126
  BY <1>1, <1>2
<1>. QED
  BY <1>1, <1>2, <1>3, <1>4 DEF MaxRaw

LEMMA ValueOfRaw ==
    ASSUME NEW raw \in 0 .. 126, NEW bits \in Seq(Int), Len(bits) = 7,
           \A i \in 1 .. 7 : bits[i] = Bits(raw, 7)[i]
    PROVE  Value(bits) = raw
<1>1. \A i \in 1 .. 7 : Bits(raw, 7)[i] = (raw \div 2^(i - 1)) % 2
  BY DEF Bits
<1>2. \A i \in 1 .. 7 : bits[i] = (raw \div 2^(i - 1)) % 2
  BY <1>1
<1>3. /\ bits[1] = (raw \div 2^(1 - 1)) % 2 /\ bits[2] = (raw \div 2^(2 - 1)) % 2
      /\ bits[3] = (raw \div 2^(3 - 1)) % 2 /\ bits[4] = (raw \div 2^(4 - 1)) % 2
      /\ bits[5] = (raw \div 2^(5 - 1)) % 2 /\ bits[6] = (raw \div 2^(6 - 1)) % 2
      /\ bits[7] = (raw \div 2^(7 - 1)) % 2
  BY <1>2
<1>4. /\ bits[1] = (raw \div 1) % 2 /\ bits[2] = (raw \div 2) % 2 /\ bits[3] = (raw \div 4) % 2
      /\ bits[4] = (raw \div 8) % 2 /\ bits[5] = (raw \div 16) % 2 /\ bits[6] = (raw \div 32) % 2
      /\ bits[7] = (raw \div 64) % 2
  BY <1>3, PowersAt
<1>5. Value(bits) = bits[1] * 1 + bits[2] * 2 + bits[3] * 4 + bits[4] * 8
                      + bits[5] * 16 + bits[6] * 32 + bits[7] * 64
  BY ValueOfSeven
<1>6. raw \in 0 .. 127
  OBVIOUS
<1>. QED
  BY <1>4, <1>5, <1>6, SevenBits

LEMMA ValueOf255 ==
    ASSUME NEW bits \in Seq(Int), Len(bits) = 8,
           \A i \in 1 .. 8 : bits[i] = Bits(255, 8)[i]
    PROVE  Value(bits) = 255
<1>1. \A i \in 1 .. 8 : Bits(255, 8)[i] = (255 \div 2^(i - 1)) % 2
  BY DEF Bits
<1>2. \A i \in 1 .. 8 : bits[i] = (255 \div 2^(i - 1)) % 2
  BY <1>1
<1>3. /\ bits[1] = (255 \div 2^(1 - 1)) % 2 /\ bits[2] = (255 \div 2^(2 - 1)) % 2
      /\ bits[3] = (255 \div 2^(3 - 1)) % 2 /\ bits[4] = (255 \div 2^(4 - 1)) % 2
      /\ bits[5] = (255 \div 2^(5 - 1)) % 2 /\ bits[6] = (255 \div 2^(6 - 1)) % 2
      /\ bits[7] = (255 \div 2^(7 - 1)) % 2 /\ bits[8] = (255 \div 2^(8 - 1)) % 2
  BY <1>2
<1>4. /\ bits[1] = 1 /\ bits[2] = 1 /\ bits[3] = 1 /\ bits[4] = 1
      /\ bits[5] = 1 /\ bits[6] = 1 /\ bits[7] = 1 /\ bits[8] = 1
  BY <1>3, PowersAt
<1>5. Value(bits) = bits[1] * 1 + bits[2] * 2 + bits[3] * 4 + bits[4] * 8
                      + bits[5] * 16 + bits[6] * 32 + bits[7] * 64 + bits[8] * 128
  BY ValueOfEight
<1>. QED
  BY <1>4, <1>5

LEMMA FieldFacts ==
    ASSUME NEW word \in Seq(Int), NEW from \in Nat, NEW width \in Nat, from + width <= Len(word)
    PROVE  /\ Field(word, from, width) \in Seq(Int) /\ Len(Field(word, from, width)) = width
           /\ \A i \in 1 .. width : Field(word, from, width)[i] = word[from + i]
<1> DEFINE bits == [i \in 1 .. width |-> word[from + i]]
<1>1. Field(word, from, width) = bits
  <2>1. Field(word, from, width) = SubSeq(word, from + 1, from + width)
    BY DEF Field
  <2>2. SubSeq(word, from + 1, from + width) = [i \in 1 .. width |-> word[(from + 1) + i - 1]]
    BY Z3
  <2>3. \A i \in 1 .. width : word[(from + 1) + i - 1] = word[from + i]
    OBVIOUS
  <2>. QED
    BY <2>1, <2>2, <2>3
<1>2. \A i \in 1 .. width : word[from + i] \in Int
  OBVIOUS
<1>3. bits \in Seq(Int) /\ Len(bits) = width
  BY <1>2
<1>. QED
  BY <1>1, <1>3

\* The fields that are read are those that were written.
LEMMA ReadBack ==
    ASSUME NEW raw \in 0 .. 126, NEW word, Begins(raw, word, 11)
    PROVE  /\ Len(word) = 64
           /\ Value(Field(word, 0, 7)) = raw /\ Value(Field(word, 28, 8)) = 255
<1>8. word \in Seq(Int) /\ Len(word) = 64
  BY EndsFacts DEF Begins
<1>9. \A i \in 1 .. 7 : word[i] = Bits(raw, 7)[i]
  BY DEF Begins
<1>10. \A i \in 1 .. 8 : word[28 + i] = Bits(255, 8)[i]
  <2>1. 11 >= 5
    OBVIOUS
  <2>. QED
    BY <2>1 DEF Begins
<1>4. Value(Field(word, 0, 7)) = raw
  <2>1. PICK from \in Nat, width \in Nat : from = 0 /\ width = 7
    OBVIOUS
  <2>4. PICK bits : bits = Field(word, from, width)
    OBVIOUS
  <2>2. bits \in Seq(Int) /\ Len(bits) = width /\ \A i \in 1 .. width : bits[i] = word[from + i]
    <3>1. from + width <= Len(word)
      BY <1>8, <2>1
    <3>2. /\ Field(word, from, width) \in Seq(Int) /\ Len(Field(word, from, width)) = width
          /\ \A i \in 1 .. width : Field(word, from, width)[i] = word[from + i]
      <4>1. word \in Seq(Int)
        BY <1>8
      <4>. QED
        BY <3>1, <4>1, FieldFacts
    <3>. QED
      BY <2>4, <3>2
  <2>3. ASSUME NEW i \in 1 .. 7 PROVE bits[i] = Bits(raw, 7)[i]
    <3>1. i \in 1 .. width /\ from + i = i
      BY <2>1
    <3>. QED
      BY <1>9, <2>2, <3>1
  <2>. QED
    BY <2>1, <2>2, <2>3, <2>4, ValueOfRaw
<1>5. Value(Field(word, 28, 8)) = 255
  <2>1. PICK from \in Nat, width \in Nat : from = 28 /\ width = 8
    OBVIOUS
  <2>4. PICK bits : bits = Field(word, from, width)
    OBVIOUS
  <2>2. bits \in Seq(Int) /\ Len(bits) = width /\ \A i \in 1 .. width : bits[i] = word[from + i]
    <3>1. from + width <= Len(word)
      BY <1>8, <2>1
    <3>2. /\ Field(word, from, width) \in Seq(Int) /\ Len(Field(word, from, width)) = width
          /\ \A i \in 1 .. width : Field(word, from, width)[i] = word[from + i]
      <4>1. word \in Seq(Int)
        BY <1>8
      <4>. QED
        BY <3>1, <4>1, FieldFacts
    <3>. QED
      BY <2>4, <3>2
  <2>3. ASSUME NEW i \in 1 .. 8 PROVE bits[i] = Bits(255, 8)[i]
    <3>1. i \in 1 .. width /\ from + i = 28 + i
      BY <2>1
    <3>2. bits[i] = word[from + i]
      BY <2>2, <3>1
    <3>3. word[28 + i] = Bits(255, 8)[i]
      BY <1>10
    <3>. QED
      BY <3>1, <3>2, <3>3
  <2>. QED
    BY <2>1, <2>2, <2>3, <2>4, ValueOf255
<1>. QED
  BY <1>4, <1>5, <1>8

\* What a record of a known speed is read as.
LEMMA PackedFacts ==
    ASSUME NEW kph4 \in Nat, NEW word, word = PackSpeed({kph4}, 0)
    PROVE  /\ OverallSpeedKph(word) = {2 * EncodeSpeedRaw(kph4)}
           /\ Len(word) = 64 /\ UnpackSpeed(word).breakpoint1 = 255
<1>1. PICK raw \in 0 .. 126 : raw = EncodeSpeedRaw(kph4)
  BY EncodedFacts
<1>2. word = AssembleSpeed(SpeedRecord(raw))
  <2>1. (CHOOSE k \in {kph4} : TRUE) = kph4 /\ {kph4} # {}
    OBVIOUS
  <2>. QED
    BY <1>1, <2>1 DEF PackSpeed, SpeedRecord
<1>3. Begins(raw, word, 11)
  BY <1>2, WordFacts
<1>4. Len(word) = 64 /\ Value(Field(word, 0, 7)) = raw /\ Value(Field(word, 28, 8)) = 255
  BY <1>3, ReadBack
<1>6. UnpackSpeed(word).breakpoint1 = 255
  <2>1. /\ SpeedFields[1] = "overall" /\ SpeedFields[2] = "speed1" /\ SpeedFields[3] = "speed2"
        /\ SpeedFields[4] = "speed3" /\ SpeedFields[5] = "breakpoint1" /\ SpeedFields[6] = "breakpoint2"
        /\ SpeedFields[7] = "congestion1" /\ SpeedFields[8] = "congestion2" /\ SpeedFields[9] = "congestion3"
        /\ SpeedFields[10] = "incidents" /\ SpeedFields[11] = "spare"
    BY DEF SpeedFields
  <2>2. ASSUME NEW j \in 1 .. 11, SpeedFields[j] = "breakpoint1" PROVE j = 5
    <3>1. j = 1 \/ j = 2 \/ j = 3 \/ j = 4 \/ j = 5 \/ j = 6 \/ j = 7 \/ j = 8 \/ j = 9 \/ j = 10 \/ j = 11
      OBVIOUS
    <3>. QED
      BY <2>1, <2>2, <3>1
  <2>3. 5 \in 1 .. 11
    OBVIOUS
  <2>4. (CHOOSE j \in DOMAIN SpeedFields : SpeedFields[j] = "breakpoint1") = 5
    BY <2>1, <2>2, <2>3, FieldBitsFacts
  <2>5. "breakpoint1" \in Range(SpeedFields)
    BY <2>1, <2>3, FieldBitsFacts DEF Range
  <2>6. UnpackSpeed(word)["breakpoint1"] = Value(Field(word, Shift(5), FieldBits[5]))
    BY <2>4, <2>5 DEF UnpackSpeed
  <2>. QED
    BY <1>4, <2>6, ShiftOfBreakpoint, FieldBitsFacts
<1>7. OverallSpeedKph(word) = {2 * raw}
  BY <1>4 DEF OverallSpeedKph, UnknownRaw
<1>. QED
  BY <1>1, <1>4, <1>6, <1>7

(***************************************************************************)
(* Merged pages.                                                           *)
(***************************************************************************)

\* The two lists in turn, and each place once.
Turn(names, types, k) ==
    (IF k <= Len(names) THEN <<names[k]>> ELSE <<>>) \o (IF k <= Len(types) THEN <<types[k]>> ELSE <<>>)
Turns(names, types) == [k \in 1 .. Max({Len(names), Len(types)}) |-> Turn(names, types, k)]
Keep(acc, h) == IF h \in Range(acc) THEN acc ELSE Append(acc, h)
Once(seq) == FoldLeft(LAMBDA acc, h : Keep(acc, h), <<>>, seq)

LEMMA InTurnsIs ==
    ASSUME NEW names, NEW types, NEW limit
    PROVE  InTurns(names, types, limit) = Cut(Once(FlattenSeq(Turns(names, types))), limit)
BY DEF InTurns, Once, Keep, Turns, Turn

KeptFold(seq, g) ==
    g = [s \in SUBSET DOMAIN seq |-> IF s = {} THEN <<>> ELSE Keep(g[s \ {Top(s)}], seq[Top(s)])]

LEMMA OnceIsChosen ==
    ASSUME NEW seq
    PROVE  Once(seq) = (CHOOSE g : KeptFold(seq, g))[DOMAIN seq]
BY DEF Once, FoldLeft, MapThenFoldSet, Max, Top, KeptFold

LEMMA OnceStepwise ==
    ASSUME NEW Y, NEW seq \in Seq(Y)
    PROVE  \E f : /\ f[0] = <<>> /\ f[Len(seq)] = Once(seq)
                  /\ \A i \in 1 .. Len(seq) : f[i] = Keep(f[i - 1], seq[i])
<1>1. PICK n \in Nat : n = Len(seq) /\ DOMAIN seq = 1 .. n
  OBVIOUS
<1>2. \A i \in 1 .. n : seq[i] \in Y
  BY <1>1
<1> DEFINE X == Seq(Y)
           st == [p \in X \X (1 .. n) |-> Keep(p[1], seq[p[2]])]
<1>3. StepsOn(X, n, st)
  BY <1>2 DEF StepsOn, Keep
<1>4. \A acc \in X, i \in 1 .. n : st[<<acc, i>>] = Keep(acc, seq[i])
  OBVIOUS
<1>5. <<>> \in X
  OBVIOUS
<1> HIDE DEF X, st
<1>6. PICK g \in [SUBSET (1 .. n) -> X] : Folds(st, <<>>, n, g)
  BY <1>3, <1>5, FoldsExist
<1>7. KeptFold(seq, g)
  <2>1. ASSUME NEW s \in SUBSET (1 .. n)
        PROVE  g[s] = IF s = {} THEN <<>> ELSE Keep(g[s \ {Top(s)}], seq[Top(s)])
    <3>1. CASE s = {}
      BY <1>6, <3>1 DEF Folds
    <3>2. CASE s # {}
      <4>1. Top(s) \in 1 .. n
        BY <3>2, TopFacts
      <4>2. g[s] = st[<<g[s \ {Top(s)}], Top(s)>>] /\ g[s \ {Top(s)}] \in X
        BY <1>6, <3>2 DEF Folds
      <4>. QED
        BY <1>4, <3>2, <4>1, <4>2
    <3>. QED
      BY <3>1, <3>2
  <2>. QED
    BY <1>1, <1>6, <2>1 DEF KeptFold, Folds
<1>8. PICK h : KeptFold(seq, h) /\ Once(seq) = h[1 .. n]
  BY <1>1, <1>7, OnceIsChosen
<1> DEFINE f == [k \in 0 .. n |-> h[1 .. k]]
<1>9. f[0] = <<>>
  <2>1. 1 .. 0 = {}
    OBVIOUS
  <2>. QED
    BY <1>1, <1>8, <2>1 DEF KeptFold
<1>10. ASSUME NEW i \in 1 .. n PROVE f[i] = Keep(f[i - 1], seq[i])
  <2>1. /\ 1 .. i \in SUBSET (1 .. n) /\ 1 .. i # {}
        /\ Top(1 .. i) = i /\ (1 .. i) \ {i} = 1 .. i - 1
    BY PrefixFacts
  <2>2. h[1 .. i] = Keep(h[(1 .. i) \ {Top(1 .. i)}], seq[Top(1 .. i)])
    BY <1>1, <1>8, <2>1 DEF KeptFold
  <2>3. h[1 .. i] = Keep(h[1 .. i - 1], seq[i])
    BY <2>1, <2>2
  <2>. QED
    BY <2>3
<1>11. f[n] = Once(seq)
  BY <1>8
<1> HIDE DEF f
<1>. QED
  BY <1>1, <1>9, <1>10, <1>11

(* Of the first k: each one once, none later than it came.                 *)
OnceEach(seq, k, acc, Y) ==
    /\ acc \in Seq(Y) /\ IsInjective(acc)
    /\ \A i \in 1 .. k : \E j \in 1 .. Len(acc) : j <= i /\ acc[j] = seq[i]
    /\ \A j \in 1 .. Len(acc) : \E i \in 1 .. k : acc[j] = seq[i]
    /\ Len(acc) <= k

LEMMA KeepOk ==
    ASSUME NEW Y, NEW seq \in Seq(Y), NEW k \in 1 .. Len(seq), NEW acc, OnceEach(seq, k - 1, acc, Y)
    PROVE  OnceEach(seq, k, Keep(acc, seq[k]), Y)
<1>1. PICK h \in Y : h = seq[k]
  OBVIOUS
<1>2. acc \in Seq(Y) /\ Len(acc) \in Nat /\ DOMAIN acc = 1 .. Len(acc) /\ Len(acc) <= k - 1
  BY DEF OnceEach
<1>3. 1 .. k = (1 .. k - 1) \cup {k}
  OBVIOUS
<1>4. CASE h \in Range(acc)
  <2>1. Keep(acc, seq[k]) = acc
    BY <1>1, <1>4 DEF Keep
  <2>2. PICK j \in 1 .. Len(acc) : acc[j] = seq[k]
    BY <1>1, <1>2, <1>4 DEF Range
  <2>3. j <= k
    BY <1>2
  <2>4. \A i \in 1 .. k : \E m \in 1 .. Len(acc) : m <= i /\ acc[m] = seq[i]
    BY <1>3, <2>2, <2>3 DEF OnceEach
  <2>5. \A m \in 1 .. Len(acc) : \E i \in 1 .. k : acc[m] = seq[i]
    BY <1>3 DEF OnceEach
  <2>6. Len(acc) <= k
    BY <1>2
  <2>. QED
    BY <2>1, <2>4, <2>5, <2>6 DEF OnceEach
<1>5. CASE h \notin Range(acc)
  <2>1. PICK new : new = Append(acc, h)
    OBVIOUS
  <2>2. Keep(acc, seq[k]) = new
    BY <1>1, <1>5, <2>1 DEF Keep
  <2>3. PICK n \in Nat : n = Len(acc)
    BY <1>2
  <2>4. /\ new \in Seq(Y) /\ Len(new) = n + 1 /\ DOMAIN new = 1 .. n + 1
        /\ new[n + 1] = h /\ \A i \in 1 .. n : new[i] = acc[i]
    BY <1>1, <1>2, <2>1, <2>3, RangeOfAppend
  <2>5. 1 .. n + 1 = (1 .. n) \cup {n + 1} /\ n + 1 <= k
    BY <1>2, <2>3
  <2>6. IsInjective(new)
    <3>1. \A i \in 1 .. n : acc[i] # h
      BY <1>2, <1>5, <2>3 DEF Range
    <3>2. \A a, b \in 1 .. n : acc[a] = acc[b] => a = b
      BY <1>2, <2>3 DEF OnceEach, IsInjective
    <3>3. \A a, b \in 1 .. n + 1 : new[a] = new[b] => a = b
      BY <2>4, <2>5, <3>1, <3>2
    <3>. QED
      BY <2>4, <3>3 DEF IsInjective
  <2>7. \A i \in 1 .. k : \E m \in 1 .. n + 1 : m <= i /\ new[m] = seq[i]
    <3>1. ASSUME NEW i \in 1 .. k - 1 PROVE \E m \in 1 .. n + 1 : m <= i /\ new[m] = seq[i]
      <4>1. PICK m \in 1 .. n : m <= i /\ acc[m] = seq[i]
        BY <2>3 DEF OnceEach
      <4>. QED
        BY <2>4, <2>5, <4>1
    <3>2. \E m \in 1 .. n + 1 : m <= k /\ new[m] = seq[k]
      BY <1>1, <2>4, <2>5
    <3>. QED
      BY <1>3, <3>1, <3>2
  <2>8. \A m \in 1 .. n + 1 : \E i \in 1 .. k : new[m] = seq[i]
    <3>1. ASSUME NEW m \in 1 .. n PROVE \E i \in 1 .. k : new[m] = seq[i]
      <4>1. PICK i \in 1 .. k - 1 : acc[m] = seq[i]
        BY <2>3 DEF OnceEach
      <4>. QED
        BY <1>3, <2>4, <4>1
    <3>2. new[n + 1] = seq[k] /\ k \in 1 .. k
      BY <1>1, <2>4
    <3>. QED
      BY <2>5, <3>1, <3>2
  <2>. QED
    BY <2>2, <2>4, <2>5, <2>6, <2>7, <2>8 DEF OnceEach
<1>. QED
  BY <1>4, <1>5

LEMMA OnceFacts ==
    ASSUME NEW Y, NEW seq \in Seq(Y)
    PROVE  OnceEach(seq, Len(seq), Once(seq), Y)
<1>1. PICK n \in Nat : n = Len(seq)
  OBVIOUS
<1>2. PICK f : /\ f[0] = <<>> /\ f[n] = Once(seq)
               /\ \A i \in 1 .. n : f[i] = Keep(f[i - 1], seq[i])
  BY <1>1, OnceStepwise
<1> DEFINE T == {k \in 0 .. n : OnceEach(seq, k, f[k], Y)}
<1>3. 0 \in T
  <2>1. <<>> \in Seq(Y) /\ Len(<<>>) = 0 /\ DOMAIN <<>> = {} /\ 1 .. 0 = {} /\ 0 <= 0
    OBVIOUS
  <2>2. OnceEach(seq, 0, <<>>, Y)
    BY <2>1 DEF OnceEach, IsInjective
  <2>. QED
    BY <1>2, <2>2
<1>4. ASSUME NEW k \in 1 .. n, k - 1 \in T PROVE k \in T
  <2>1. OnceEach(seq, k, Keep(f[k - 1], seq[k]), Y)
    BY <1>1, <1>4, KeepOk
  <2>. QED
    BY <1>2, <2>1
<1> HIDE DEF T
<1>5. 0 .. n \subseteq T
  BY <1>3, <1>4, UpTo
<1>6. n \in T
  BY <1>5
<1>. QED
  BY <1>1, <1>2, <1>6 DEF T

TurnOk(names, types, k, turn, Y) ==
    /\ turn \in Seq(Y) /\ Len(turn) <= 2
    /\ k <= Len(names) => \E i \in 1 .. Len(turn) : turn[i] = names[k]
    /\ k <= Len(types) => \E i \in 1 .. Len(turn) : turn[i] = types[k]
    /\ \A i \in 1 .. Len(turn) : turn[i] \in Range(names) \cup Range(types)

LEMMA TurnFacts ==
    ASSUME NEW Y, NEW names \in Seq(Y), NEW types \in Seq(Y), NEW k \in Nat \ {0}
    PROVE  TurnOk(names, types, k, Turn(names, types, k), Y)
<1>0. PICK turn : turn = Turn(names, types, k)
  OBVIOUS
<1>1. k <= Len(names) => names[k] \in Y /\ names[k] \in Range(names)
  <2>1. k <= Len(names) => k \in DOMAIN names
    OBVIOUS
  <2>. QED
    BY <2>1 DEF Range
<1>2. k <= Len(types) => types[k] \in Y /\ types[k] \in Range(types)
  <2>1. k <= Len(types) => k \in DOMAIN types
    OBVIOUS
  <2>. QED
    BY <2>1 DEF Range
<1>3. CASE k <= Len(names) /\ k <= Len(types)
  <2>1. PICK s, u : s = <<names[k]>> /\ u = <<types[k]>>
    OBVIOUS
  <2>4. turn = s \o u
    BY <1>0, <1>3, <2>1 DEF Turn
  <2>6. s \in Seq(Y) /\ u \in Seq(Y) /\ Len(s) = 1 /\ Len(u) = 1 /\ s[1] = names[k] /\ u[1] = types[k]
    BY <1>1, <1>2, <1>3, <2>1
  <2>7. /\ s \o u \in Seq(Y) /\ Len(s \o u) = 1 + 1
        /\ (s \o u)[1] = s[1] /\ (s \o u)[1 + 1] = u[1]
    <3>1. /\ s \o u \in Seq(Y) /\ Len(s \o u) = Len(s) + Len(u)
          /\ \A i \in 1 .. Len(s) : (s \o u)[i] = s[i]
          /\ \A i \in 1 .. Len(u) : (s \o u)[Len(s) + i] = u[i]
      <4>1. s \in Seq(Y) /\ u \in Seq(Y)
        BY <2>6
      <4>. QED
        BY <4>1, JoinedOf
    <3>2. 1 \in 1 .. Len(s) /\ 1 \in 1 .. Len(u)
      BY <2>6
    <3>. QED
      BY <2>6, <3>1, <3>2
  <2>2. turn \in Seq(Y) /\ Len(turn) = 2 /\ turn[1] = names[k] /\ turn[2] = types[k]
    BY <2>4, <2>6, <2>7
  <2>3. 1 .. 2 = {1, 2}
    OBVIOUS
  <2>5. TurnOk(names, types, k, turn, Y)
    BY <1>1, <1>2, <1>3, <2>2, <2>3 DEF TurnOk
  <2>. QED
    BY <1>0, <2>5
<1>4. CASE k <= Len(names) /\ ~ k <= Len(types)
  <2>1. turn = <<names[k]>>
    BY <1>0, <1>4 DEF Turn
  <2>2. turn \in Seq(Y) /\ Len(turn) = 1 /\ turn[1] = names[k]
    BY <1>1, <1>4, <2>1
  <2>3. 1 .. 1 = {1}
    OBVIOUS
  <2>5. TurnOk(names, types, k, turn, Y)
    BY <1>1, <1>4, <2>2, <2>3 DEF TurnOk
  <2>. QED
    BY <1>0, <2>5
<1>5. CASE ~ k <= Len(names) /\ k <= Len(types)
  <2>1. turn = <<types[k]>>
    BY <1>0, <1>5 DEF Turn
  <2>2. turn \in Seq(Y) /\ Len(turn) = 1 /\ turn[1] = types[k]
    BY <1>2, <1>5, <2>1
  <2>3. 1 .. 1 = {1}
    OBVIOUS
  <2>5. TurnOk(names, types, k, turn, Y)
    BY <1>2, <1>5, <2>2, <2>3 DEF TurnOk
  <2>. QED
    BY <1>0, <2>5
<1>6. CASE ~ k <= Len(names) /\ ~ k <= Len(types)
  <2>1. turn = <<>>
    BY <1>0, <1>6 DEF Turn
  <2>2. turn \in Seq(Y) /\ Len(turn) = 0 /\ 1 .. 0 = {}
    BY <2>1
  <2>5. TurnOk(names, types, k, turn, Y)
    BY <1>6, <2>2 DEF TurnOk
  <2>. QED
    BY <1>0, <2>5
<1>. QED
  BY <1>3, <1>4, <1>5, <1>6

(* flat begins with k turns: the j-th of a list is among the first 2 j.    *)
Dealt(list, flat, k) ==
    \A j \in DOMAIN list : j <= k => \E i \in 1 .. Len(flat) : i <= 2 * j /\ flat[i] = list[j]
TurnsOk(names, types, k, flat, Y) ==
    /\ flat \in Seq(Y) /\ Len(flat) <= 2 * k
    /\ Dealt(names, flat, k) /\ Dealt(types, flat, k)
    /\ \A i \in 1 .. Len(flat) : flat[i] \in Range(names) \cup Range(types)

LEMMA DealtAfter ==
    ASSUME NEW Y, NEW list \in Seq(Y), NEW flat \in Seq(Y), NEW turn \in Seq(Y), NEW k \in Nat \ {0},
           Len(flat) <= 2 * (k - 1), Len(turn) <= 2, Dealt(list, flat, k - 1),
           k <= Len(list) => \E i \in 1 .. Len(turn) : turn[i] = list[k]
    PROVE  Dealt(list, flat \o turn, k)
<1>1. PICK m, n \in Nat : m = Len(flat) /\ n = Len(turn)
  OBVIOUS
<1>2. PICK both : both = flat \o turn
  OBVIOUS
<1>3. /\ Len(both) = m + n
      /\ \A i \in 1 .. m : both[i] = flat[i]
      /\ \A i \in 1 .. n : both[m + i] = turn[i]
  BY <1>1, <1>2, JoinedOf
<1>4. ASSUME NEW j \in DOMAIN list, j <= k
      PROVE  \E i \in 1 .. m + n : i <= 2 * j /\ both[i] = list[j]
  <2>1. CASE j <= k - 1
    <3>1. PICK i \in 1 .. m : i <= 2 * j /\ flat[i] = list[j]
      BY <1>1, <2>1 DEF Dealt
    <3>2. i \in 1 .. m + n
      BY <3>1
    <3>. QED
      BY <1>3, <3>1, <3>2
  <2>2. CASE j = k
    <3>1. PICK i \in 1 .. n : turn[i] = list[k]
      <4>1. k <= Len(list)
        BY <2>2
      <4>. QED
        BY <1>1, <4>1
    <3>2. m + i \in 1 .. m + n /\ m + i <= 2 * k
      BY <1>1, <3>1
    <3>. QED
      BY <1>3, <2>2, <3>1, <3>2
  <2>3. j <= k - 1 \/ j = k
    BY <1>4
  <2>. QED
    BY <2>1, <2>2, <2>3
<1>. QED
  BY <1>2, <1>3, <1>4 DEF Dealt

LEMMA TurnsAfter ==
    ASSUME NEW Y, NEW names \in Seq(Y), NEW types \in Seq(Y), NEW k \in Nat \ {0},
           NEW flat, TurnsOk(names, types, k - 1, flat, Y)
    PROVE  TurnsOk(names, types, k, flat \o Turn(names, types, k), Y)
<1>1. PICK turn : turn = Turn(names, types, k)
  OBVIOUS
<1>2. /\ turn \in Seq(Y) /\ Len(turn) <= 2 /\ Len(turn) \in Nat
      /\ k <= Len(names) => \E i \in 1 .. Len(turn) : turn[i] = names[k]
      /\ k <= Len(types) => \E i \in 1 .. Len(turn) : turn[i] = types[k]
      /\ \A i \in 1 .. Len(turn) : turn[i] \in Range(names) \cup Range(types)
  <2>1. TurnOk(names, types, k, turn, Y)
    BY <1>1, TurnFacts
  <2>. QED
    BY <2>1 DEF TurnOk
<1>3. /\ flat \in Seq(Y) /\ Len(flat) \in Nat /\ Len(flat) <= 2 * (k - 1)
      /\ Dealt(names, flat, k - 1) /\ Dealt(types, flat, k - 1)
  BY DEF TurnsOk
<1>4. Dealt(names, flat \o turn, k) /\ Dealt(types, flat \o turn, k)
  BY <1>2, <1>3, DealtAfter
<1>5. /\ flat \o turn \in Seq(Y) /\ Len(flat \o turn) = Len(flat) + Len(turn)
      /\ \A i \in 1 .. Len(flat) + Len(turn) : (flat \o turn)[i] \in Range(flat) \cup Range(turn)
  BY <1>2, <1>3, JoinedOf
<1>6. Range(flat) \cup Range(turn) \subseteq Range(names) \cup Range(types)
  <2>1. Range(flat) \subseteq Range(names) \cup Range(types)
    BY <1>3 DEF TurnsOk, Range
  <2>2. Range(turn) \subseteq Range(names) \cup Range(types)
    BY <1>2 DEF Range
  <2>. QED
    BY <2>1, <2>2
<1>7. Len(flat \o turn) <= 2 * k
  BY <1>2, <1>3, <1>5
<1>8. \A i \in 1 .. Len(flat \o turn) : (flat \o turn)[i] \in Range(names) \cup Range(types)
  BY <1>5, <1>6
<1>. QED
  BY <1>1, <1>4, <1>5, <1>7, <1>8 DEF TurnsOk
LEMMA TurnsFacts ==
    ASSUME NEW Y, NEW names \in Seq(Y), NEW types \in Seq(Y)
    PROVE  \E n \in Nat : /\ n >= Len(names) /\ n >= Len(types)
                          /\ TurnsOk(names, types, n, FlattenSeq(Turns(names, types)), Y)
<1>1. PICK n \in Nat : n = Max({Len(names), Len(types)})
  BY LargerOf
<1>2. n >= Len(names) /\ n >= Len(types) /\ Len(names) \in Nat /\ Len(types) \in Nat
  BY <1>1, LargerOf
<1>3. PICK seqs : seqs = Turns(names, types)
  OBVIOUS
<1>4. seqs = [k \in 1 .. n |-> Turn(names, types, k)]
  BY <1>1, <1>3 DEF Turns
<1>5. \A k \in 1 .. n : Turn(names, types, k) \in Seq(Y)
  BY TurnFacts DEF TurnOk
<1>6. seqs \in Seq(Seq(Y)) /\ Len(seqs) = n
  BY <1>4, <1>5
<1>7. CASE n = 0
  <2>1. FlattenSeq(seqs) = seqs
    BY <1>6, <1>7 DEF FlattenSeq
  <2>2. Len(seqs) = 0 /\ 1 .. 0 = {} /\ DOMAIN names = {} /\ DOMAIN types = {}
    BY <1>2, <1>6, <1>7
  <2>3. seqs \in Seq(Y)
    BY <1>6, <2>2
  <2>4. TurnsOk(names, types, n, seqs, Y)
    BY <1>7, <2>2, <2>3 DEF TurnsOk, Dealt
  <2>. QED
    BY <1>2, <1>3, <2>1, <2>4
<1>8. CASE n # 0
  <2>1. PICK g : /\ FlattenSeq(seqs) = g[n] /\ g[1] = seqs[1]
                 /\ \A i \in 2 .. n : g[i] = g[i - 1] \o seqs[i]
                 /\ \A i \in 1 .. n : g[i] \in Seq(Y)
    BY <1>6, <1>8, FlattenStepwise
  <2>2. \A i \in 1 .. n : seqs[i] = Turn(names, types, i)
    BY <1>4
  <2> DEFINE T == {0} \cup {k \in 1 .. n : TurnsOk(names, types, k, g[k], Y)}
  <2>3. ASSUME NEW k \in 1 .. n, k - 1 \in T PROVE k \in T
    <3>1. CASE k = 1
      <4>1. TurnsOk(names, types, 0, <<>>, Y)
        BY DEF TurnsOk, Dealt
      <4>2. PICK one : one = 1
        OBVIOUS
      <4>3. one - 1 = 0 /\ one \in Nat \ {0}
        BY <4>2
      <4>4. TurnsOk(names, types, one, <<>> \o Turn(names, types, one), Y)
        BY <4>1, <4>3, TurnsAfter
      <4>5. <<>> \o Turn(names, types, one) = Turn(names, types, one)
        BY <1>5, <3>1, <4>2
      <4>6. g[k] = Turn(names, types, one)
        BY <2>1, <2>2, <3>1, <4>2
      <4>. QED
        BY <3>1, <4>2, <4>4, <4>5, <4>6
    <3>2. CASE k # 1
      <4>1. k \in 2 .. n /\ k \in Nat \ {0} /\ k - 1 \in 1 .. n
        BY <3>2
      <4>2. TurnsOk(names, types, k - 1, g[k - 1], Y)
        BY <2>3, <4>1
      <4>3. TurnsOk(names, types, k, g[k - 1] \o Turn(names, types, k), Y)
        BY <4>1, <4>2, TurnsAfter
      <4>4. g[k] = g[k - 1] \o Turn(names, types, k)
        BY <2>1, <2>2, <4>1
      <4>. QED
        BY <4>3, <4>4
    <3>. QED
      BY <3>1, <3>2
  <2>4. 0 \in T
    OBVIOUS
  <2> HIDE DEF T
  <2>5. 0 .. n \subseteq T
    BY <2>3, <2>4, UpTo
  <2>6. n \in T
    BY <2>5
  <2>7. TurnsOk(names, types, n, g[n], Y)
    BY <1>8, <2>6 DEF T
  <2>. QED
    BY <1>2, <1>3, <2>1, <2>7
<1>. QED
  BY <1>7, <1>8

LEMMA SmallerOf ==
    ASSUME NEW m \in Nat, NEW n \in Nat
    PROVE  Min({m, n}) = IF m <= n THEN m ELSE n
<1>1. PICK x \in {m, n} : \A y \in {m, n} : x <= y
  <2>1. CASE m <= n
    BY <2>1
  <2>2. CASE n <= m
    BY <2>2
  <2>. QED
    BY <2>1, <2>2
<1>2. Min({m, n}) \in {m, n} /\ \A y \in {m, n} : Min({m, n}) <= y
  BY <1>1 DEF Min
<1>3. PICK smaller : smaller = Min({m, n})
  OBVIOUS
<1>. QED
  BY <1>2, <1>3

LEMMA CutFacts ==
    ASSUME NEW Y, NEW s \in Seq(Y), NEW limit \in Nat
    PROVE  /\ Len(Cut(s, limit)) = Min({limit, Len(s)}) /\ Len(Cut(s, limit)) \in Nat
           /\ Len(Cut(s, limit)) <= Len(s) /\ DOMAIN Cut(s, limit) = 1 .. Len(Cut(s, limit))
           /\ \A i \in 1 .. Len(Cut(s, limit)) : Cut(s, limit)[i] = s[i]
<1>1. PICK n \in Nat : n = Min({limit, Len(s)}) /\ n <= Len(s)
  <2>1. Len(s) \in Nat
    OBVIOUS
  <2>. QED
    BY <2>1, SmallerOf
<1>2. Cut(s, limit) = [i \in 1 .. n |-> s[i]]
  BY <1>1 DEF Cut
<1>3. PICK c : c = Cut(s, limit)
  OBVIOUS
<1>4. DOMAIN c = 1 .. n /\ Len(c) = n /\ \A i \in 1 .. n : c[i] = s[i]
  BY <1>2, <1>3
<1>. QED
  BY <1>1, <1>3, <1>4

(* A sequence that repeats nothing is as long as its elements are many.    *)
LEMMA LenIsCardinality ==
    ASSUME NEW Y, NEW s \in Seq(Y), IsInjective(s)
    PROVE  Cardinality(Range(s)) = Len(s)
<1>1. PICK n \in Nat : n = Len(s) /\ DOMAIN s = 1 .. n
  OBVIOUS
<1>2. s \in [1 .. n -> Range(s)] /\ \A t \in Range(s) : \E i \in 1 .. n : s[i] = t
  <2>1. s = [i \in 1 .. n |-> s[i]]
    BY <1>1
  <2>2. \A i \in 1 .. n : s[i] \in Range(s)
    BY <1>1 DEF Range
  <2>3. \A t \in Range(s) : \E i \in 1 .. n : s[i] = t
    BY <1>1 DEF Range
  <2>. QED
    BY <2>1, <2>2, <2>3
<1>3. s \in Bijection(1 .. n, Range(s))
  BY <1>2 DEF Bijection, Injection, Surjection
<1>4. ExistsBijection(1 .. n, Range(s))
  BY <1>3 DEF ExistsBijection
<1>. QED
  BY <1>1, <1>4, FS_CountingElements

(* No place twice, the page full if there is enough, and the k-th of each  *)
(* list among the first 2 k.                                               *)
ShowsList(list, page) == \A k \in DOMAIN list : 2 * k <= Len(page) => \E i \in 1 .. 2 * k : page[i] = list[k]
ShowsBoth(names, types, limit, page) ==
    /\ IsInjective(page)
    /\ Len(page) = Min({limit, Cardinality(Range(names) \cup Range(types))})
    /\ ShowsList(names, page) /\ ShowsList(types, page)

LEMMA ListShown ==
    ASSUME NEW Y, NEW list \in Seq(Y), NEW n \in Nat, n >= Len(list),
           NEW flat \in Seq(Y), Dealt(list, flat, n), NEW once, OnceEach(flat, Len(flat), once, Y),
           NEW limit \in Nat
    PROVE  ShowsList(list, Cut(once, limit)) /\ Range(list) \subseteq Range(once)
<1>1. once \in Seq(Y) /\ DOMAIN once = 1 .. Len(once)
  BY DEF OnceEach
<1>2. PICK page : page = Cut(once, limit)
  OBVIOUS
<1>3. Len(page) \in Nat /\ Len(page) <= Len(once) /\ \A i \in 1 .. Len(page) : page[i] = once[i]
  BY <1>1, <1>2, CutFacts
<1>4. ASSUME NEW k \in DOMAIN list PROVE \E j \in 1 .. Len(once) : j <= 2 * k /\ once[j] = list[k]
  <2>1. k <= n /\ k \in Nat
    OBVIOUS
  <2>2. PICK i \in 1 .. Len(flat) : i <= 2 * k /\ flat[i] = list[k]
    BY <2>1 DEF Dealt
  <2>3. PICK j \in 1 .. Len(once) : j <= i /\ once[j] = flat[i]
    BY DEF OnceEach
  <2>4. j <= 2 * k
    BY <2>1, <2>2, <2>3
  <2>. QED
    BY <2>2, <2>3, <2>4
<1>5. ASSUME NEW k \in DOMAIN list, 2 * k <= Len(page) PROVE \E i \in 1 .. 2 * k : page[i] = list[k]
  <2>1. PICK j \in 1 .. Len(once) : j <= 2 * k /\ once[j] = list[k]
    BY <1>4
  <2>2. k \in Nat /\ j \in 1 .. 2 * k /\ j \in 1 .. Len(page)
    BY <1>3, <1>5, <2>1
  <2>. QED
    BY <1>3, <2>1, <2>2
<1>6. Range(list) \subseteq Range(once)
  BY <1>1, <1>4 DEF Range
<1>. QED
  BY <1>2, <1>5, <1>6 DEF ShowsList

LEMMA InTurnsFacts ==
    ASSUME NEW Y, NEW names \in Seq(Y), NEW types \in Seq(Y), NEW limit \in Nat
    PROVE  ShowsBoth(names, types, limit, InTurns(names, types, limit))
<1>1. PICK flat : flat = FlattenSeq(Turns(names, types))
  OBVIOUS
<1>2. PICK n \in Nat : n >= Len(names) /\ n >= Len(types) /\ TurnsOk(names, types, n, flat, Y)
  BY <1>1, TurnsFacts
<1>3. /\ flat \in Seq(Y) /\ Dealt(names, flat, n) /\ Dealt(types, flat, n)
      /\ \A i \in 1 .. Len(flat) : flat[i] \in Range(names) \cup Range(types)
  BY <1>2 DEF TurnsOk
<1>4. PICK once : once = Once(flat)
  OBVIOUS
<1>5. OnceEach(flat, Len(flat), once, Y)
  BY <1>3, <1>4, OnceFacts
<1>6. once \in Seq(Y) /\ IsInjective(once) /\ DOMAIN once = 1 .. Len(once) /\ Len(once) \in Nat
  BY <1>5 DEF OnceEach
<1>7. PICK page : page = Cut(once, limit)
  OBVIOUS
<1>8. /\ ShowsList(names, page) /\ Range(names) \subseteq Range(once)
      /\ ShowsList(types, page) /\ Range(types) \subseteq Range(once)
  BY <1>2, <1>3, <1>5, <1>7, ListShown
<1>9. Range(once) = Range(names) \cup Range(types)
  <2>1. ASSUME NEW j \in 1 .. Len(once) PROVE once[j] \in Range(names) \cup Range(types)
    <3>1. PICK i \in 1 .. Len(flat) : once[j] = flat[i]
      BY <1>5 DEF OnceEach
    <3>. QED
      BY <1>3, <3>1
  <2>2. Range(once) \subseteq Range(names) \cup Range(types)
    BY <1>6, <2>1 DEF Range
  <2>. QED
    BY <1>8, <2>2
<1>10. /\ Len(page) = Min({limit, Len(once)}) /\ Len(page) \in Nat /\ Len(page) <= Len(once)
       /\ DOMAIN page = 1 .. Len(page) /\ \A i \in 1 .. Len(page) : page[i] = once[i]
  BY <1>6, <1>7, CutFacts
<1>11. Cardinality(Range(names) \cup Range(types)) = Len(once)
  BY <1>6, <1>9, LenIsCardinality
<1>12. IsInjective(page)
  <2>1. \A a, b \in 1 .. Len(page) : a \in 1 .. Len(once) /\ b \in 1 .. Len(once)
    BY <1>6, <1>10
  <2>2. \A a, b \in 1 .. Len(once) : once[a] = once[b] => a = b
    BY <1>6 DEF IsInjective
  <2>3. \A a, b \in 1 .. Len(page) : page[a] = page[b] => a = b
    BY <1>10, <2>1, <2>2
  <2>. QED
    BY <1>10, <2>3 DEF IsInjective
<1>13. page = InTurns(names, types, limit)
  BY <1>1, <1>4, <1>7, InTurnsIs
<1>. QED
  BY <1>8, <1>10, <1>11, <1>12, <1>13 DEF ShowsBoth

(***************************************************************************)
(* Ordinals, quality tiers and the first page.                             *)
(***************************************************************************)

\* The other spelling of a word.
Swapped(t) ==
    IF t[1] = "digits" /\ t[2] \in 1 .. 20 THEN <<"word", t[2], "">>
    ELSE IF t[1] = "word" THEN <<"digits", t[2], Suffix(t[2])>> ELSE t
AllSwapped(toks) == [i \in DOMAIN toks |-> Swapped(toks[i])]

LEMMA ExpandIs ==
    ASSUME NEW toks
    PROVE  ExpandOrdinals(toks) = IF AllSwapped(toks) = toks THEN {} ELSE {AllSwapped(toks)}
BY DEF ExpandOrdinals, AllSwapped, Swapped, None, Only

LEMMA SwappedBack ==
    ASSUME NEW t \in Tokens, WellSpelt(t)
    PROVE  Swapped(Swapped(t)) = t
<1>1. CASE t \in {<<"word", n, "">> : n \in 1 .. 20}
  <2>1. PICK n \in 1 .. 20 : t = <<"word", n, "">>
    BY <1>1
  <2>2. PICK x : x = Suffix(n)
    OBVIOUS
  <2>3. Swapped(t) = <<"digits", n, x>>
    BY <2>1, <2>2 DEF Swapped
  <2>4. Swapped(<<"digits", n, x>>) = <<"word", n, "">>
    <3>1. n \in 1 .. 20
      BY <2>1
    <3>. QED
      BY <3>1 DEF Swapped
  <2>. QED
    BY <2>1, <2>3, <2>4
<1>2. CASE t \in {"digits"} \X Nat \X {"st", "nd", "rd", "th"}
  <2>1. PICK n \in Nat, x \in {"st", "nd", "rd", "th"} : t = <<"digits", n, x>>
    BY <1>2
  <2>2. CASE n \in 1 .. 20
    <3>1. x = Suffix(n)
      BY <2>1, <2>2 DEF WellSpelt
    <3>2. Swapped(t) = <<"word", n, "">>
      BY <2>1, <2>2 DEF Swapped
    <3>3. Swapped(<<"word", n, "">>) = <<"digits", n, Suffix(n)>>
      BY DEF Swapped
    <3>. QED
      BY <2>1, <3>1, <3>2, <3>3
  <2>3. CASE n \notin 1 .. 20
    <3>1. Swapped(t) = t
      BY <2>1, <2>3 DEF Swapped
    <3>. QED
      BY <3>1
  <2>. QED
    BY <2>2, <2>3
<1>3. CASE t = <<"other", 0, "">>
  BY <1>3 DEF Swapped
<1>. QED
  BY <1>1, <1>2, <1>3 DEF Tokens

LEMMA ExpandedBack ==
    ASSUME NEW toks \in Seq(Tokens), \A i \in DOMAIN toks : WellSpelt(toks[i]),
           NEW other \in ExpandOrdinals(toks)
    PROVE  ExpandOrdinals(other) = Only(toks)
<1>1. other = AllSwapped(toks) /\ other # toks
  BY ExpandIs
<1>2. \A i \in DOMAIN toks : toks[i] \in Tokens
  OBVIOUS
<1>3. DOMAIN other = DOMAIN toks /\ \A i \in DOMAIN toks : other[i] = Swapped(toks[i])
  BY <1>1 DEF AllSwapped
<1>4. \A i \in DOMAIN toks : Swapped(other[i]) = toks[i]
  BY <1>2, <1>3, SwappedBack
<1>5. AllSwapped(other) = [i \in DOMAIN toks |-> toks[i]]
  BY <1>3, <1>4 DEF AllSwapped
<1>6. AllSwapped(other) = toks
  BY <1>5
<1>. QED
  BY <1>1, <1>6, ExpandIs DEF Only

----------------------------------------------------------------------------
\* The tiers of matches are twenty apart.
Tiers == {0, 40, 60, 80, 100}

LEMMA QualityFacts ==
    ASSUME NEW e, NEW q
    PROVE  MatchQuality(e, q) \in Tiers
<1>1. \A text : TextQuality(text, q) \in Tiers
  BY DEF TextQuality, Tiers, Exact, Prefix, FirstWord, AnyWord, NoMatch
<1>2. PICK a, b \in Tiers : a = TextQuality(e.name, q) /\ b = TextQuality(Label(e), q)
  BY <1>1
<1>3. MatchQuality(e, q) = Max({a, b})
  BY <1>2 DEF MatchQuality
<1>4. a \in Nat /\ b \in Nat
  BY DEF Tiers
<1>5. Max({a, b}) \in {a, b}
  BY <1>4, LargerOf
<1>. QED
  BY <1>3, <1>5

Rated(e) == e.rank \in Nat /\ e.near \in Nat /\ e.pop \in 0 .. 7

LEMMA BestKeepsTiers ==
    ASSUME NEW found, IsFiniteSet(found), \A e \in found : Rated(e),
           NEW q, NEW limit \in Nat, NEW hits \in Best(found, q, limit),
           NEW i \in DOMAIN hits, NEW j \in DOMAIN hits,
           hits[i].rank = hits[j].rank, hits[i].near = hits[j].near,
           MatchQuality(hits[i], q) > MatchQuality(hits[j], q)
    PROVE  i < j
<1>1. PICK n \in Nat : n = Min({limit, Cardinality(found)})
  BY FS_CardinalityType, SmallerOf
<1> DEFINE score(k) == RankScore(hits[k], MatchQuality(hits[k], q))
<1>2. hits \in [1 .. n -> found] /\ \A k \in 1 .. n - 1 : score(k) >= score(k + 1)
  BY <1>1 DEF Best
<1>3. ASSUME NEW k \in 1 .. n
      PROVE  \E m \in Tiers, r, p, d \in Nat :
                /\ m = MatchQuality(hits[k], q) /\ r = hits[k].rank /\ p = hits[k].pop /\ d = hits[k].near
                /\ p <= 7 /\ score(k) = m + 3 * r + 2 * p + d
  <2>1. hits[k] \in found
    BY <1>2
  <2>2. hits[k].rank \in Nat /\ hits[k].near \in Nat /\ hits[k].pop \in 0 .. 7
    BY <2>1 DEF Rated
  <2>3. PICK m \in Tiers : m = MatchQuality(hits[k], q)
    BY QualityFacts
  <2>4. score(k) = m + 3 * hits[k].rank + 2 * hits[k].pop + hits[k].near
    BY <2>3 DEF RankScore
  <2>. QED
    BY <2>2, <2>3, <2>4
<1>4. ASSUME NEW k \in 1 .. n PROVE score(k) \in Int
  <2>1. PICK m \in Tiers, r, p, d \in Nat :
           /\ m = MatchQuality(hits[k], q) /\ r = hits[k].rank /\ p = hits[k].pop /\ d = hits[k].near
           /\ p <= 7 /\ score(k) = m + 3 * r + 2 * p + d
    BY <1>3
  <2>2. m \in Nat
    BY DEF Tiers
  <2> HIDE DEF score
  <2>. QED
    BY <2>1, <2>2
<1>5. i \in 1 .. n /\ j \in 1 .. n
  BY <1>2
<1>6. score(i) > score(j)
  <2>1. PICK m \in Tiers, r, p, d \in Nat :
           /\ m = MatchQuality(hits[i], q) /\ r = hits[i].rank /\ p = hits[i].pop /\ d = hits[i].near
           /\ p <= 7 /\ score(i) = m + 3 * r + 2 * p + d
    BY <1>3, <1>5
  <2>2. PICK m2 \in Tiers, r2, p2, d2 \in Nat :
           /\ m2 = MatchQuality(hits[j], q) /\ r2 = hits[j].rank /\ p2 = hits[j].pop /\ d2 = hits[j].near
           /\ p2 <= 7 /\ score(j) = m2 + 3 * r2 + 2 * p2 + d2
    BY <1>3, <1>5
  <2>3. r = r2 /\ d = d2 /\ m > m2
    BY <2>1, <2>2
  <2>4. m >= m2 + 20 /\ m \in Nat /\ m2 \in Nat
    BY <2>3 DEF Tiers
  <2> HIDE DEF score
  <2>. QED
    BY <2>1, <2>2, <2>3, <2>4
<1> HIDE DEF score
<1>7. ASSUME NEW k \in 0 .. n, j + k <= n PROVE score(j) >= score(j + k)
  <2> DEFINE T == {m \in 0 .. n : j + m <= n => score(j) >= score(j + m)}
  <2>1. 0 \in T
    BY <1>4, <1>5
  <2>2. ASSUME NEW m \in 1 .. n, m - 1 \in T PROVE m \in T
    <3>1. SUFFICES ASSUME j + m <= n PROVE score(j) >= score(j + m)
      OBVIOUS
    <3>2. PICK l \in Nat : l = j + (m - 1)
      BY <1>5
    <3>3. l \in 1 .. n - 1 /\ l \in 1 .. n /\ l + 1 \in 1 .. n /\ j + m = l + 1
      BY <1>5, <3>1, <3>2
    <3>4. score(j) >= score(l) /\ score(l) >= score(l + 1)
      BY <1>2, <2>2, <3>2, <3>3
    <3>. QED
      BY <1>4, <1>5, <3>3, <3>4
  <2> HIDE DEF T
  <2>3. 0 .. n \subseteq T
    BY <2>1, <2>2, UpTo
  <2>4. k \in T
    BY <2>3
  <2>. QED
    BY <1>7, <2>4 DEF T
<1>8. ASSUME j <= i PROVE FALSE
  <2>1. PICK k \in 0 .. n : k = i - j /\ j + k = i
    BY <1>5, <1>8
  <2>2. j + k <= n
    BY <1>5, <2>1
  <2>3. score(j) >= score(j + k)
    BY <1>7, <2>2
  <2>4. score(j) >= score(i)
    BY <2>1, <2>3
  <2>. QED
    BY <1>4, <1>5, <1>6, <2>4
<1>. QED
  BY <1>5, <1>8

----------------------------------------------------------------------------
\* The page as it was found, or with one more place above it.
PageOk(results, page) ==
    /\ \A i, j \in DOMAIN page : page[i].id = page[j].id => i = j
    /\ \E n \in 0 .. 1 : SubSeq(page, n + 1, Len(page)) = results

LEMMA FirstPageFacts ==
    ASSUME NEW results, results \in Seq(Range(results)),
           \A i, j \in DOMAIN results : results[i].id = results[j].id => i = j,
           NEW hn, NEW street, NEW names, NEW estimate
    PROVE  PageOk(results, FirstPage(results, hn, street, names, estimate))
<1>1. PICK n \in Nat : n = Len(results) /\ DOMAIN results = 1 .. n
  OBVIOUS
<1>2. PICK page : page = FirstPage(results, hn, street, names, estimate)
  OBVIOUS
<1>3. CASE page = results
  <2>1. SubSeq(results, 1, n) = [i \in 1 .. n |-> results[i]]
    BY <1>1
  <2>2. results = [i \in 1 .. n |-> results[i]]
    BY <1>1
  <2>3. \E m \in 0 .. 1 : SubSeq(results, m + 1, Len(results)) = results
    <3>1. PICK m \in 0 .. 1 : m = 0
      OBVIOUS
    <3>2. m + 1 = 1
      BY <3>1
    <3>. QED
      BY <1>1, <2>1, <2>2, <3>2
  <2>. QED
    BY <1>2, <1>3, <2>3 DEF PageOk
<1>4. CASE page # results
  <2>1. PICK top : /\ top = [id |-> The(estimate).id, hn |-> <<>>, street |-> street]
                   /\ top.id \notin {r.id : r \in Range(results)}
                   /\ page = <<top>> \o results
    BY <1>2, <1>4 DEF FirstPage
  <2>2. PICK Y : Y = Range(results) \cup {top}
    OBVIOUS
  <2>3. results \in Seq(Y) /\ <<top>> \in Seq(Y) /\ Len(<<top>>) = 1 /\ <<top>>[1] = top
    <3>1. \A i \in 1 .. n : results[i] \in Y
      BY <1>1, <2>2 DEF Range
    <3>2. results = [i \in 1 .. n |-> results[i]]
      BY <1>1
    <3>. QED
      BY <2>2, <3>1, <3>2
  <2>4. PICK head : head = <<top>>
    OBVIOUS
  <2>5. /\ head \o results \in Seq(Y) /\ Len(head \o results) = Len(head) + Len(results)
        /\ \A i \in 1 .. Len(head) : (head \o results)[i] = head[i]
        /\ \A i \in 1 .. Len(results) : (head \o results)[Len(head) + i] = results[i]
    BY <2>3, <2>4, JoinedOf
  <2>6. /\ page \in Seq(Y) /\ Len(page) = 1 + n /\ page[1] = top
        /\ \A i \in 1 .. n : page[1 + i] = results[i]
    BY <1>1, <2>1, <2>3, <2>4, <2>5
  <2>7. \A i \in 1 .. n : top.id # results[i].id
    <3>1. \A i \in 1 .. n : results[i] \in Range(results)
      BY <1>1 DEF Range
    <3>. QED
      BY <2>1, <3>1
  <2>8. ASSUME NEW i \in 1 .. 1 + n, NEW j \in 1 .. 1 + n, page[i].id = page[j].id PROVE i = j
    <3>1. CASE i = 1 /\ j = 1
      BY <3>1
    <3>2. CASE i = 1 /\ j # 1
      <4>1. PICK m \in 1 .. n : j = 1 + m
        BY <3>2
      <4>. QED
        BY <2>6, <2>7, <2>8, <3>2, <4>1
    <3>3. CASE i # 1 /\ j = 1
      <4>1. PICK m \in 1 .. n : i = 1 + m
        BY <3>3
      <4>. QED
        BY <2>6, <2>7, <2>8, <3>3, <4>1
    <3>4. CASE i # 1 /\ j # 1
      <4>1. PICK k \in 1 .. n, m \in 1 .. n : i = 1 + k /\ j = 1 + m
        BY <3>4
      <4>2. results[k].id = results[m].id
        BY <2>6, <2>8, <4>1
      <4>. QED
        BY <1>1, <4>1, <4>2
    <3>. QED
      BY <3>1, <3>2, <3>3, <3>4
  <2>9. DOMAIN page = 1 .. 1 + n
    BY <2>6
  <2>10. SubSeq(page, 1 + 1, Len(page)) = results
    <3>1. PICK tail : tail = SubSeq(page, 1 + 1, Len(page))
      OBVIOUS
    <3>2. tail = [i \in 1 .. n |-> page[1 + i]]
      <4>1. SubSeq(page, 2, 1 + n) = [i \in 1 .. (1 + n) - 2 + 1 |-> page[i + 2 - 1]]
        BY <2>6
      <4>2. (1 + n) - 2 + 1 = n /\ \A i \in 1 .. n : i + 2 - 1 = 1 + i
        OBVIOUS
      <4>. QED
        BY <2>6, <3>1, <4>1, <4>2
    <3>3. results = [i \in 1 .. n |-> results[i]]
      BY <1>1
    <3>. QED
      BY <2>6, <3>1, <3>2, <3>3
  <2>. QED
    BY <1>2, <2>8, <2>9, <2>10 DEF PageOk
<1>. QED
  BY <1>3, <1>4

(***************************************************************************)
(* House numbers and lines.                                                *)
(***************************************************************************)

(* Multiples of d, as far as the provers need telling.                      *)
LEMMA MultipleFacts ==
    ASSUME NEW d \in Nat \ {0}
    PROVE  /\ \A k \in Int : k * d \in Int /\ (k + 1) * d = k * d + d /\ (k - 1) * d = k * d - d
           /\ 1 * d = d /\ 2 * d = d + d
           /\ \A k, m \in Int : k <= m => k * d <= m * d
<1>1. ASSUME NEW k \in Int PROVE k * d \in Int /\ (k + 1) * d = k * d + d /\ (k - 1) * d = k * d - d
  OBVIOUS
<1>2. ASSUME NEW k \in Int, NEW m \in Int, k <= m PROVE k * d <= m * d
  <2>1. PICK x \in Nat : m = k + x
    BY <1>2
  <2>2. m * d = k * d + x * d
    BY <2>1
  <2>3. x * d >= 0 /\ x * d \in Int /\ k * d \in Int
    OBVIOUS
  <2>. QED
    BY <2>2, <2>3
<1>. QED
  BY <1>1, <1>2

\* An estimate that is rounded is at most half a number away.
LEMMA RoundedFacts ==
    ASSUME NEW n \in Int, NEW d \in Nat \ {0}
    PROVE  \E e \in Int : e = RoundHalfEven(n, d) /\ 2 * (n - e * d) <= d /\ 2 * (e * d - n) <= d
<1>1. PICK fl \in Int, r \in 0 .. d - 1 : fl = n \div d /\ r = n % d /\ n = fl * d + r
  OBVIOUS
<1>2. PICK p \in Int : p = fl * d /\ (fl + 1) * d = p + d
  BY MultipleFacts
<1>3. CASE RoundHalfEven(n, d) = fl /\ 2 * r <= d
  <2>1. 2 * (n - fl * d) <= d /\ 2 * (fl * d - n) <= d
    BY <1>1, <1>2, <1>3
  <2>. QED
    BY <1>3, <2>1
<1>4. CASE RoundHalfEven(n, d) = fl + 1 /\ 2 * r >= d
  <2>1. 2 * (n - (fl + 1) * d) <= d /\ 2 * ((fl + 1) * d - n) <= d
    BY <1>1, <1>2, <1>4
  <2>. QED
    BY <1>4, <2>1
<1>5. 2 * r < d \/ 2 * r > d \/ 2 * r = d
  BY <1>1
<1>. QED
  BY <1>1, <1>3, <1>4, <1>5 DEF RoundHalfEven

(* Neighbours are on different sides.                                      *)
LEMMA ParityFacts ==
    ASSUME NEW k \in Int
    PROVE  Odd(k + 1) = ~ Odd(k) /\ Odd(k - 1) = ~ Odd(k)
<1>1. k % 2 = 0 \/ k % 2 = 1
  OBVIOUS
<1>2. (k + 1) % 2 = 1 - (k % 2) /\ (k - 1) % 2 = 1 - (k % 2)
  OBVIOUS
<1>. QED
  BY <1>1, <1>2 DEF Odd

(* The number of a side nearest to n / d, from the nearest of all that is  *)
(* at least 1: itself, or one of its neighbours.                           *)
LEMMA OnSideFacts ==
    ASSUME NEW n \in Int, NEW d \in Nat \ {0}, NEW odd \in BOOLEAN
    PROVE  \E h \in Nat : /\ h = OnSide(n, d, odd) /\ h >= 1 /\ Odd(h) = odd
                          /\ \A m \in Nat \ {0} : Odd(m) = odd => Abs(n - h * d) <= Abs(n - m * d)
<1>1. PICK k \in Int : k = RoundHalfEven(n, d) /\ 2 * (n - k * d) <= d /\ 2 * (k * d - n) <= d
  BY RoundedFacts
<1>2. PICK e \in Nat \ {0} : /\ e = Max({1, RoundHalfEven(n, d)})
                             /\ 2 * (n - e * d) <= d /\ (e = 1 \/ 2 * (e * d - n) <= d)
  <2>1. CASE k >= 1
    <3>1. Max({1, k}) = k
      BY <2>1, LargerOf
    <3>. QED
      BY <1>1, <2>1, <3>1
  <2>2. CASE k < 1
    <3>1. Max({1, k}) = 1
      BY <2>2 DEF Max
    <3>2. k * d <= 1 * d /\ k * d \in Int /\ 1 * d = d
      BY <2>2, MultipleFacts
    <3>3. 2 * (n - 1 * d) <= d
      BY <1>1, <3>2
    <3>. QED
      BY <1>1, <3>1, <3>3
  <2>. QED
    BY <2>1, <2>2
<1>3. PICK p \in Int : p = e * d /\ (e + 1) * d = p + d /\ (e - 1) * d = p - d
  BY MultipleFacts
<1>4. 2 * (n - p) <= d /\ (e = 1 \/ 2 * (p - n) <= d)
  BY <1>2, <1>3
<1>5. Odd(e) \in BOOLEAN /\ Odd(e + 1) = ~ Odd(e) /\ Odd(e - 1) = ~ Odd(e)
  BY ParityFacts DEF Odd
<1>6. ASSUME NEW m \in Nat \ {0}
      PROVE  \E q \in Int : /\ q = m * d
                            /\ m < e => q <= p - d /\ e # 1
                            /\ m > e => q >= p + d
                            /\ m = e => q = p
  <2>1. PICK q \in Int : q = m * d
    BY MultipleFacts
  <2>2. CASE m < e
    BY <1>3, <2>1, <2>2, MultipleFacts
  <2>3. CASE m > e
    <3>1. (e + 1) * d <= m * d
      BY <2>3, MultipleFacts
    <3>. QED
      BY <1>3, <2>1, <2>3, <3>1
  <2>4. CASE m = e
    BY <1>3, <2>1, <2>4
  <2>. QED
    BY <2>2, <2>3, <2>4
<1>7. CASE Odd(e) = odd
  <2>1. OnSide(n, d, odd) = e
    BY <1>2, <1>7 DEF OnSide
  <2>2. ASSUME NEW m \in Nat \ {0} PROVE Abs(n - e * d) <= Abs(n - m * d)
    <3>1. PICK q \in Int : q = m * d /\ (m < e => q <= p - d /\ e # 1) /\ (m > e => q >= p + d)
                           /\ (m = e => q = p)
      BY <1>6
    <3>2. Abs(n - p) <= Abs(n - q)
      BY <1>4, <3>1 DEF Abs
    <3>. QED
      BY <1>3, <3>1, <3>2
  <2>. QED
    BY <1>7, <2>1, <2>2
<1>8. CASE Odd(e) # odd
  <2>1. \A m \in Nat \ {0} : Odd(m) = odd => m # e
    BY <1>8
  <2>2. Odd(e + 1) = odd /\ Odd(e - 1) = odd
    BY <1>5, <1>8
  <2>3. CASE n > p
    <3>1. OnSide(n, d, odd) = e + 1
      BY <1>2, <1>3, <1>8, <2>2, <2>3 DEF OnSide
    <3>2. ASSUME NEW m \in Nat \ {0}, m # e PROVE Abs(n - (e + 1) * d) <= Abs(n - m * d)
      <4>1. PICK q \in Int : q = m * d /\ (m < e => q <= p - d /\ e # 1) /\ (m > e => q >= p + d)
        BY <1>6
      <4>2. Abs(n - (p + d)) <= Abs(n - q)
        BY <1>4, <2>3, <3>2, <4>1 DEF Abs
      <4>. QED
        BY <1>3, <4>1, <4>2
    <3>. QED
      BY <2>1, <2>2, <3>1, <3>2
  <2>4. CASE n <= p /\ e = 1
    <3>1. Max({1, e - 1}) = 1
      BY <2>4 DEF Max
    <3>2. OnSide(n, d, odd) = e + 1
      BY <1>2, <1>3, <1>8, <2>4, <3>1 DEF OnSide
    <3>3. ASSUME NEW m \in Nat \ {0}, m # e PROVE Abs(n - (e + 1) * d) <= Abs(n - m * d)
      <4>1. PICK q \in Int : q = m * d /\ (m > e => q >= p + d)
        BY <1>6
      <4>2. Abs(n - (p + d)) <= Abs(n - q)
        BY <2>4, <3>3, <4>1 DEF Abs
      <4>. QED
        BY <1>3, <4>1, <4>2
    <3>. QED
      BY <2>1, <2>2, <3>2, <3>3
  <2>5. CASE n <= p /\ e # 1
    <3>1. Max({1, e - 1}) = e - 1
      BY <2>5, LargerOf
    <3>2. OnSide(n, d, odd) = e - 1
      BY <1>2, <1>3, <1>8, <2>2, <2>5, <3>1 DEF OnSide
    <3>3. ASSUME NEW m \in Nat \ {0}, m # e PROVE Abs(n - (e - 1) * d) <= Abs(n - m * d)
      <4>1. PICK q \in Int : q = m * d /\ (m < e => q <= p - d /\ e # 1) /\ (m > e => q >= p + d)
        BY <1>6
      <4>2. Abs(n - (p - d)) <= Abs(n - q)
        BY <1>4, <2>5, <3>3, <4>1 DEF Abs
      <4>. QED
        BY <1>3, <4>1, <4>2
    <3>. QED
      BY <2>1, <2>2, <2>5, <3>2, <3>3
  <2>. QED
    BY <2>3, <2>4, <2>5
<1>. QED
  BY <1>7, <1>8

LEMMA DistanceFacts ==
    ASSUME NEW p \in Corners, NEW q \in Corners
    PROVE  Distance(p, q) \in Nat /\ (Distance(p, q) = 0 => p = q)
<1>1. PICK a \in Int, b \in Int, c \in Int, d \in Int : p = <<a, b>> /\ q = <<c, d>>
  BY DEF Corners
<1>2. Distance(p, q) = Abs(a - c) + Abs(b - d)
  BY <1>1 DEF Distance
<1>3. Abs(a - c) \in Nat /\ Abs(b - d) \in Nat /\ (Abs(a - c) + Abs(b - d) = 0 => a = c /\ b = d)
  BY DEF Abs
<1>. QED
  BY <1>1, <1>2, <1>3

\* How far along a line its corners are is chosen to be:
AlongIs(line, f) ==
    f = [i \in DOMAIN line |-> IF i = 1 THEN 0 ELSE f[i - 1] + Distance(line[i - 1], line[i])]

LEMMA AlongIsChosen ==
    ASSUME NEW line
    PROVE  Along(line) = CHOOSE f : AlongIs(line, f)
BY DEF Along, AlongIs

(* There is such a function, so the choice has what it says.               *)
LEMMA AlongFacts ==
    ASSUME NEW line \in Seq(Corners), NEW f, f = Along(line)
    PROVE  /\ \A i \in 1 .. Len(line) : f[i] \in Nat
           /\ Len(line) > 0 => f[1] = 0
           /\ \A i \in 1 .. Len(line) - 1 : f[i + 1] = f[i] + Distance(line[i], line[i + 1])
<1>1. PICK n \in Nat : n = Len(line) /\ DOMAIN line = 1 .. n
  OBVIOUS
<1>2. \A i \in 1 .. n : line[i] \in Corners
  BY <1>1
<1> DEFINE st == [p \in Nat \X (1 .. n) |-> IF p[2] = 1 THEN 0
                                            ELSE p[1] + Distance(line[p[2] - 1], line[p[2]])]
<1>3. \A x \in Nat, i \in 1 .. n :
         st[<<x, i>>] = IF i = 1 THEN 0 ELSE x + Distance(line[i - 1], line[i])
  OBVIOUS
<1>4. ASSUME NEW i \in 1 .. n, i # 1 PROVE Distance(line[i - 1], line[i]) \in Nat
  <2>1. line[i - 1] \in Corners /\ line[i] \in Corners
    BY <1>2, <1>4
  <2>. QED
    BY <2>1, DistanceFacts
<1>5. StepsOn(Nat, n, st)
  BY <1>4 DEF StepsOn
<1> HIDE DEF st
<1>6. PICK g : Carried(Nat, 0, n, st, g)
  BY <1>5, Iterates
<1>7. \A i \in 0 .. n : g[i] \in Nat
  BY <1>6 DEF Carried
<1>8. ASSUME NEW i \in 1 .. n
      PROVE  g[i] = IF i = 1 THEN 0 ELSE g[i - 1] + Distance(line[i - 1], line[i])
  <2>1. g[i] = st[<<g[i - 1], i>>] /\ g[i - 1] \in Nat
    BY <1>6, <1>7 DEF Carried
  <2>. QED
    BY <1>3, <2>1
<1> DEFINE r == [i \in 1 .. n |-> g[i]]
<1>9. AlongIs(line, r)
  <2>1. ASSUME NEW i \in 1 .. n
        PROVE  r[i] = IF i = 1 THEN 0 ELSE r[i - 1] + Distance(line[i - 1], line[i])
    BY <1>8
  <2>. QED
    BY <1>1, <2>1 DEF AlongIs
<1>10. AlongIs(line, f)
  BY <1>9, AlongIsChosen
<1>11. ASSUME NEW i \in 1 .. n
       PROVE  f[i] = IF i = 1 THEN 0 ELSE f[i - 1] + Distance(line[i - 1], line[i])
  BY <1>1, <1>10 DEF AlongIs
<1>12. 0 .. n \subseteq {i \in 0 .. n : i = 0 \/ f[i] \in Nat}
  <2> DEFINE S == {i \in 0 .. n : i = 0 \/ f[i] \in Nat}
  <2>1. 0 \in S
    OBVIOUS
  <2>2. ASSUME NEW k \in 1 .. n, k - 1 \in S PROVE k \in S
    <3>1. k = 1 \/ f[k - 1] \in Nat
      BY <2>2
    <3>2. f[k] \in Nat
      BY <1>4, <1>11, <3>1
    <3>. QED
      BY <3>2
  <2> HIDE DEF S
  <2>3. 0 .. n \subseteq S
    BY <2>1, <2>2, UpTo
  <2>. QED
    BY <2>3 DEF S
<1>13. ASSUME NEW i \in 1 .. n - 1 PROVE f[i + 1] = f[i] + Distance(line[i], line[i + 1])
  <2>1. i + 1 \in 1 .. n /\ i + 1 # 1 /\ (i + 1) - 1 = i
    OBVIOUS
  <2>. QED
    BY <1>11, <2>1
<1>14. \A i \in 1 .. n : f[i] \in Nat
  BY <1>12
<1>15. n > 0 => f[1] = 0
  BY <1>11
<1>. QED
  BY <1>1, <1>13, <1>14, <1>15

(* A corner further on is no nearer to the start; as near, it is the same. *)
LEMMA AlongGrows ==
    ASSUME NEW line \in Seq(Corners), NEW f, f = Along(line),
           NEW i \in 1 .. Len(line), NEW j \in 1 .. Len(line), i <= j
    PROVE  f[i] <= f[j] /\ (f[i] = f[j] => line[i] = line[j])
<1>1. PICK n \in Nat : n = Len(line)
  OBVIOUS
<1> DEFINE S == {k \in 0 .. n : k <= i \/ (f[i] <= f[k] /\ (f[i] = f[k] => line[i] = line[k]))}
<1>2. 0 \in S
  BY <1>1
<1>3. ASSUME NEW k \in 1 .. n, k - 1 \in S PROVE k \in S
  <2>1. CASE k <= i
    BY <2>1
  <2>2. CASE k > i
    <3>1. k - 1 \in 1 .. n - 1 /\ (k - 1) + 1 = k /\ k - 1 >= i
      BY <1>1, <2>2
    <3>2. f[i] <= f[k - 1] /\ (f[i] = f[k - 1] => line[i] = line[k - 1])
      <4>1. CASE k - 1 = i
        BY <1>1, <4>1, AlongFacts
      <4>2. CASE k - 1 # i
        BY <1>3, <3>1, <4>2
      <4>. QED
        BY <4>1, <4>2
    <3>3. f[k] = f[k - 1] + Distance(line[k - 1], line[k])
      BY <1>1, <3>1, AlongFacts
    <3>4. f[i] \in Nat /\ f[k - 1] \in Nat
      BY <1>1, <3>1, AlongFacts
    <3>5. Distance(line[k - 1], line[k]) \in Nat
          /\ (Distance(line[k - 1], line[k]) = 0 => line[k - 1] = line[k])
      <4>1. line[k - 1] \in Corners /\ line[k] \in Corners
        BY <1>1, <3>1
      <4>. QED
        BY <4>1, DistanceFacts
    <3>6. f[i] <= f[k]
      BY <3>2, <3>3, <3>4, <3>5
    <3>7. f[i] = f[k] => line[i] = line[k]
      BY <3>2, <3>3, <3>4, <3>5
    <3>. QED
      BY <3>6, <3>7
  <2>. QED
    BY <2>1, <2>2
<1>4. 0 .. n \subseteq S
  <2> HIDE DEF S
  <2>. QED
    BY <1>2, <1>3, UpTo
<1>5. j \in S
  BY <1>1, <1>4
<1>6. CASE j <= i
  <2>1. i = j /\ f[i] \in Nat
    BY <1>6, AlongFacts
  <2>. QED
    BY <2>1
<1>. QED
  BY <1>5, <1>6

LEMMA PairFacts ==
    ASSUME NEW m \in Int, NEW n \in Int
    PROVE  /\ Max({m, n}) = IF m >= n THEN m ELSE n
           /\ Min({m, n}) = IF m <= n THEN m ELSE n
<1>1. PICK x \in {m, n} : \A y \in {m, n} : x >= y
  OBVIOUS
<1>2. PICK z \in {m, n} : \A y \in {m, n} : z <= y
  OBVIOUS
<1>3. \A w : (w \in {m, n} /\ \A y \in {m, n} : w >= y) => w = x
  BY <1>1
<1>4. \A w : (w \in {m, n} /\ \A y \in {m, n} : w <= y) => w = z
  BY <1>2
<1>5. Max({m, n}) = x
  BY <1>1, <1>3 DEF Max
<1>6. Min({m, n}) = z
  BY <1>2, <1>4 DEF Min
<1>. QED
  BY <1>1, <1>2, <1>5, <1>6

\* x is a, b or between them.
Between(x, a, b) == (a <= x /\ x <= b) \/ (b <= x /\ x <= a)
Inside(p, a, b)  == p \in Corners /\ Between(p[1], a[1], b[1]) /\ Between(p[2], a[2], b[2])
Square(p, q)     == (p[1] - q[1]) * (p[1] - q[1]) + (p[2] - q[2]) * (p[2] - q[2])

\* Of what is between a and b, c is the nearest to n.
NearestOf(c, n, a, b) ==
    c \in Int /\ Between(c, a, b) /\ \A x \in Int : Between(x, a, b) => Abs(n - c) <= Abs(n - x)

(* What clamping does: no number in between is nearer.                     *)
LEMMA ClampFacts ==
    ASSUME NEW n \in Int, NEW a \in Int, NEW b \in Int
    PROVE  NearestOf(Clamp(n, Min({a, b}), Max({a, b})), n, a, b)
<1>1. PICK lo \in Int, hi \in Int :
         lo = Min({a, b}) /\ hi = Max({a, b}) /\ lo = (IF a <= b THEN a ELSE b) /\ hi = (IF a >= b THEN a ELSE b)
  BY PairFacts
<1>2. PICK c \in Int : c = Clamp(n, lo, hi)
  BY DEF Clamp
<1>3. lo <= c /\ c <= hi /\ \A x \in Int : lo <= x /\ x <= hi => Abs(n - c) <= Abs(n - x)
  <2>1. lo <= hi
    BY <1>1
  <2>. QED
    BY <1>2, <2>1 DEF Clamp, Abs
<1>4. \A x \in Int : Between(x, a, b) <=> lo <= x /\ x <= hi
  BY <1>1 DEF Between
<1>5. NearestOf(c, n, a, b)
  BY <1>3, <1>4 DEF NearestOf
<1>. QED
  BY <1>1, <1>2, <1>5

(* What is nearer on both axes is nearer.                                  *)
LEMMA SquareGrows ==
    ASSUME NEW a \in Int, NEW b \in Int, Abs(a) <= Abs(b)
    PROVE  a * a \in Nat /\ a * a <= b * b
<1>1. PICK x \in Nat, y \in Nat : x = Abs(a) /\ y = Abs(b)
  BY DEF Abs
<1>2. x * x = a * a /\ y * y = b * b
  BY <1>1 DEF Abs
<1>3. PICK z \in Nat : y = x + z
  <2>1. y - x \in Nat /\ y = x + (y - x)
    BY <1>1
  <2>. QED
    BY <2>1
<1>4. y * y = x * x + 2 * (x * z) + z * z
  BY <1>3
<1>5. x * x \in Nat /\ x * z \in Nat /\ z * z \in Nat
  OBVIOUS
<1>. QED
  BY <1>2, <1>4, <1>5

(* The foot of a point on a segment is in it, and nothing else there is    *)
(* nearer.                                                                 *)
LEMMA FootFacts ==
    ASSUME NEW p \in Corners, NEW a \in Corners, NEW b \in Corners,
           NEW foot, foot = OnSegment(p, a, b)
    PROVE  /\ Inside(foot, a, b) /\ Square(p, foot) \in Nat
           /\ \A q \in Corners : Inside(q, a, b) => Square(p, foot) <= Square(p, q)
<1>1. /\ p[1] \in Int /\ p[2] \in Int /\ a[1] \in Int /\ a[2] \in Int /\ b[1] \in Int /\ b[2] \in Int
  BY DEF Corners
<1>2. PICK c \in Int, d \in Int :
         foot = <<c, d>> /\ NearestOf(c, p[1], a[1], b[1]) /\ NearestOf(d, p[2], a[2], b[2])
  <2>1. /\ NearestOf(foot[1], p[1], a[1], b[1]) /\ NearestOf(foot[2], p[2], a[2], b[2])
        /\ foot = <<foot[1], foot[2]>>
    BY <1>1, ClampFacts DEF OnSegment
  <2>. QED
    BY <2>1 DEF NearestOf
<1>3. Square(p, foot) = (p[1] - c) * (p[1] - c) + (p[2] - d) * (p[2] - d)
  BY <1>2 DEF Square
<1>4. (p[1] - c) * (p[1] - c) \in Nat /\ (p[2] - d) * (p[2] - d) \in Nat
  <2>1. p[1] - c \in Int /\ p[2] - d \in Int /\ \A x \in Int : Abs(x) <= Abs(x)
    BY <1>1 DEF Abs
  <2>. QED
    BY <2>1, SquareGrows
<1>5. ASSUME NEW q \in Corners, Inside(q, a, b) PROVE Square(p, foot) <= Square(p, q)
  <2>1. q[1] \in Int /\ q[2] \in Int
    BY DEF Corners
  <2>2. Abs(p[1] - c) <= Abs(p[1] - q[1]) /\ Abs(p[2] - d) <= Abs(p[2] - q[2])
    BY <1>2, <1>5, <2>1 DEF Inside, NearestOf
  <2>3. /\ (p[1] - c) * (p[1] - c) <= (p[1] - q[1]) * (p[1] - q[1])
        /\ (p[2] - d) * (p[2] - d) <= (p[2] - q[2]) * (p[2] - q[2])
    <3>1. p[1] - c \in Int /\ p[1] - q[1] \in Int /\ p[2] - d \in Int /\ p[2] - q[2] \in Int
      BY <1>1, <2>1
    <3>. QED
      BY <2>2, <3>1, SquareGrows
  <2>4. /\ (p[1] - q[1]) * (p[1] - q[1]) \in Int /\ (p[2] - q[2]) * (p[2] - q[2]) \in Int
    BY <1>1, <2>1
  <2>. QED
    BY <1>3, <1>4, <2>3, <2>4 DEF Square
<1>6. foot \in Corners /\ foot[1] = c /\ foot[2] = d
  BY <1>2 DEF Corners
<1>. QED
  BY <1>2, <1>3, <1>4, <1>5, <1>6 DEF Inside, NearestOf

(* The first of the least.                                                 *)
LEMMA FirstLeast ==
    ASSUME NEW n \in Nat, n > 0, NEW s, \A i \in 1 .. n : s[i] \in Nat
    PROVE  \E i \in 1 .. n : (\A j \in 1 .. n : s[i] <= s[j]) /\ (\A j \in 1 .. i - 1 : s[i] < s[j])
<1> DEFINE V == {s[i] : i \in 1 .. n}
<1>1. PICK v \in V : \A w \in V : v <= w
  <2>1. V \subseteq Nat /\ V # {}
    <3>1. 1 \in 1 .. n
      OBVIOUS
    <3>. QED
      BY <3>1
  <2> HIDE DEF V
  <2>. QED
    BY <2>1, LeastOf
<1> DEFINE I == {i \in 1 .. n : s[i] = v}
<1>2. PICK i \in I : \A j \in I : i <= j
  <2>1. I \subseteq Nat /\ I # {}
    OBVIOUS
  <2> HIDE DEF I
  <2>. QED
    BY <2>1, LeastOf
<1>3. \A j \in 1 .. n : s[i] <= s[j]
  BY <1>1, <1>2
<1>4. ASSUME NEW j \in 1 .. i - 1 PROVE s[i] < s[j]
  <2>1. j \in 1 .. n /\ j < i /\ i \in 1 .. n
    BY <1>2
  <2>2. s[j] # v /\ s[i] = v
    BY <1>2, <2>1
  <2>3. s[i] <= s[j] /\ s[j] \in Nat /\ s[i] \in Nat
    BY <1>3, <2>1
  <2>. QED
    BY <2>2, <2>3
<1>. QED
  BY <1>3, <1>4

Foot(p, line, i) == OnSegment(p, line[i], line[i + 1])
Closest(p, line, i) ==
    /\ \A j \in 1 .. Len(line) - 1 : Square(p, Foot(p, line, i)) <= Square(p, Foot(p, line, j))
    /\ \A j \in 1 .. i - 1 : Square(p, Foot(p, line, i)) < Square(p, Foot(p, line, j))

LEMMA ProjectionIsChosen ==
    ASSUME NEW p, NEW line, NEW best, best = CHOOSE i \in 1 .. Len(line) - 1 : Closest(p, line, i)
    PROVE  ProjectOntoLine(p, line) =
             IF TotalLength(line) = 0 THEN [at |-> p, along |-> 0]
             ELSE [at |-> Foot(p, line, best),
                   along |-> Along(line)[best] + Distance(line[best], Foot(p, line, best))]
BY DEF ProjectOntoLine, Closest, Foot, Square

(* A line with a length has segments.                                      *)
LEMMA LengthFacts ==
    ASSUME NEW line \in Seq(Corners), line # <<>>
    PROVE  /\ TotalLength(line) \in Nat
           /\ TotalLength(line) # 0 => Len(line) - 1 \in Nat /\ Len(line) - 1 > 0
<1>1. PICK n \in Nat : n = Len(line) /\ n > 0
  OBVIOUS
<1>2. n \in 1 .. Len(line) /\ 1 \in 1 .. Len(line)
  BY <1>1
<1>3. Along(line)[n] \in Nat /\ Along(line)[1] = 0
  BY <1>1, <1>2, AlongFacts
<1>. QED
  BY <1>1, <1>3 DEF TotalLength

(* No point of a line is nearer than the projection, which is in a segment.*)
LEMMA ProjectFacts ==
    ASSUME NEW line \in Seq(Corners), line # <<>>, NEW p \in Corners, TotalLength(line) # 0
    PROVE  \E i \in 1 .. Len(line) - 1 : \E foot \in Corners :
              /\ ProjectOntoLine(p, line) =
                    [at |-> foot, along |-> Along(line)[i] + Distance(line[i], foot)]
              /\ Inside(foot, line[i], line[i + 1])
              /\ \A j \in 1 .. Len(line) - 1 : \A q \in Corners :
                    Inside(q, line[j], line[j + 1]) => Square(p, foot) <= Square(p, q)
<1>1. PICK n \in Nat : n = Len(line) - 1 /\ n > 0
  BY LengthFacts
<1>2. ASSUME NEW i \in 1 .. n
      PROVE  /\ line[i] \in Corners /\ line[i + 1] \in Corners
             /\ Inside(Foot(p, line, i), line[i], line[i + 1]) /\ Square(p, Foot(p, line, i)) \in Nat
             /\ \A q \in Corners : Inside(q, line[i], line[i + 1])
                                     => Square(p, Foot(p, line, i)) <= Square(p, q)
  <2>1. PICK a \in Corners, b \in Corners : a = line[i] /\ b = line[i + 1]
    BY <1>1
  <2>2. /\ Inside(OnSegment(p, a, b), a, b) /\ Square(p, OnSegment(p, a, b)) \in Nat
        /\ \A q \in Corners : Inside(q, a, b) => Square(p, OnSegment(p, a, b)) <= Square(p, q)
    BY FootFacts
  <2>3. Foot(p, line, i) = OnSegment(p, a, b)
    BY <2>1 DEF Foot
  <2>. QED
    BY <2>1, <2>2, <2>3
<1> DEFINE s == [i \in 1 .. n |-> Square(p, Foot(p, line, i))]
<1>3. \A i \in 1 .. n : s[i] \in Nat /\ s[i] = Square(p, Foot(p, line, i))
  BY <1>2
<1> HIDE DEF s
<1>4. PICK k \in 1 .. n : (\A j \in 1 .. n : s[k] <= s[j]) /\ (\A j \in 1 .. k - 1 : s[k] < s[j])
  BY <1>1, <1>3, FirstLeast
<1>5. Closest(p, line, k)
  <2>1. \A j \in 1 .. k - 1 : j \in 1 .. n
    OBVIOUS
  <2>. QED
    BY <1>1, <1>3, <1>4, <2>1 DEF Closest
<1>6. PICK i \in 1 .. n : i = (CHOOSE b \in 1 .. Len(line) - 1 : Closest(p, line, b)) /\ Closest(p, line, i)
  BY <1>1, <1>5
<1>7. PICK foot \in Corners : foot = Foot(p, line, i)
  BY <1>2 DEF Inside
<1>8. ProjectOntoLine(p, line) = [at |-> foot, along |-> Along(line)[i] + Distance(line[i], foot)]
  BY <1>6, <1>7, ProjectionIsChosen
<1>9. ASSUME NEW j \in 1 .. n, NEW q \in Corners, Inside(q, line[j], line[j + 1])
      PROVE  Square(p, foot) <= Square(p, q)
  <2>1. Square(p, foot) <= Square(p, Foot(p, line, j))
    BY <1>1, <1>6, <1>7 DEF Closest
  <2>2. Square(p, Foot(p, line, j)) <= Square(p, q) /\ Square(p, Foot(p, line, j)) \in Nat
    BY <1>2, <1>9
  <2>3. Square(p, foot) \in Nat
    BY <1>2, <1>7
  <2>4. Square(p, q) \in Int
    BY DEF Square, Corners
  <2>. QED
    BY <2>1, <2>2, <2>3, <2>4
<1>10. Inside(foot, line[i], line[i + 1])
  BY <1>2, <1>7
<1>. QED
  BY <1>1, <1>8, <1>9, <1>10

LEMMA ProjectTyped ==
    ASSUME NEW line \in Seq(Corners), line # <<>>, NEW p \in Corners
    PROVE  ProjectOntoLine(p, line).along \in Nat
<1>1. CASE TotalLength(line) = 0
  <2>1. PICK best : best = CHOOSE i \in 1 .. Len(line) - 1 : Closest(p, line, i)
    OBVIOUS
  <2>2. ProjectOntoLine(p, line) = [at |-> p, along |-> 0]
    BY <1>1, <2>1, ProjectionIsChosen
  <2>. QED
    BY <2>2
<1>2. CASE TotalLength(line) # 0
  <2>1. PICK i \in 1 .. Len(line) - 1, foot \in Corners :
            ProjectOntoLine(p, line) = [at |-> foot, along |-> Along(line)[i] + Distance(line[i], foot)]
    BY <1>2, ProjectFacts
  <2>2. i \in 1 .. Len(line) /\ line[i] \in Corners
    OBVIOUS
  <2>3. Along(line)[i] \in Nat /\ Distance(line[i], foot) \in Nat
    BY <2>2, AlongFacts, DistanceFacts
  <2>. QED
    BY <2>1, <2>3
<1>. QED
  BY <1>1, <1>2

----------------------------------------------------------------------------
OnAxis(a, b) == a[1] = b[1] \/ a[2] = b[2]

LEMMA SignFacts ==
    ASSUME NEW n \in Int
    PROVE  Sign(n) = IF n = 0 THEN 0 ELSE IF n > 0 THEN 1 ELSE 0 - 1
<1>1. CASE n > 0
  <2>1. n \div n = 1
    BY <1>1
  <2>. QED
    BY <1>1, <2>1 DEF Sign, Abs
<1>2. CASE n < 0
  <2>1. PICK m \in Nat : m = 0 - n /\ m > 0 /\ n = 0 - m
    BY <1>2
  <2>2. (0 - m) \div m = 0 - 1
    BY <2>1
  <2>. QED
    BY <1>2, <2>1, <2>2 DEF Sign, Abs
<1>. QED
  BY <1>1, <1>2 DEF Sign

LEMMA WalkFacts ==
    ASSUME NEW a \in Corners, NEW b \in Corners, OnAxis(a, b), NEW t \in 0 .. Distance(a, b)
    PROVE  Inside(Walk(a, b, t), a, b) /\ (t = Distance(a, b) => Walk(a, b, t) = b)
<1>1. PICK x \in Int, y \in Int, v \in Int, w \in Int : a = <<x, y>> /\ b = <<v, w>> /\ (x = v \/ y = w)
  BY DEF Corners, OnAxis
<1>2. t \in Int /\ 0 <= t /\ t <= Abs(x - v) + Abs(y - w)
  <2>1. Distance(a, b) = Abs(x - v) + Abs(y - w)
    BY <1>1 DEF Distance
  <2>2. Abs(x - v) + Abs(y - w) \in Int
    BY DEF Abs
  <2>. QED
    BY <2>1, <2>2
<1>3. PICK s \in Int, u \in Int : /\ s = t * Sign(v - x) /\ u = t * Sign(w - y)
                                /\ s = (IF v = x THEN 0 ELSE IF v > x THEN t ELSE 0 - t)
                                /\ u = (IF w = y THEN 0 ELSE IF w > y THEN t ELSE 0 - t)
  <2>1. t * 0 = 0 /\ t * 1 = t /\ t * (0 - 1) = 0 - t
    BY <1>2
  <2>2. v - x \in Int /\ w - y \in Int /\ (v - x = 0 <=> v = x) /\ (w - y = 0 <=> w = y)
        /\ (v - x > 0 <=> v > x) /\ (w - y > 0 <=> w > y)
    OBVIOUS
  <2>3. t * Sign(v - x) = (IF v = x THEN 0 ELSE IF v > x THEN t ELSE 0 - t)
    BY <2>1, <2>2, SignFacts
  <2>4. t * Sign(w - y) = (IF w = y THEN 0 ELSE IF w > y THEN t ELSE 0 - t)
    BY <2>1, <2>2, SignFacts
  <2>. QED
    BY <1>2, <2>3, <2>4
<1>4. Walk(a, b, t) = <<x + s, y + u>>
  BY <1>1, <1>3 DEF Walk
<1>5. Between(x + s, x, v) /\ Between(y + u, y, w)
  BY <1>1, <1>2, <1>3 DEF Between, Abs
<1>6. t = Abs(x - v) + Abs(y - w) => x + s = v /\ y + u = w
  BY <1>1, <1>2, <1>3 DEF Abs
<1>7. Distance(a, b) = Abs(x - v) + Abs(y - w)
  BY <1>1 DEF Distance
<1>8. x + s \in Int /\ y + u \in Int
  OBVIOUS
<1>. QED
  BY <1>1, <1>4, <1>5, <1>6, <1>7, <1>8 DEF Inside, Corners

\* A point of a segment is reached by walking as far as it is.
LEMMA WalkedTo ==
    ASSUME NEW a \in Corners, NEW b \in Corners, OnAxis(a, b), NEW q, Inside(q, a, b)
    PROVE  Distance(a, q) \in 0 .. Distance(a, b) /\ Walk(a, b, Distance(a, q)) = q
<1>1. PICK x \in Int, y \in Int, v \in Int, w \in Int : a = <<x, y>> /\ b = <<v, w>> /\ (x = v \/ y = w)
  BY DEF Corners, OnAxis
<1>2. PICK m \in Int, n \in Int : q = <<m, n>> /\ Between(m, x, v) /\ Between(n, y, w)
  BY <1>1 DEF Inside, Corners
<1>3. PICK t \in Nat : t = Distance(a, q) /\ t = Abs(x - m) + Abs(y - n)
  BY <1>1, <1>2 DEF Distance, Abs
<1>4. Distance(a, b) = Abs(x - v) + Abs(y - w) /\ t <= Abs(x - v) + Abs(y - w)
  <2>1. Distance(a, b) = Abs(x - v) + Abs(y - w)
    BY <1>1 DEF Distance
  <2>. QED
    BY <1>1, <1>2, <1>3, <2>1 DEF Between, Abs
<1>5. Sign(v - x) = (IF v = x THEN 0 ELSE IF v > x THEN 1 ELSE 0 - 1)
      /\ Sign(w - y) = (IF w = y THEN 0 ELSE IF w > y THEN 1 ELSE 0 - 1)
  <2>1. v - x \in Int /\ w - y \in Int /\ (v - x = 0 <=> v = x) /\ (w - y = 0 <=> w = y)
        /\ (v - x > 0 <=> v > x) /\ (w - y > 0 <=> w > y)
    OBVIOUS
  <2>. QED
    BY <2>1, SignFacts
<1>6. t * 0 = 0 /\ t * 1 = t /\ t * (0 - 1) = 0 - t
  OBVIOUS
<1>7. x + t * Sign(v - x) = m
  BY <1>1, <1>2, <1>3, <1>5, <1>6 DEF Between, Abs
<1>8. y + t * Sign(w - y) = n
  BY <1>1, <1>2, <1>3, <1>5, <1>6 DEF Between, Abs
<1>9. Abs(x - v) + Abs(y - w) \in Nat
  BY DEF Abs
<1>. QED
  BY <1>1, <1>2, <1>3, <1>4, <1>7, <1>8, <1>9 DEF Walk

Reaches(line, goal, i) ==
    Along(line)[i + 1] >= goal /\ \A j \in 1 .. i - 1 : Along(line)[j + 1] < goal

(* The point so far along a line is in the first segment that reaches it.  *)
LEMMA PointFacts ==
    ASSUME NEW line, OnGrid(line), line # <<>>, TotalLength(line) # 0,
           NEW along \in Nat, along <= TotalLength(line)
    PROVE  \E i \in 1 .. Len(line) - 1 :
              /\ Reaches(line, along, i) /\ Along(line)[i] <= along
              /\ line[i] \in Corners /\ line[i + 1] \in Corners /\ OnAxis(line[i], line[i + 1])
              /\ along - Along(line)[i] \in 0 .. Distance(line[i], line[i + 1])
              /\ Along(line)[i + 1] = Along(line)[i] + Distance(line[i], line[i + 1])
              /\ PointAt(line, along) = Walk(line[i], line[i + 1], along - Along(line)[i])
<1>1. line \in Seq(Corners)
  BY DEF OnGrid
<1>2. PICK n \in Nat : n = Len(line) - 1 /\ n > 0 /\ n + 1 = Len(line)
  BY <1>1, LengthFacts
<1>3. TotalLength(line) \in Nat /\ TotalLength(line) = Along(line)[n + 1]
  BY <1>1, <1>2, LengthFacts DEF TotalLength
<1>4. \A i \in 1 .. n + 1 : Along(line)[i] \in Nat
  BY <1>1, <1>2, AlongFacts
<1> DEFINE R == {i \in 1 .. n : Along(line)[i + 1] >= along}
<1>5. PICK k \in R : \A i \in R : k <= i
  <2>1. n \in R /\ R \subseteq Nat
    BY <1>2, <1>3
  <2> HIDE DEF R
  <2>. QED
    BY <2>1, LeastOf
<1>6. Reaches(line, along, k)
  <2>1. ASSUME NEW j \in 1 .. k - 1 PROVE Along(line)[j + 1] < along
    <3>1. j \in 1 .. n /\ j \notin R /\ j + 1 \in 1 .. n + 1
      BY <1>5
    <3>2. Along(line)[j + 1] \in Nat
      BY <1>4, <3>1
    <3>. QED
      BY <3>1, <3>2
  <2>. QED
    BY <1>5, <2>1 DEF Reaches
<1>14. Clamp(along, 0, TotalLength(line)) = along
  BY <1>3 DEF Clamp
<1>7. PICK i \in 1 .. n : i = SegmentAt(line, along) /\ Reaches(line, along, i)
  BY <1>2, <1>5, <1>6 DEF SegmentAt, Reaches
<1>8. i \in 1 .. Len(line) - 1 /\ i \in 1 .. n + 1 /\ i + 1 \in 1 .. n + 1
  BY <1>2
<1>9. Along(line)[i] <= along
  <2>1. CASE i = 1
    BY <1>1, <1>2, <2>1, AlongFacts
  <2>2. CASE i # 1
    <3>1. i - 1 \in 1 .. i - 1 /\ (i - 1) + 1 = i
      BY <2>2
    <3>2. Along(line)[i] < along
      BY <1>7, <3>1 DEF Reaches
    <3>. QED
      BY <1>4, <1>8, <3>2
  <2>. QED
    BY <2>1, <2>2
<1>10. line[i] \in Corners /\ line[i + 1] \in Corners /\ OnAxis(line[i], line[i + 1])
  BY <1>1, <1>2, <1>8 DEF OnGrid, OnAxis
<1>11. Along(line)[i + 1] = Along(line)[i] + Distance(line[i], line[i + 1])
  BY <1>1, <1>8, AlongFacts
<1>12. along - Along(line)[i] \in 0 .. Distance(line[i], line[i + 1])
  <2>1. /\ Along(line)[i] \in Nat /\ Distance(line[i], line[i + 1]) \in Nat
        /\ along <= Along(line)[i + 1]
    BY <1>4, <1>7, <1>8, <1>10, DistanceFacts DEF Reaches
  <2>. QED
    BY <1>9, <1>11, <2>1
<1>13. PointAt(line, along) = Walk(line[i], line[i + 1], along - Along(line)[i])
  BY <1>7, <1>14 DEF PointAt
<1>. QED
  BY <1>7, <1>8, <1>9, <1>10, <1>11, <1>12, <1>13

(* Walking as far as the projection is leads to it, and nowhere does the   *)
(* line come nearer.                                                       *)
LEMMA SnapFacts ==
    ASSUME NEW line, OnGrid(line), line # <<>>, TotalLength(line) # 0,
           NEW p \in Corners, NEW foot, foot = ProjectOntoLine(p, line)
    PROVE  /\ PointAt(line, foot.along) = foot.at
           /\ foot.at \in Corners
           /\ \A along \in 0 .. TotalLength(line) :
                 PointAt(line, along) \in Corners /\ Square(p, foot.at) <= Square(p, PointAt(line, along))
<1>1. line \in Seq(Corners) /\ TotalLength(line) \in Nat
  BY LengthFacts DEF OnGrid
<1>2. PICK b \in 1 .. Len(line) - 1, at \in Corners :
         /\ foot = [at |-> at, along |-> Along(line)[b] + Distance(line[b], at)]
         /\ Inside(at, line[b], line[b + 1])
         /\ \A j \in 1 .. Len(line) - 1 : \A q \in Corners :
               Inside(q, line[j], line[j + 1]) => Square(p, at) <= Square(p, q)
  BY <1>1, ProjectFacts
<1>3. ASSUME NEW along \in 0 .. TotalLength(line)
      PROVE  PointAt(line, along) \in Corners /\ Square(p, at) <= Square(p, PointAt(line, along))
  <2>1. along \in Nat /\ along <= TotalLength(line)
    BY <1>1
  <2>2. PICK i \in 1 .. Len(line) - 1 :
           /\ line[i] \in Corners /\ line[i + 1] \in Corners /\ OnAxis(line[i], line[i + 1])
           /\ along - Along(line)[i] \in 0 .. Distance(line[i], line[i + 1])
           /\ PointAt(line, along) = Walk(line[i], line[i + 1], along - Along(line)[i])
    BY <2>1, PointFacts
  <2>3. Inside(PointAt(line, along), line[i], line[i + 1])
    BY <2>2, WalkFacts
  <2>. QED
    BY <1>2, <2>3 DEF Inside
<1>4. PICK n \in Nat : n = Len(line) - 1 /\ n > 0 /\ n + 1 = Len(line)
  BY <1>1, LengthFacts
<1>5. /\ line[b] \in Corners /\ line[b + 1] \in Corners /\ OnAxis(line[b], line[b + 1])
      /\ b \in 1 .. n /\ b \in 1 .. Len(line) /\ b + 1 \in 1 .. Len(line)
  BY <1>1, <1>4 DEF OnGrid, OnAxis
<1>6. Along(line)[b] \in Nat /\ Along(line)[b + 1] = Along(line)[b] + Distance(line[b], line[b + 1])
  BY <1>1, <1>5, AlongFacts
<1>7. /\ Distance(line[b], at) \in 0 .. Distance(line[b], line[b + 1])
      /\ Walk(line[b], line[b + 1], Distance(line[b], at)) = at
      /\ Distance(line[b], line[b + 1]) \in Nat
  BY <1>2, <1>5, WalkedTo, DistanceFacts
<1>8. PICK along \in Nat : along = foot.along /\ along = Along(line)[b] + Distance(line[b], at)
  BY <1>2, <1>6, <1>7
<1>9. along <= Along(line)[b + 1] /\ along <= TotalLength(line)
  <2>1. along <= Along(line)[b + 1]
    BY <1>6, <1>7, <1>8
  <2>2. n + 1 \in 1 .. Len(line) /\ b + 1 <= n + 1 /\ TotalLength(line) = Along(line)[n + 1]
    BY <1>4, <1>5 DEF TotalLength
  <2>3. Along(line)[b + 1] <= Along(line)[n + 1]
    BY <1>1, <1>5, <2>2, AlongGrows
  <2>. QED
    BY <1>1, <1>6, <1>7, <2>1, <2>2, <2>3
<1>10. PICK i \in 1 .. Len(line) - 1 :
          /\ Reaches(line, along, i) /\ Along(line)[i] <= along
          /\ line[i] \in Corners /\ line[i + 1] \in Corners /\ OnAxis(line[i], line[i + 1])
          /\ along - Along(line)[i] \in 0 .. Distance(line[i], line[i + 1])
          /\ Along(line)[i + 1] = Along(line)[i] + Distance(line[i], line[i + 1])
          /\ PointAt(line, along) = Walk(line[i], line[i + 1], along - Along(line)[i])
  BY <1>9, PointFacts
<1>11. i \in 1 .. n /\ i \in 1 .. Len(line) /\ i + 1 \in 1 .. Len(line)
  BY <1>4
<1>12. CASE i = b
  <2>1. along - Along(line)[i] = Distance(line[b], at)
    BY <1>6, <1>7, <1>8, <1>12
  <2>. QED
    BY <1>2, <1>3, <1>7, <1>8, <1>10, <1>12, <2>1
<1>13. CASE i > b
  <2>1. b \in 1 .. i - 1
    BY <1>5, <1>11, <1>13
  <2>2. Along(line)[b + 1] < along
    BY <1>10, <2>1 DEF Reaches
  <2>3. Along(line)[b + 1] \in Nat
    BY <1>6, <1>7
  <2>. QED
    BY <1>9, <2>2, <2>3
<1>14. CASE i < b
  <2>1. Along(line)[i + 1] <= Along(line)[b]
        /\ (Along(line)[i + 1] = Along(line)[b] => line[i + 1] = line[b])
    <3>1. i + 1 <= b
      BY <1>5, <1>11, <1>14
    <3>. QED
      BY <1>1, <1>5, <1>11, <3>1, AlongGrows
  <2>2. along <= Along(line)[i + 1] /\ Along(line)[i + 1] \in Nat /\ Along(line)[i] \in Nat
    BY <1>1, <1>10, <1>11, AlongFacts DEF Reaches
  <2>3. Along(line)[i + 1] = Along(line)[b] /\ along = Along(line)[b] /\ Distance(line[b], at) = 0
    BY <1>6, <1>7, <1>8, <2>1, <2>2
  <2>4. line[i + 1] = line[b] /\ line[b] = at
    BY <1>5, <2>1, <2>3, DistanceFacts
  <2>5. along - Along(line)[i] = Distance(line[i], line[i + 1])
    <3>1. Distance(line[i], line[i + 1]) \in Nat
      BY <1>10, DistanceFacts
    <3>. QED
      BY <1>10, <2>2, <2>3, <3>1
  <2>6. Walk(line[i], line[i + 1], along - Along(line)[i]) = line[i + 1]
    BY <1>10, <2>5, WalkFacts
  <2>. QED
    BY <1>2, <1>3, <1>8, <1>10, <2>4, <2>6
<1>15. i = b \/ i > b \/ i < b
  BY <1>5, <1>11
<1>. QED
  BY <1>12, <1>13, <1>14, <1>15

(* A row of a known house, and one whose number could be parsed; the      *)
(* latter are folded into a sequence.                                      *)
Row == [hn : Nat \cup {NoNumber}, at : Corners]
NumberedRow == {r \in Row : r.hn # NoNumber}

WithNumber(acc, r) == IF r.hn = NoNumber THEN acc ELSE Append(acc, r)
NumberedFold(rows, g) ==
    g = [s \in SUBSET DOMAIN rows |-> IF s = {} THEN <<>>
                                      ELSE WithNumber(g[s \ {Top(s)}], rows[Top(s)])]

LEMMA ParsedIsChosen ==
    ASSUME NEW rows
    PROVE  ParsedRows(rows) = (CHOOSE g : NumberedFold(rows, g))[DOMAIN rows]
BY DEF ParsedRows, WithNumber, FoldLeft, MapThenFoldSet, Max, Top, NumberedFold

(* What the fold keeps are rows with a number.                             *)
LEMMA ParsedFacts ==
    ASSUME NEW rows \in Seq(Row)
    PROVE  ParsedRows(rows) \in Seq(NumberedRow)
<1>1. PICK n \in Nat : n = Len(rows) /\ DOMAIN rows = 1 .. n
  OBVIOUS
<1>2. \A i \in 1 .. n : rows[i] \in Row
  BY <1>1
<1> DEFINE X == Seq(NumberedRow)
           st == [p \in X \X (1 .. n) |-> WithNumber(p[1], rows[p[2]])]
<1>3. ASSUME NEW acc \in X, NEW r \in Row PROVE WithNumber(acc, r) \in X
  <2>1. CASE r.hn = NoNumber
    BY <2>1 DEF WithNumber
  <2>2. CASE r.hn # NoNumber
    <3>1. r \in NumberedRow
      BY <2>2 DEF NumberedRow
    <3>. QED
      BY <2>2, <3>1 DEF WithNumber
  <2>. QED
    BY <2>1, <2>2
<1>4. \A acc \in X, i \in 1 .. n : st[<<acc, i>>] = WithNumber(acc, rows[i])
  OBVIOUS
<1>5. <<>> \in X
  OBVIOUS
<1> HIDE DEF X
<1>6. StepsOn(X, n, st)
  <2>1. ASSUME NEW p \in X \X (1 .. n) PROVE WithNumber(p[1], rows[p[2]]) \in X
    BY <1>2, <1>3
  <2>. QED
    BY <2>1 DEF StepsOn
<1> HIDE DEF st
<1>7. PICK g \in [SUBSET (1 .. n) -> X] : Folds(st, <<>>, n, g)
  BY <1>5, <1>6, FoldsExist
<1>8. NumberedFold(rows, g)
  <2>1. ASSUME NEW s \in SUBSET (1 .. n)
        PROVE  g[s] = IF s = {} THEN <<>> ELSE WithNumber(g[s \ {Top(s)}], rows[Top(s)])
    <3>1. CASE s = {}
      BY <1>7, <3>1 DEF Folds
    <3>2. CASE s # {}
      <4>1. Top(s) \in 1 .. n
        BY <3>2, TopFacts
      <4>2. g[s] = st[<<g[s \ {Top(s)}], Top(s)>>] /\ g[s \ {Top(s)}] \in X
        BY <1>7, <3>2 DEF Folds
      <4>. QED
        BY <1>4, <3>2, <4>1, <4>2
    <3>. QED
      BY <3>1, <3>2
  <2>. QED
    BY <1>1, <1>7, <2>1 DEF NumberedFold, Folds
<1>9. PICK h : NumberedFold(rows, h) /\ ParsedRows(rows) = h[1 .. n]
  BY <1>1, <1>8, ParsedIsChosen
<1> DEFINE S == {k \in 0 .. n : h[1 .. k] \in X}
<1>10. 0 \in S
  <2>1. 1 .. 0 = {}
    OBVIOUS
  <2>2. h[1 .. 0] = <<>>
    BY <1>1, <1>9, <2>1 DEF NumberedFold
  <2>. QED
    BY <1>5, <2>2
<1>11. ASSUME NEW k \in 1 .. n, k - 1 \in S PROVE k \in S
  <2>1. /\ 1 .. k \in SUBSET (1 .. n) /\ 1 .. k # {}
        /\ Top(1 .. k) = k /\ (1 .. k) \ {k} = 1 .. k - 1
    BY PrefixFacts
  <2>2. h[1 .. k] = WithNumber(h[(1 .. k) \ {Top(1 .. k)}], rows[Top(1 .. k)])
    BY <1>1, <1>9, <2>1 DEF NumberedFold
  <2>3. h[1 .. k] = WithNumber(h[1 .. k - 1], rows[k])
    BY <2>1, <2>2
  <2>4. h[1 .. k - 1] \in X
    BY <1>11
  <2>. QED
    BY <1>2, <1>3, <2>3, <2>4
<1>12. 0 .. n \subseteq S
  <2> HIDE DEF S
  <2>. QED
    BY <1>10, <1>11, UpTo
<1>. QED
  BY <1>9, <1>12 DEF X

LEMMA ScaledTyped ==
    ASSUME NEW line \in Seq(Corners), line # <<>>, NEW k \in Int
    PROVE  Scaled(line, k) \in Seq(Corners) /\ Scaled(line, k) # <<>>
<1>1. PICK n \in Nat : n = Len(line) /\ DOMAIN line = 1 .. n /\ n > 0
  OBVIOUS
<1>2. ASSUME NEW i \in 1 .. n PROVE <<k * line[i][1], k * line[i][2]>> \in Corners
  <2>1. line[i] \in Corners
    BY <1>1
  <2>2. line[i][1] \in Int /\ line[i][2] \in Int
    BY <2>1 DEF Corners
  <2>. QED
    BY <2>2 DEF Corners
<1>3. Scaled(line, k) = [i \in 1 .. n |-> <<k * line[i][1], k * line[i][2]>>]
  BY <1>1 DEF Scaled
<1>4. Scaled(line, k) \in [1 .. n -> Corners]
  BY <1>2, <1>3
<1>5. Scaled(line, k) \in Seq(Corners) /\ Len(Scaled(line, k)) = n
  BY <1>4
<1>. QED
  BY <1>1, <1>5

LEMMA ProductsTyped ==
    ASSUME NEW m \in Int, NEW x \in Int, NEW y \in Int, NEW z \in Int
    PROVE  m * x + y * z \in Int
OBVIOUS

(* An estimate is a fraction.                                              *)
LEMMA EstimateTyped ==
    ASSUME NEW a \in NumberedRow, NEW b \in NumberedRow, NEW q \in Corners, NEW scale \in Int,
           NEW line \in Seq(Corners)
    PROVE  /\ RawEstimate(a, b, q, scale, line)[1] \in Int
           /\ RawEstimate(a, b, q, scale, line)[2] \in Nat \ {0}
<1>1. /\ a.hn \in Nat /\ b.hn \in Nat /\ a.at \in Corners /\ b.at \in Corners
      /\ a.at[1] \in Int /\ a.at[2] \in Int /\ b.at[1] \in Int /\ b.at[2] \in Int
  BY DEF NumberedRow, Row, Corners
<1>2. CASE line # <<>>
  <2>1. PICK fa \in Int : fa = scale * ProjectOntoLine(a.at, line).along
    BY <1>1, <1>2, ProjectTyped
  <2>2. PICK fb \in Int : fb = scale * ProjectOntoLine(b.at, line).along
    BY <1>1, <1>2, ProjectTyped
  <2>3. PICK fq \in Int : fq = ProjectOntoLine(q, Scaled(line, scale)).along
    <3>1. PICK street \in Seq(Corners) : street = Scaled(line, scale) /\ street # <<>>
      BY <1>2, ScaledTyped
    <3>2. ProjectOntoLine(q, street).along \in Nat
      BY <3>1, ProjectTyped
    <3>. QED
      BY <3>1, <3>2
  <2>4. RawEstimate(a, b, q, scale, line) =
          IF fa = fb THEN <<a.hn + b.hn, 2>>
          ELSE IF fb > fa THEN <<a.hn * (fb - fa) + (fq - fa) * (b.hn - a.hn), fb - fa>>
          ELSE <<a.hn * (fa - fb) + (fa - fq) * (b.hn - a.hn), fa - fb>>
    BY <1>2, <2>1, <2>2, <2>3 DEF RawEstimate
  <2>5. CASE fa = fb
    BY <1>1, <2>4, <2>5
  <2>6. CASE fb > fa
    <3>1. RawEstimate(a, b, q, scale, line)
            = <<a.hn * (fb - fa) + (fq - fa) * (b.hn - a.hn), fb - fa>>
      <4>1. fa # fb /\ fb > fa
        BY <2>6
      <4>. QED
        BY <2>4, <4>1, Zenon
    <3>2. a.hn \in Int /\ fb - fa \in Nat \ {0} /\ (fq - fa) \in Int /\ b.hn - a.hn \in Int
      BY <1>1, <2>6
    <3>3. a.hn * (fb - fa) + (fq - fa) * (b.hn - a.hn) \in Int
      BY <3>2, ProductsTyped
    <3>4. PICK n \in Int, d \in Nat \ {0} : RawEstimate(a, b, q, scale, line) = <<n, d>>
      BY <3>1, <3>2, <3>3, Zenon
    <3>. QED
      BY <3>4
  <2>7. CASE fb < fa
    <3>1. RawEstimate(a, b, q, scale, line)
            = <<a.hn * (fa - fb) + (fa - fq) * (b.hn - a.hn), fa - fb>>
      <4>1. fa # fb /\ ~ (fb > fa)
        BY <2>7
      <4>. QED
        BY <2>4, <4>1, Zenon
    <3>2. a.hn \in Int /\ fa - fb \in Nat \ {0} /\ (fa - fq) \in Int /\ b.hn - a.hn \in Int
      BY <1>1, <2>7
    <3>3. a.hn * (fa - fb) + (fa - fq) * (b.hn - a.hn) \in Int
      BY <3>2, ProductsTyped
    <3>4. PICK n \in Int, d \in Nat \ {0} : RawEstimate(a, b, q, scale, line) = <<n, d>>
      BY <3>1, <3>2, <3>3, Zenon
    <3>. QED
      BY <3>4
  <2>. QED
    BY <2>5, <2>6, <2>7
<1>3. CASE line = <<>>
  <2>1. ASSUME NEW p \in Corners PROVE Distance(q, <<scale * p[1], scale * p[2]>>) \in Nat
    <3>1. <<scale * p[1], scale * p[2]>> \in Corners
      BY DEF Corners
    <3>. QED
      BY <3>1, DistanceFacts
  <2>2. PICK da \in Nat, db \in Nat : /\ da = Distance(q, <<scale * a.at[1], scale * a.at[2]>>)
                                      /\ db = Distance(q, <<scale * b.at[1], scale * b.at[2]>>)
    BY <1>1, <2>1
  <2>3. RawEstimate(a, b, q, scale, line) =
          IF da + db = 0 THEN <<a.hn + b.hn, 2>>
          ELSE <<a.hn * (da + db) + da * (b.hn - a.hn), da + db>>
    BY <1>3, <2>2 DEF RawEstimate
  <2>4. CASE da + db = 0
    BY <1>1, <2>3, <2>4
  <2>5. CASE da + db # 0
    BY <1>1, <2>3, <2>5
  <2>. QED
    BY <2>4, <2>5
<1>. QED
  BY <1>2, <1>3

(* The number of a point: of its side, and no other of that side is nearer *)
(* to the estimate.                                                        *)
LEMMA NumberFacts ==
    ASSUME NEW near \in Seq(Row), NEW q \in Corners, NEW scale \in Int, NEW line \in Seq(Corners),
           NEW r \in ReverseInterpolate(near, q, scale, line)
    PROVE  /\ r.hn \in Nat /\ r.hn >= 1 /\ Odd(r.hn) = r.odd
           /\ \A n \in Nat \ {0} : Odd(n) = r.odd =>
                 Abs(r.raw[1] - r.hn * r.raw[2]) <= Abs(r.raw[1] - n * r.raw[2])
<1>1. PICK rows \in Seq(NumberedRow) : rows = ParsedRows(near)
  BY ParsedFacts
<1>2. /\ ~ (Len(rows) < 2)
      /\ \E odd \in DominantOdd([i \in DOMAIN rows |-> rows[i].hn]) :
            r = [hn |-> OnSide(RawEstimate(rows[1], rows[2], q, scale, line)[1],
                               RawEstimate(rows[1], rows[2], q, scale, line)[2], odd),
                 raw |-> RawEstimate(rows[1], rows[2], q, scale, line), odd |-> odd]
  BY <1>1 DEF ReverseInterpolate
<1>3. rows[1] \in NumberedRow /\ rows[2] \in NumberedRow
  BY <1>2
<1>4. PICK n \in Int, d \in Nat \ {0}, odd \in BOOLEAN :
         r.hn = OnSide(n, d, odd) /\ r.raw[1] = n /\ r.raw[2] = d /\ r.odd = odd
  <2>1. PICK odd \in BOOLEAN :
            r = [hn |-> OnSide(RawEstimate(rows[1], rows[2], q, scale, line)[1],
                               RawEstimate(rows[1], rows[2], q, scale, line)[2], odd),
                 raw |-> RawEstimate(rows[1], rows[2], q, scale, line), odd |-> odd]
    BY <1>2 DEF DominantOdd
  <2>2. /\ RawEstimate(rows[1], rows[2], q, scale, line)[1] \in Int
        /\ RawEstimate(rows[1], rows[2], q, scale, line)[2] \in Nat \ {0}
    BY <1>3, EstimateTyped
  <2>. QED
    BY <2>1, <2>2
<1>5. PICK h \in Nat : /\ h = OnSide(n, d, odd) /\ h >= 1 /\ Odd(h) = odd
                       /\ \A m \in Nat \ {0} : Odd(m) = odd => Abs(n - h * d) <= Abs(n - m * d)
  BY OnSideFacts
<1>. QED
  BY <1>4, <1>5

(***************************************************************************)
(* The invariant and what it says.                                         *)
(***************************************************************************)

(* A question has the answer that is computed for it.                      *)
SpeedComputed ==
    Kind("speed") =>
        /\ Q \in SpeedQuestions
        /\ answer # Pending => answer = <<PackSpeed({Q.kph4}, 0)>>
PaintComputed ==
    Kind("paint") =>
        /\ Q \in PaintQuestions
        /\ answer # Pending =>
             answer = <<[runs |-> Runs(Q.edges), windows |-> Windows(Q.edges, Fetchable)]>>
RankComputed ==
    Kind("rank") =>
        /\ Q \in RankQuestions
        /\ answer # Pending =>
             answer = <<[rank |-> ComputeOfflineRank(Q.tags, Q.admin, Q.area),
                         better |-> ComputeOfflineRank(Q.better, Q.admin, Q.area)]>>
PriceComputed ==
    Kind("price") =>
        /\ Q \in PriceQuestions
        /\ answer # Pending =>
             answer = <<[cap |-> ProjectedRequestCap(Q.weights, Q.credits),
                         costs |-> Costs(Q.weights, Sizes)]>>
OrdinalComputed ==
    Kind("ordinal") =>
        /\ Q \in OrdinalQuestions
        /\ answer # Pending => answer = <<ExpandOrdinals(Q.toks)>>
SuggestComputed ==
    Kind("suggest") =>
        /\ Q \in SuggestQuestions
        /\ answer # Pending =>
             \E r \in Query(Q.entries, Q.q, Q.cell, Q.limit) :
                answer = <<[from |-> Source(Q.q, {r}), hits |-> r.hits, confident |-> r.confident]>>
MergeComputed ==
    Kind("merge") =>
        /\ Q \in MergeQuestions
        /\ answer # Pending => answer = <<InTurns(Q.names, Q.types, Q.limit)>>
FirstComputed ==
    Kind("first") =>
        /\ Q \in FirstQuestions
        /\ answer # Pending =>
             \E names, estimate : answer = <<FirstPage(Q.results, Q.hn, Q.street, names, estimate)>>
SnapComputed ==
    Kind("snap") =>
        /\ Q \in SnapQuestions
        /\ answer # Pending =>
             answer = <<[at |-> ProjectOntoLine(Q.at, Q.line).at,
                         back |-> PointAt(Q.line, ProjectOntoLine(Q.at, Q.line).along)]>>
PointComputed ==
    Kind("point") =>
        /\ Q \in PointQuestions
        /\ answer # Pending => answer = <<ReverseInterpolate(Q.near, Q.at, 1, Q.line)>>
Computed == /\ SpeedComputed /\ PaintComputed /\ RankComputed /\ PriceComputed
            /\ OrdinalComputed /\ SuggestComputed /\ MergeComputed /\ FirstComputed
            /\ SnapComputed /\ PointComputed

LEMMA InitComputed == AlgoInit => Computed
<1> SUFFICES ASSUME AlgoInit PROVE Computed
  OBVIOUS
<1>1. ASSUME NEW kind, NEW questions, Ask(kind, questions)
      PROVE  question.kind = kind /\ question.of \in questions
  BY <1>1 DEF Ask
<1>2. /\ question.kind = "speed" => question.of \in SpeedQuestions
      /\ question.kind = "paint" => question.of \in PaintQuestions
      /\ question.kind = "rank" => question.of \in RankQuestions
      /\ question.kind = "price" => question.of \in PriceQuestions
      /\ question.kind = "ordinal" => question.of \in OrdinalQuestions
      /\ question.kind = "suggest" => question.of \in SuggestQuestions
      /\ question.kind = "merge" => question.of \in MergeQuestions
      /\ question.kind = "first" => question.of \in FirstQuestions
      /\ question.kind = "snap" => question.of \in SnapQuestions
      /\ question.kind = "point" => question.of \in PointQuestions
  BY <1>1 DEF AlgoInit
<1>3. answer = Pending
  BY DEF AlgoInit
<1>. QED
  BY <1>2, <1>3 DEF Computed, SpeedComputed, PaintComputed, RankComputed, PriceComputed,
     OrdinalComputed, SuggestComputed, MergeComputed, FirstComputed, SnapComputed, PointComputed,
     Kind, Q

LEMMA NextComputed == Computed /\ [AlgoNext]_algoVars => Computed'
<1> SUFFICES ASSUME Computed, [AlgoNext]_algoVars PROVE Computed'
  OBVIOUS
<1>1. UNCHANGED question
  BY DEF AlgoNext, algoVars, Answer, AnswerHouse, AnswerSnap, AnswerPoint, AnswerSpeed, AnswerTile,
     AnswerPaint, AnswerShape, AnswerAddress, AnswerOrdinal, AnswerSuggest, AnswerMerge,
     AnswerRank, AnswerPrice, AnswerScroll, AnswerFirst
<1>2. /\ Kind("speed") => AnswerSpeed \/ UNCHANGED answer
      /\ Kind("paint") => AnswerPaint \/ UNCHANGED answer
      /\ Kind("rank") => AnswerRank \/ UNCHANGED answer
      /\ Kind("price") => AnswerPrice \/ UNCHANGED answer
      /\ Kind("ordinal") => AnswerOrdinal \/ UNCHANGED answer
      /\ Kind("suggest") => AnswerSuggest \/ UNCHANGED answer
      /\ Kind("merge") => AnswerMerge \/ UNCHANGED answer
      /\ Kind("first") => AnswerFirst \/ UNCHANGED answer
      /\ Kind("snap") => AnswerSnap \/ UNCHANGED answer
      /\ Kind("point") => AnswerPoint \/ UNCHANGED answer
  <2>1. CASE UNCHANGED algoVars
    BY <2>1 DEF algoVars
  <2>2. CASE AlgoNext
    BY <2>2 DEF AlgoNext, Kind, AnswerHouse, AnswerSnap, AnswerPoint, AnswerSpeed, AnswerTile,
       AnswerPaint, AnswerShape, AnswerAddress, AnswerOrdinal, AnswerSuggest, AnswerMerge,
       AnswerRank, AnswerPrice, AnswerScroll, AnswerFirst
  <2>. QED
    BY <2>1, <2>2
<1>3. SpeedComputed'
  <2>1. CASE UNCHANGED answer
    BY <1>1, <2>1 DEF Computed, SpeedComputed, Kind, Q
  <2>2. CASE AnswerSpeed
    BY <1>1, <2>2 DEF Computed, SpeedComputed, AnswerSpeed, Answer, Kind, Q
  <2>. QED
    BY <1>1, <1>2, <2>1, <2>2 DEF SpeedComputed, Kind
<1>4. PaintComputed'
  <2>1. CASE UNCHANGED answer
    BY <1>1, <2>1 DEF Computed, PaintComputed, Kind, Q, Fetchable
  <2>2. CASE AnswerPaint
    BY <1>1, <2>2 DEF Computed, PaintComputed, AnswerPaint, Answer, Kind, Q, Fetchable
  <2>. QED
    BY <1>1, <1>2, <2>1, <2>2 DEF PaintComputed, Kind
<1>5. RankComputed'
  <2>1. CASE UNCHANGED answer
    BY <1>1, <2>1 DEF Computed, RankComputed, Kind, Q
  <2>2. CASE AnswerRank
    BY <1>1, <2>2 DEF Computed, RankComputed, AnswerRank, Answer, Kind, Q
  <2>. QED
    BY <1>1, <1>2, <2>1, <2>2 DEF RankComputed, Kind
<1>6. PriceComputed'
  <2>1. CASE UNCHANGED answer
    BY <1>1, <2>1 DEF Computed, PriceComputed, Kind, Q
  <2>2. CASE AnswerPrice
    BY <1>1, <2>2 DEF Computed, PriceComputed, AnswerPrice, Answer, Kind, Q
  <2>. QED
    BY <1>1, <1>2, <2>1, <2>2 DEF PriceComputed, Kind
<1>7. OrdinalComputed'
  <2>1. CASE UNCHANGED answer
    BY <1>1, <2>1 DEF Computed, OrdinalComputed, Kind, Q
  <2>2. CASE AnswerOrdinal
    BY <1>1, <2>2 DEF Computed, OrdinalComputed, AnswerOrdinal, Answer, Kind, Q
  <2>. QED
    BY <1>1, <1>2, <2>1, <2>2 DEF OrdinalComputed, Kind
<1>8. SuggestComputed'
  <2>1. CASE UNCHANGED answer
    BY <1>1, <2>1 DEF Computed, SuggestComputed, Kind, Q
  <2>2. CASE AnswerSuggest
    BY <1>1, <2>2 DEF Computed, SuggestComputed, AnswerSuggest, Answer, Kind, Q
  <2>. QED
    BY <1>1, <1>2, <2>1, <2>2 DEF SuggestComputed, Kind
<1>9. MergeComputed'
  <2>1. CASE UNCHANGED answer
    BY <1>1, <2>1 DEF Computed, MergeComputed, Kind, Q
  <2>2. CASE AnswerMerge
    BY <1>1, <2>2 DEF Computed, MergeComputed, AnswerMerge, Answer, Kind, Q
  <2>. QED
    BY <1>1, <1>2, <2>1, <2>2 DEF MergeComputed, Kind
<1>10. FirstComputed'
  <2>1. CASE UNCHANGED answer
    BY <1>1, <2>1 DEF Computed, FirstComputed, Kind, Q
  <2>2. CASE AnswerFirst
    BY <1>1, <2>2 DEF Computed, FirstComputed, AnswerFirst, Answer, Kind, Q
  <2>. QED
    BY <1>1, <1>2, <2>1, <2>2 DEF FirstComputed, Kind
<1>11. SnapComputed'
  <2>1. CASE UNCHANGED answer
    BY <1>1, <2>1 DEF Computed, SnapComputed, Kind, Q
  <2>2. CASE AnswerSnap
    BY <1>1, <2>2 DEF Computed, SnapComputed, AnswerSnap, Answer, Kind, Q
  <2>. QED
    BY <1>1, <1>2, <2>1, <2>2 DEF SnapComputed, Kind
<1>12. PointComputed'
  <2>1. CASE UNCHANGED answer
    BY <1>1, <2>1 DEF Computed, PointComputed, Kind, Q
  <2>2. CASE AnswerPoint
    BY <1>1, <2>2 DEF Computed, PointComputed, AnswerPoint, Answer, Kind, Q
  <2>. QED
    BY <1>1, <1>2, <2>1, <2>2 DEF PointComputed, Kind
<1>. QED
  BY <1>3, <1>4, <1>5, <1>6, <1>7, <1>8, <1>9, <1>10, <1>11, <1>12 DEF Computed

LEMMA SpeedMeans == SpeedComputed => SpeedNeverUnknown
<1> SUFFICES ASSUME SpeedComputed, Replied("speed")
             PROVE  SpeedNeverUnknown
  BY DEF SpeedNeverUnknown
<1>1. PICK q \in SpeedQuestions : q = Q
  BY DEF SpeedComputed, Replied
<1>2. PICK kph4 \in Nat : kph4 = q.kph4
  BY SpeedsAssumption
<1>3. A = PackSpeed({kph4}, 0)
  BY <1>1, <1>2 DEF SpeedComputed, Replied, Asked, A
<1>4. OverallSpeedKph(A) = {2 * EncodeSpeedRaw(kph4)} /\ Len(A) = 64 /\ UnpackSpeed(A).breakpoint1 = 255
  BY <1>3, PackedFacts
<1>5. PICK raw : raw = EncodeSpeedRaw(kph4)
  OBVIOUS
<1>6. /\ raw \in 0 .. 126
      /\ kph4 <= 4 * 2 * MaxRaw => 8 * raw - kph4 <= 4 /\ kph4 - 8 * raw <= 4
  BY <1>5, EncodedFacts
<1>7. kph4 <= 4 * 2 * MaxRaw => Abs(4 * (2 * raw) - kph4) <= 4
  <2>1. raw \in Int /\ 4 * (2 * raw) = 8 * raw
    BY <1>6
  <2>. QED
    BY <1>6, <2>1 DEF Abs
<1>. QED
  BY <1>1, <1>2, <1>4, <1>5, <1>7 DEF SpeedNeverUnknown

LEMMA SeqWider ==
    ASSUME NEW S, NEW s \in Seq(S), NEW Y, S \subseteq Y
    PROVE  s \in Seq(Y)
<1>1. s = [i \in 1 .. Len(s) |-> s[i]] /\ \A i \in 1 .. Len(s) : s[i] \in Y
  OBVIOUS
<1>. QED
  BY <1>1

LEMMA LeastIs ==
    ASSUME NEW S, S \subseteq Nat, NEW v \in S, \A x \in S : v <= x
    PROVE  Min(S) = v
<1>1. \A x \in S : (\A y \in S : x <= y) => x = v
  OBVIOUS
<1>. QED
  BY <1>1 DEF Min

LEMMA RunsMean == PaintComputed => RunsPaintTheLeg
<1> SUFFICES ASSUME PaintComputed, Replied("paint")
             PROVE  RunsPaintTheLeg
  BY DEF RunsPaintTheLeg
<1>1. PICK q \in PaintQuestions : q = Q
  BY DEF PaintComputed, Replied
<1>2. PICK edges \in Seq(RouteEdges) : edges = q.edges
  BY PaintAssumption
<1>3. InShapeOrder(edges)
  BY <1>2, PaintAssumption DEF InShapeOrder
<1>4. PICK runs : runs = Runs(edges)
  OBVIOUS
<1>5. A.runs = runs /\ Q.edges = edges
  BY <1>1, <1>2, <1>4 DEF PaintComputed, Replied, Asked, A
<1>6. PaintedOk(edges, Len(edges), runs)
  BY <1>3, <1>4, RunFacts
<1>7. {e \in Range(edges) : Drawn(e)} = DrawnUpTo(edges, Len(edges))
  BY DEF DrawnUpTo, Range
<1>8. \A run : {e \in DrawnUpTo(edges, Len(edges)) : run.from <= e.from /\ e.to <= run.to}
                  = Within(edges, Len(edges), run)
  BY DEF Within
<1>9. \A i \in 1 .. Len(runs) - 1 : runs[i].to <= runs[i + 1].from /\ runs[i].level # runs[i + 1].level
  <2>1. TAKE i \in 1 .. Len(runs) - 1
  <2>2. i \in DOMAIN runs /\ i + 1 \in DOMAIN runs /\ i < i + 1
    BY <1>6 DEF PaintedOk
  <2>3. Aligned(runs) /\ Alternate(runs)
    BY <1>6 DEF PaintedOk
  <2>4. runs[i].to <= runs[i + 1].from
    BY <2>2, <2>3 DEF Aligned
  <2>5. runs[i].level # runs[i + 1].level
    BY <2>1, <2>3 DEF Alternate
  <2>. QED
    BY <2>4, <2>5
<1>10. \A e \in DrawnUpTo(edges, Len(edges)) : \E i \in DOMAIN runs :
          e \in Within(edges, Len(edges), runs[i]) /\ runs[i].level = Classify(e.live, e.free)
  BY <1>6 DEF PaintedOk, Shown, Within, Level
<1>11. \A i \in DOMAIN runs :
          LET lives == {e.live : e \in Within(edges, Len(edges), runs[i])} \ {0}
          IN runs[i].live = IF lives = {} THEN 0 ELSE Min(lives)
  <2>1. TAKE i \in DOMAIN runs
  <2>2. PICK es : es = Within(edges, Len(edges), runs[i])
    OBVIOUS
  <2>3. PICK lives : lives = {e.live : e \in es} \ {0}
    OBVIOUS
  <2>4. \A e \in es : e.live \in Nat
    <3>1. \A e \in es : e \in RouteEdges
      BY <2>2 DEF Within, DrawnUpTo
    <3>. QED
      BY <3>1 DEF RouteEdges
  <2>5. lives \subseteq Nat
    BY <2>3, <2>4
  <2>6. PICK v : v = runs[i].live
    OBVIOUS
  <2>7. Slowest(es, v)
    BY <1>6, <2>2, <2>6 DEF PaintedOk, Slow
  <2>8. v = IF lives = {} THEN 0 ELSE Min(lives)
    <3>1. CASE v = 0 /\ \A e \in es : e.live = 0
      BY <2>3, <3>1
    <3>2. CASE v # 0 /\ (\E e \in es : e.live = v) /\ \A e \in es : e.live # 0 => v <= e.live
      <4>1. v \in lives /\ \A x \in lives : v <= x
        BY <2>3, <3>2
      <4>. QED
        BY <2>5, <4>1, LeastIs
    <3>. QED
      BY <2>7, <3>1, <3>2 DEF Slowest
  <2>. QED
    BY <2>2, <2>3, <2>6, <2>8
<1>12. \A run : {e \in {d \in Range(edges) : Drawn(d)} : run.from <= e.from /\ e.to <= run.to}
                   = Within(edges, Len(edges), run)
  BY <1>7, <1>8
<1>13. \A e \in {d \in Range(edges) : Drawn(d)} : \E i \in DOMAIN runs :
          e \in Within(edges, Len(edges), runs[i]) /\ runs[i].level = Classify(e.live, e.free)
  BY <1>7, <1>10
<1>. QED
  BY <1>5, <1>9, <1>11, <1>12, <1>13 DEF RunsPaintTheLeg

LEMMA WindowsMean == PaintComputed => WindowsPartition
<1> SUFFICES ASSUME PaintComputed, Replied("paint")
             PROVE  WindowsPartition
  BY DEF WindowsPartition
<1>1. PICK q \in PaintQuestions : q = Q
  BY DEF PaintComputed, Replied
<1>2. PICK edges \in Seq(RouteEdges) : edges = q.edges
  BY PaintAssumption
<1>3. PICK fetchable : fetchable = Fetchable
  OBVIOUS
<1>4. fetchable \subseteq DOMAIN edges /\ DOMAIN edges = 1 .. Len(edges)
  BY <1>1, <1>2, <1>3 DEF Fetchable
<1>5. PICK ws : ws = Windows(edges, fetchable)
  OBVIOUS
<1>6. A.windows = ws /\ Q.edges = edges
  BY <1>1, <1>2, <1>3, <1>5 DEF PaintComputed, Replied, Asked, A
<1>7. Windowed(edges, fetchable, Len(edges), ws)
  BY <1>4, <1>5, WindowFacts
<1>8. UNION {Range(w) : w \in Range(ws)} = fetchable
  <2>1. Covered(ws) = fetchable
    BY <1>4, <1>7 DEF Windowed
  <2>. QED
    BY <2>1 DEF Covered
<1>9. \A k, l \in DOMAIN ws : k < l => \A i \in Range(ws[k]), j \in Range(ws[l]) : i < j
  BY <1>7 DEF Windowed, InOrder
<1>10. \A w \in Range(ws) :
          /\ w # <<>> /\ \A i \in 1 .. Len(w) - 1 : w[i + 1] = w[i] + 1
          /\ Len(w) > 1 => SumFunctionOnSet([i \in DOMAIN edges |-> edges[i].length], Range(w)) <= WindowKm
  BY <1>7 DEF Windowed, Stretch, Lengths
<1>. QED
  BY <1>3, <1>6, <1>8, <1>9, <1>10 DEF WindowsPartition

LEMMA RanksMean == RankComputed => RankOnScale
<1> SUFFICES ASSUME RankComputed, Replied("rank")
             PROVE  RankOnScale
  BY DEF RankOnScale
<1>1. PICK q \in RankQuestions : q = Q
  BY DEF RankComputed, Replied
<1>2. PICK rank, better : /\ rank = ComputeOfflineRank(q.tags, q.admin, q.area)
                          /\ better = ComputeOfflineRank(q.better, q.admin, q.area)
  OBVIOUS
<1>3. A.rank = rank /\ A.better = better
  BY <1>1, <1>2 DEF RankComputed, Replied, Asked, A
<1>4. OnScale(rank, better)
  <2>1. q \in RankQuestions
    BY <1>1
  <2>. QED
    BY <1>2, <2>1, RankFacts
<1>. QED
  BY <1>3, <1>4 DEF RankOnScale, OnScale

LEMMA OrdinalsMean == OrdinalComputed => OrdinalsSwapBack
<1> SUFFICES ASSUME OrdinalComputed, Replied("ordinal"), \A i \in DOMAIN Q.toks : WellSpelt(Q.toks[i])
             PROVE  \A other \in A : ExpandOrdinals(other) = Only(Q.toks)
  BY DEF OrdinalsSwapBack
<1>1. PICK q \in OrdinalQuestions : q = Q
  BY DEF OrdinalComputed, Replied
<1>2. PICK toks \in Seq(Tokens) : toks = Q.toks
  BY <1>1, OrdinalsAssumption
<1>3. A = ExpandOrdinals(toks)
  BY <1>2 DEF OrdinalComputed, Replied, Asked, A
<1>4. \A i \in DOMAIN toks : WellSpelt(toks[i])
  BY <1>2
<1>5. \A other \in ExpandOrdinals(toks) : ExpandOrdinals(other) = Only(toks)
  BY <1>4, ExpandedBack
<1>. QED
  BY <1>2, <1>3, <1>5

LEMMA TiersMean == SuggestComputed => PopularityKeepsTiers
<1> SUFFICES ASSUME SuggestComputed, Replied("suggest"), NEW i \in DOMAIN A.hits, NEW j \in DOMAIN A.hits,
                    A.hits[i].rank = A.hits[j].rank, A.hits[i].near = A.hits[j].near,
                    MatchQuality(A.hits[i], Q.q) > MatchQuality(A.hits[j], Q.q)
             PROVE  i < j
  BY DEF PopularityKeepsTiers
<1>1. PICK q \in SuggestQuestions : q = Q
  BY DEF SuggestComputed, Replied
<1>2. /\ IsFiniteSet(q.entries) /\ q.limit \in Nat
      /\ \A e \in q.entries : Rated(e)
  <2>1. q \in SuggestQuestions
    BY <1>1
  <2>. QED
    BY <2>1, PagesAssumption DEF Rated
<1>3. PICK r \in Query(Q.entries, Q.q, Q.cell, Q.limit) :
         A = [from |-> Source(Q.q, {r}), hits |-> r.hits, confident |-> r.confident]
  <2>1. PICK r \in Query(Q.entries, Q.q, Q.cell, Q.limit) :
           answer = <<[from |-> Source(Q.q, {r}), hits |-> r.hits, confident |-> r.confident]>>
    BY DEF SuggestComputed, Replied, Asked
  <2>2. A = [from |-> Source(Q.q, {r}), hits |-> r.hits, confident |-> r.confident]
    BY <2>1 DEF A
  <2>. QED
    BY <2>1, <2>2
<1>4. PICK hits : hits = r.hits /\ A.hits = hits
  BY <1>3
<1>5. r \in Query(q.entries, q.q, q.cell, q.limit)
  BY <1>1
<1>6. hits = <<>> \/ hits \in Best(Found(q.entries, q.q, q.cell), q.q, q.limit)
  <2>1. CASE Len(q.q) < MinPrefix
    <3>1. r = [hits |-> <<>>, confident |-> FALSE]
      BY <1>5, <2>1 DEF Query
    <3>. QED
      BY <1>4, <3>1
  <2>2. CASE ~ Len(q.q) < MinPrefix
    <3>1. \E s \in Best(Found(q.entries, q.q, q.cell), q.q, q.limit) : r.hits = s
      <4>1. \E s \in Best(Found(q.entries, q.q, q.cell), q.q, q.limit), c \in BOOLEAN :
               r = [hits |-> s, confident |-> c]
        BY <1>5, <2>2, Zenon DEF Query
      <4>. QED
        BY <4>1
    <3>. QED
      BY <1>4, <3>1
  <2>. QED
    BY <2>1, <2>2
<1>7. hits # <<>>
  BY <1>4
<1>8. PICK found : found = Found(q.entries, q.q, q.cell)
  OBVIOUS
<1>9. found \subseteq q.entries
  BY <1>8 DEF Found, Bucket
<1>10. IsFiniteSet(found) /\ \A e \in found : Rated(e)
  BY <1>2, <1>9, FS_Subset
<1>11. PICK words, limit : words = q.q /\ limit = q.limit
  OBVIOUS
<1>12. hits \in Best(found, words, limit) /\ limit \in Nat
  BY <1>2, <1>6, <1>7, <1>8, <1>11
<1>13. /\ i \in DOMAIN hits /\ j \in DOMAIN hits
       /\ hits[i].rank = hits[j].rank /\ hits[i].near = hits[j].near
       /\ MatchQuality(hits[i], words) > MatchQuality(hits[j], words)
  BY <1>1, <1>4, <1>11
<1>. QED
  BY <1>10, <1>12, <1>13, BestKeepsTiers

LEMMA MergeMeans == MergeComputed => BothListsShown
<1> SUFFICES ASSUME MergeComputed, Replied("merge")
             PROVE  BothListsShown
  BY DEF BothListsShown
<1>1. PICK q \in MergeQuestions : q = Q
  BY DEF MergeComputed, Replied
<1>2. PICK names, types, limit : names = q.names /\ types = q.types /\ limit = q.limit
  OBVIOUS
<1>3. names \in Seq(Range(names)) /\ types \in Seq(Range(types)) /\ limit \in Nat
  BY <1>1, <1>2, PagesAssumption
<1>4. PICK Y : Y = Range(names) \cup Range(types)
  OBVIOUS
<1>5. names \in Seq(Y) /\ types \in Seq(Y)
  BY <1>3, <1>4, SeqWider
<1>6. A = InTurns(names, types, limit)
  BY <1>1, <1>2 DEF MergeComputed, Replied, Asked, A
<1>7. ShowsBoth(names, types, limit, A)
  BY <1>3, <1>5, <1>6, InTurnsFacts
<1>8. Q.names = names /\ Q.types = types /\ Q.limit = limit
  BY <1>1, <1>2
<1>. QED
  BY <1>7, <1>8 DEF BothListsShown, ShowsBoth, ShowsList

LEMMA FirstMeans == FirstComputed => NothingTwice
<1> SUFFICES ASSUME FirstComputed, Replied("first")
             PROVE  NothingTwice
  BY DEF NothingTwice
<1>1. PICK q \in FirstQuestions : q = Q
  BY DEF FirstComputed, Replied
<1>2. PICK results : results = q.results
  OBVIOUS
<1>3. /\ results \in Seq(Range(results))
      /\ \A i, j \in DOMAIN results : results[i].id = results[j].id => i = j
  BY <1>1, <1>2, PagesAssumption
<1>4. PICK names, estimate : A = FirstPage(Q.results, Q.hn, Q.street, names, estimate)
  BY DEF FirstComputed, Replied, Asked, A
<1>5. PICK hn, street : hn = Q.hn /\ street = Q.street
  OBVIOUS
<1>6. A = FirstPage(results, hn, street, names, estimate)
  BY <1>1, <1>2, <1>4, <1>5
<1>7. PageOk(results, A)
  BY <1>3, <1>6, FirstPageFacts
<1>. QED
  BY <1>1, <1>2, <1>7 DEF NothingTwice, PageOk

(* Whatever the speed, the edges of the leg and the window's length are: a *)
(* known speed is stored within a kilometre per hour and never as the      *)
(* record that says "unknown" (traffic_tile.py); the runs of a leg         *)
(* follow one another, each drawn edge in one of its level, and a run's    *)
(* speed is that of its slowest edge; and the windows hold each uncovered  *)
(* edge once, in unbroken stretches no longer than allowed (routing.py).   *)
THEOREM TrafficInvariant == AlgoSpec => []TrafficRight
<1>1. AlgoSpec => []Computed
  BY InitComputed, NextComputed, PTL DEF AlgoSpec
<1>2. Computed => TrafficRight
  BY SpeedMeans, RunsMean, WindowsMean DEF Computed, TrafficRight
<1>. QED
  BY <1>1, <1>2, PTL

(* Whatever the query and the matches are: the alternate spelling of       *)
(* ordinals is undone by taking it again (address.py); popularity never    *)
(* lifts a place over a better match of its prominence (autocomplete.py);  *)
(* a merged page shows both lists and is as full as it can be              *)
(* (geocoder.py _merge_results); and the synthesised address never doubles *)
(* a place of the page (geocoder.py).                                      *)
THEOREM PagesInvariant == AlgoSpec => []PagesRight
<1>1. AlgoSpec => []Computed
  BY InitComputed, NextComputed, PTL DEF AlgoSpec
<1>2. Computed => PagesRight
  BY OrdinalsMean, TiersMean, MergeMeans, FirstMeans DEF Computed, PagesRight
<1>. QED
  BY <1>1, <1>2, PTL

LEMMA PricesMean == PriceComputed => BackstopIsTight /\ MatrixPricesGrow
<1> SUFFICES ASSUME PriceComputed, Replied("price")
             PROVE  BackstopIsTight /\ MatrixPricesGrow
  BY DEF BackstopIsTight, MatrixPricesGrow
<1>1. PICK q \in PriceQuestions : q = Q
  BY DEF PriceComputed, Replied
<1>2. PICK weights, credits : weights = q.weights /\ credits = q.credits
  OBVIOUS
<1>3. Prices(weights) /\ credits \in Nat
  BY <1>2, PricesAssumption DEF Prices
<1>4. A = [cap |-> ProjectedRequestCap(weights, credits), costs |-> Costs(weights, Sizes)]
  BY <1>1, <1>2 DEF PriceComputed, Replied, Asked, A
<1>5. BackstopIsTight
  BY <1>1, <1>2, <1>3, <1>4, BackstopFacts DEF BackstopIsTight, NoneCheaperUnlisted
<1>6. MatrixPricesGrow
  <2>1. ASSUME NEW s \in Sizes, NEW t \in Sizes
        PROVE  /\ MatrixMilli(weights, s, t) >= WeightFor(weights, Matrix)
               /\ \A u \in Sizes : u >= t => MatrixMilli(weights, s, u) >= MatrixMilli(weights, s, t)
    BY <1>3, PricesAssumption, MatrixFacts, MatrixGrows
  <2>. QED
    BY <1>1, <1>2, <2>1 DEF MatrixPricesGrow
<1>. QED
  BY <1>5, <1>6

LEMMA SnapMeans == SnapComputed => SnapIsNearest
<1> SUFFICES ASSUME SnapComputed, Replied("snap"), TotalLength(Q.line) > 0
             PROVE  /\ A.back = A.at
                    /\ \A along \in 0 .. TotalLength(Q.line) :
                          (A.at[1] - Q.at[1]) * (A.at[1] - Q.at[1]) + (A.at[2] - Q.at[2]) * (A.at[2] - Q.at[2])
                            <= (PointAt(Q.line, along)[1] - Q.at[1]) * (PointAt(Q.line, along)[1] - Q.at[1])
                                 + (PointAt(Q.line, along)[2] - Q.at[2]) * (PointAt(Q.line, along)[2] - Q.at[2])
  BY DEF SnapIsNearest
<1>1. PICK q \in SnapQuestions : q = Q
  BY DEF SnapComputed, Replied
<1>2. PICK line \in Seq(Corners), p \in Corners :
         line = Q.line /\ p = Q.at /\ OnGrid(line) /\ line # <<>>
  <2>1. OnGrid(q.line) /\ q.line # <<>> /\ q.at \in Corners
    BY LinesAssumption, Zenon
  <2>2. q.line \in Seq(Corners)
    BY <2>1 DEF OnGrid
  <2>. QED
    BY <1>1, <2>1, <2>2, Zenon
<1>3. PICK foot : foot = ProjectOntoLine(p, line)
  OBVIOUS
<1>4. A.at = foot.at /\ A.back = PointAt(line, foot.along)
  BY <1>2, <1>3 DEF SnapComputed, Replied, Asked, A
<1>5. TotalLength(line) # 0
  BY <1>2
<1>6. /\ PointAt(line, foot.along) = foot.at /\ foot.at \in Corners
      /\ \A along \in 0 .. TotalLength(line) :
            PointAt(line, along) \in Corners /\ Square(p, foot.at) <= Square(p, PointAt(line, along))
  BY <1>2, <1>3, <1>5, SnapFacts
<1>7. ASSUME NEW at \in Corners
      PROVE  Square(p, at) = (at[1] - p[1]) * (at[1] - p[1]) + (at[2] - p[2]) * (at[2] - p[2])
  <2>1. ASSUME NEW x \in Int, NEW y \in Int PROVE (x - y) * (x - y) = (y - x) * (y - x)
    OBVIOUS
  <2>2. p[1] \in Int /\ p[2] \in Int /\ at[1] \in Int /\ at[2] \in Int
    BY DEF Corners
  <2>3. /\ (p[1] - at[1]) * (p[1] - at[1]) = (at[1] - p[1]) * (at[1] - p[1])
        /\ (p[2] - at[2]) * (p[2] - at[2]) = (at[2] - p[2]) * (at[2] - p[2])
    BY <2>1, <2>2
  <2>. QED
    BY <2>3 DEF Square
<1>8. ASSUME NEW along \in 0 .. TotalLength(line)
      PROVE  (foot.at[1] - p[1]) * (foot.at[1] - p[1]) + (foot.at[2] - p[2]) * (foot.at[2] - p[2])
               <= (PointAt(line, along)[1] - p[1]) * (PointAt(line, along)[1] - p[1])
                    + (PointAt(line, along)[2] - p[2]) * (PointAt(line, along)[2] - p[2])
  <2>1. PICK at \in Corners : at = PointAt(line, along) /\ Square(p, foot.at) <= Square(p, at)
    BY <1>6
  <2>2. PICK b \in Corners : b = foot.at
    BY <1>6
  <2>3. Square(p, b) <= Square(p, at)
    BY <2>1, <2>2
  <2>4. (b[1] - p[1]) * (b[1] - p[1]) + (b[2] - p[2]) * (b[2] - p[2])
          <= (at[1] - p[1]) * (at[1] - p[1]) + (at[2] - p[2]) * (at[2] - p[2])
    BY <1>7, <2>3, Zenon
  <2>. QED
    BY <2>1, <2>2, <2>4, Zenon
<1>. QED
  BY <1>2, <1>4, <1>6, <1>8, Zenon

LEMMA NumberMeans == PointComputed => NumberOnItsSide
<1> SUFFICES ASSUME PointComputed, Replied("point"), NEW r \in A
             PROVE  /\ r.hn >= 1 /\ Odd(r.hn) = r.odd
                    /\ \A n \in 1 .. r.hn + 4 : Odd(n) = r.odd =>
                          Abs(r.raw[1] - r.hn * r.raw[2]) <= Abs(r.raw[1] - n * r.raw[2])
  BY DEF NumberOnItsSide
<1>1. PICK q \in PointQuestions : q = Q
  BY DEF PointComputed, Replied
<1>2. PICK near \in Seq(Row), at \in Corners, line \in Seq(Corners) :
         near = Q.near /\ at = Q.at /\ line = Q.line
  BY <1>1, LinesAssumption DEF Row
<1>3. r \in ReverseInterpolate(near, at, 1, line)
  BY <1>2 DEF PointComputed, Replied, Asked, A
<1>4. /\ r.hn \in Nat /\ r.hn >= 1 /\ Odd(r.hn) = r.odd
      /\ \A n \in Nat \ {0} : Odd(n) = r.odd =>
            Abs(r.raw[1] - r.hn * r.raw[2]) <= Abs(r.raw[1] - n * r.raw[2])
  BY <1>3, NumberFacts
<1>5. \A n \in 1 .. r.hn + 4 : n \in Nat \ {0}
  BY <1>4
<1>. QED
  BY <1>4, <1>5

(* Whatever the weights, the credits, the sizes of matrices and the tags   *)
(* of a place are: the backstop admits as many of the cheapest calls as    *)
(* the credits pay for and not one more, larger matrices never cost less   *)
(* (weights.py), and a rank lies between 0 and 1 and never falls for a     *)
(* place that is no worse (ranking.py compute_offline_rank).  Whatever the *)
(* street and the known houses are: the point snapped to is on the street  *)
(* and no other of its points is nearer, and a point's house number is     *)
(* that of its side nearest to the estimate (interpolation.py).            *)
THEOREM ScalesInvariant == AlgoSpec => []ScalesRight
<1>1. AlgoSpec => []Computed
  BY InitComputed, NextComputed, PTL DEF AlgoSpec
<1>2. Computed => ScalesRight
  BY PricesMean, RanksMean, SnapMeans, NumberMeans DEF Computed, ScalesRight
<1>. QED
  BY <1>1, <1>2, PTL
============================================================================

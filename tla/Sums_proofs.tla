----------------------------- MODULE Sums_proofs -----------------------------
(***************************************************************************)
(* What SumFunctionOnSet(f, S), which the models use to add up credits and *)
(* calls, is for every finite set S: it does not depend on the order in    *)
(* which CHOOSE takes the elements, it grows by f[x] with x, and it only   *)
(* depends on f over S.  The operator is a recursive function over the     *)
(* subsets of S; the proofs go by the smallest subset a fact fails for,    *)
(* which exists because the subsets of a finite set are well founded.      *)
(***************************************************************************)
EXTENDS FiniteSetTheorems, TLAPS

One(s) == CHOOSE x \in s : TRUE

(* g adds up f over every subset of S, as the recursive function does.     *)
AddsUp(f, S, g) ==
    g = [s \in SUBSET S |-> IF s = {} THEN 0 ELSE f[One(s)] + g[s \ {One(s)}]]

LEMMA SumIsChosen ==
    ASSUME NEW f, NEW S
    PROVE  SumFunctionOnSet(f, S) = (CHOOSE g : AddsUp(f, S, g))[S]
BY DEF SumFunctionOnSet, FoldFunctionOnSet, MapThenFoldSet, AddsUp, One

LEMMA OneFacts ==
    ASSUME NEW s, s # {}
    PROVE  One(s) \in s /\ s \ {One(s)} \subseteq s /\ s \ {One(s)} # s
BY DEF One

(* A family of subsets of a finite set has a minimal member.               *)
LEMMA SmallestSubset ==
    ASSUME NEW S, IsFiniteSet(S), NEW F, F \subseteq SUBSET S, F # {}
    PROVE  \E m \in F : \A t \in F : t \subseteq m => t = m
<1>1. IsWellFoundedOn(StrictSubsetOrdering(S), SUBSET S)
  BY FS_StrictSubsetOrderingWellFounded, FS_FiniteSubsetsOfFinite
<1>2. PICK m \in F : \A t \in F : <<t, m>> \notin StrictSubsetOrdering(S)
  BY <1>1, WFMin
<1>3. ASSUME NEW t \in F, t \subseteq m PROVE t = m
  BY <1>2, <1>3 DEF StrictSubsetOrdering
<1>. QED
  BY <1>3

(* A set of natural numbers has a least member.                            *)
LEMMA LeastOf ==
    ASSUME NEW T, T \subseteq Nat, T # {}
    PROVE  \E m \in T : \A k \in T : m <= k
<1>1. PICK n \in T : n \in Nat
  OBVIOUS
<1> DEFINE F == {T \cap (0 .. k) : k \in T \cap (0 .. n)}
<1>2. PICK S : S = 0 .. n
  OBVIOUS
<1>3. IsFiniteSet(S) /\ F \subseteq SUBSET S /\ F # {}
  <2>1. IsFiniteSet(0 .. n)
    BY <1>1, FS_Interval
  <2>2. n \in T \cap (0 .. n)
    BY <1>1
  <2>3. \A k \in T \cap (0 .. n) : T \cap (0 .. k) \subseteq 0 .. n
    BY <1>1
  <2>. QED
    BY <1>2, <2>1, <2>2, <2>3
<1> HIDE DEF F
<1>4. PICK s \in F : \A t \in F : t \subseteq s => t = s
  BY <1>3, SmallestSubset
<1>5. PICK m \in T \cap (0 .. n) : s = T \cap (0 .. m)
  BY <1>4 DEF F
<1>6. ASSUME NEW k \in T, k < m PROVE FALSE
  <2>1. T \cap (0 .. k) \in F
    BY <1>1, <1>5, <1>6 DEF F
  <2>2. T \cap (0 .. k) \subseteq s
    BY <1>1, <1>5, <1>6
  <2>3. m \in T \cap (0 .. k)
    BY <1>4, <1>5, <2>1, <2>2
  <2>. QED
    BY <1>1, <1>5, <1>6, <2>3
<1>. QED
  BY <1>5, <1>6

(* A bounded one has a greatest member.                                    *)
LEMMA GreatestOf ==
    ASSUME NEW n \in Nat, NEW T, T \subseteq 0 .. n, T # {}
    PROVE  \E m \in T : \A k \in T : k <= m
<1> DEFINE R == {n - k : k \in T}
<1>1. R \subseteq Nat /\ R # {}
  <2>1. \A k \in T : n - k \in Nat
    OBVIOUS
  <2>. QED
    BY <2>1
<1>2. PICK r \in R : \A x \in R : r <= x
  <2> HIDE DEF R
  <2>. QED
    BY <1>1, LeastOf
<1>3. PICK m \in T : r = n - m
  OBVIOUS
<1>4. ASSUME NEW k \in T PROVE k <= m
  <2>1. n - m <= n - k
    BY <1>2, <1>3
  <2>2. k \in Int /\ m \in Int
    OBVIOUS
  <2>. QED
    BY <2>1, <2>2
<1>. QED
  BY <1>4

(* Two functions that add up f agree where both are defined.               *)
LEMMA SumsAgree ==
    ASSUME NEW f, NEW S, IsFiniteSet(S), NEW T, T \subseteq S,
           NEW g, AddsUp(f, S, g), NEW h, AddsUp(f, T, h)
    PROVE  g[T] = h[T]
<1> DEFINE Bad == {s \in SUBSET T : g[s] # h[s]}
<1>1. SUFFICES ASSUME Bad # {} PROVE FALSE
  OBVIOUS
<1>2. PICK m \in Bad : \A t \in Bad : t \subseteq m => t = m
  <2>1. Bad \subseteq SUBSET S
    OBVIOUS
  <2> HIDE DEF Bad
  <2>. QED
    BY <1>1, <2>1, SmallestSubset
<1>3. /\ g[m] = IF m = {} THEN 0 ELSE f[One(m)] + g[m \ {One(m)}]
      /\ h[m] = IF m = {} THEN 0 ELSE f[One(m)] + h[m \ {One(m)}]
  BY DEF AddsUp
<1>4. m # {}
  BY <1>3
<1>5. m \ {One(m)} \in SUBSET T /\ m \ {One(m)} \notin Bad
  BY <1>2, <1>4, OneFacts
<1>. QED
  BY <1>3, <1>4, <1>5

(* There is such a function, and the sum is one step of it.                *)
LEMMA SumsExist ==
    ASSUME NEW f, NEW S, IsFiniteSet(S)
    PROVE  \E g : AddsUp(f, S, g)
<1> DEFINE Bad == {s \in SUBSET S : ~ \E g : AddsUp(f, s, g)}
<1>1. SUFFICES ASSUME Bad # {} PROVE FALSE
  OBVIOUS
<1>2. PICK m \in Bad : \A t \in Bad : t \subseteq m => t = m
  <2>1. Bad \subseteq SUBSET S
    OBVIOUS
  <2> HIDE DEF Bad
  <2>. QED
    BY <1>1, <2>1, SmallestSubset
<1> DEFINE Sum(t) == SumFunctionOnSet(f, t)
           Next(t) == IF t = {} THEN 0 ELSE f[One(t)] + Sum(t \ {One(t)})
           G == [s \in SUBSET m |-> Next(s)]
<1>3. ASSUME NEW t, t \subseteq m, t # m
      PROVE  AddsUp(f, t, CHOOSE g : AddsUp(f, t, g))
  BY <1>2, <1>3
<1>4. ASSUME NEW t, t \subseteq m, t # m
      PROVE  Sum(t) = Next(t)
  <2> DEFINE g == CHOOSE x : AddsUp(f, t, x)
             u == t \ {One(t)}
             h == CHOOSE x : AddsUp(f, u, x)
  <2>1. AddsUp(f, t, g)
    BY <1>3, <1>4
  <2>2. Sum(t) = g[t]
    BY SumIsChosen
  <2> HIDE DEF g, Sum
  <2>3. g[t] = IF t = {} THEN 0 ELSE f[One(t)] + g[u]
    BY <2>1 DEF AddsUp
  <2>4. ASSUME t # {} PROVE g[u] = Sum(u)
    <3>1. u \subseteq t /\ u \subseteq m /\ u # m
      BY <1>4, <2>4, OneFacts
    <3>2. AddsUp(f, u, h)
      BY <1>3, <3>1
    <3>3. Sum(u) = h[u]
      BY SumIsChosen DEF Sum
    <3>4. IsFiniteSet(t)
      BY <1>4, FS_Subset
    <3> HIDE DEF h, u
    <3>. QED
      BY <2>1, <3>1, <3>2, <3>3, <3>4, SumsAgree
  <2>. QED
    BY <2>2, <2>3, <2>4
<1>5. AddsUp(f, m, G)
  <2>1. ASSUME NEW s \in SUBSET m, s # {} PROVE Sum(s \ {One(s)}) = G[s \ {One(s)}]
    <3> DEFINE u == s \ {One(s)}
    <3>1. u \subseteq m /\ u # m
      BY <2>1, OneFacts
    <3> HIDE DEF u, Sum, Next
    <3>2. Sum(u) = Next(u)
      BY <1>4, <3>1
    <3>3. G[u] = Next(u)
      BY <3>1
    <3>. QED
      BY <3>2, <3>3 DEF u
  <2> HIDE DEF Sum
  <2>2. G = [s \in SUBSET m |-> IF s = {} THEN 0 ELSE f[One(s)] + G[s \ {One(s)}]]
    BY <2>1
  <2>. QED
    BY <2>2 DEF AddsUp
<1>. QED
  BY <1>5

LEMMA SumStep ==
    ASSUME NEW f, NEW S, IsFiniteSet(S), S # {}
    PROVE  SumFunctionOnSet(f, S) = f[One(S)] + SumFunctionOnSet(f, S \ {One(S)})
<1> DEFINE T == S \ {One(S)}
           g == CHOOSE x : AddsUp(f, S, x)
           h == CHOOSE x : AddsUp(f, T, x)
<1>1. T \subseteq S /\ IsFiniteSet(T)
  BY FS_Subset
<1>2. AddsUp(f, S, g) /\ AddsUp(f, T, h)
  BY <1>1, SumsExist
<1>3. SumFunctionOnSet(f, S) = g[S] /\ SumFunctionOnSet(f, T) = h[T]
  BY SumIsChosen
<1> HIDE DEF g, h
<1>4. g[S] = f[One(S)] + g[T]
  BY <1>2 DEF AddsUp
<1>5. g[T] = h[T]
  BY <1>1, <1>2, SumsAgree
<1>. QED
  BY <1>3, <1>4, <1>5

(* Nothing adds up to zero.                                                *)
LEMMA SumEmpty ==
    ASSUME NEW f
    PROVE  SumFunctionOnSet(f, {}) = 0
<1>1. PICK g : AddsUp(f, {}, g)
  BY SumsExist, FS_EmptySet
<1>2. AddsUp(f, {}, CHOOSE x : AddsUp(f, {}, x))
  BY <1>1
<1>3. (CHOOSE x : AddsUp(f, {}, x))[{}] = 0
  BY <1>2 DEF AddsUp
<1>. QED
  BY <1>3, SumIsChosen

(* A sum of integers is an integer, one of naturals a natural.             *)
LEMMA SumIsInt ==
    ASSUME NEW f, NEW S, IsFiniteSet(S), \A x \in S : f[x] \in Int
    PROVE  SumFunctionOnSet(f, S) \in Int
<1> DEFINE Bad == {s \in SUBSET S : SumFunctionOnSet(f, s) \notin Int}
<1>1. SUFFICES ASSUME Bad # {} PROVE FALSE
  OBVIOUS
<1>2. Bad \subseteq SUBSET S
  OBVIOUS
<1>3. PICK m \in Bad : \A t \in Bad : t \subseteq m => t = m
  <2> HIDE DEF Bad
  <2>. QED
    BY <1>1, <1>2, SmallestSubset
<1>4. m # {}
  BY SumEmpty
<1>5. m \ {One(m)} \in SUBSET S /\ m \ {One(m)} \notin Bad /\ One(m) \in S
  BY <1>3, <1>4, OneFacts
<1>6. SumFunctionOnSet(f, m) = f[One(m)] + SumFunctionOnSet(f, m \ {One(m)})
  BY <1>4, SumStep, FS_Subset
<1>. QED
  BY <1>5, <1>6

(* The order does not matter: any element can be taken out.                *)
LEMMA SumRemove ==
    ASSUME NEW f, NEW S, IsFiniteSet(S), \A y \in S : f[y] \in Int, NEW x \in S
    PROVE  SumFunctionOnSet(f, S) = f[x] + SumFunctionOnSet(f, S \ {x})
<1> DEFINE Sum(s) == SumFunctionOnSet(f, s)
           Bad == {s \in SUBSET S : \E y \in s : Sum(s) # f[y] + Sum(s \ {y})}
<1>1. SUFFICES ASSUME Bad # {} PROVE FALSE
  OBVIOUS
<1>2. Bad \subseteq SUBSET S
  OBVIOUS
<1>3. PICK m \in Bad : \A t \in Bad : t \subseteq m => t = m
  <2> HIDE DEF Bad
  <2>. QED
    BY <1>1, <1>2, SmallestSubset
<1>4. PICK y \in m : Sum(m) # f[y] + Sum(m \ {y})
  OBVIOUS
<1> DEFINE o == One(m)
<1>5. o \in m /\ Sum(m) = f[o] + Sum(m \ {o})
  BY SumStep, FS_Subset, OneFacts
<1>6. o # y
  BY <1>4, <1>5
<1>7. \A s \in SUBSET S : Sum(s) \in Int
  BY SumIsInt, FS_Subset
<1>8. Sum(m \ {o}) = f[y] + Sum((m \ {o}) \ {y})
  <2>1. m \ {o} \in SUBSET S /\ m \ {o} \notin Bad /\ y \in m \ {o}
    BY <1>3, <1>5, <1>6
  <2> HIDE DEF Sum, o
  <2>. QED
    BY <2>1
<1>9. Sum(m \ {y}) = f[o] + Sum((m \ {y}) \ {o})
  <2>1. m \ {y} \in SUBSET S /\ m \ {y} \notin Bad /\ o \in m \ {y}
    BY <1>3, <1>5, <1>6
  <2> HIDE DEF Sum, o
  <2>. QED
    BY <2>1
<1> DEFINE rest == Sum((m \ {o}) \ {y})
<1>10. (m \ {y}) \ {o} = (m \ {o}) \ {y} /\ (m \ {o}) \ {y} \in SUBSET S
  OBVIOUS
<1>11. f[o] \in Int /\ f[y] \in Int /\ rest \in Int
  BY <1>5, <1>7, <1>10
<1> HIDE DEF Sum, o, Bad
<1>12. Sum(m \ {o}) = f[y] + rest /\ Sum(m \ {y}) = f[o] + rest
  BY <1>8, <1>9, <1>10
<1> HIDE DEF rest
<1>. QED
  BY <1>4, <1>5, <1>11, <1>12

LEMMA SumAdd ==
    ASSUME NEW f, NEW S, IsFiniteSet(S), NEW x, x \notin S,
           \A y \in S \cup {x} : f[y] \in Int
    PROVE  SumFunctionOnSet(f, S \cup {x}) = SumFunctionOnSet(f, S) + f[x]
<1>1. IsFiniteSet(S \cup {x}) /\ x \in S \cup {x} /\ (S \cup {x}) \ {x} = S
  BY FS_AddElement
<1>2. SumFunctionOnSet(f, S \cup {x}) = f[x] + SumFunctionOnSet(f, S)
  BY <1>1, SumRemove
<1>3. f[x] \in Int /\ SumFunctionOnSet(f, S) \in Int
  BY SumIsInt
<1>. QED
  BY <1>2, <1>3

(* The sum of a function that is nowhere larger is not larger.             *)
LEMMA SumMonotone ==
    ASSUME NEW f, NEW g, NEW S, IsFiniteSet(S),
           \A x \in S : f[x] \in Int /\ g[x] \in Int /\ f[x] <= g[x]
    PROVE  SumFunctionOnSet(f, S) <= SumFunctionOnSet(g, S)
<1> DEFINE F(s) == SumFunctionOnSet(f, s)
           G(s) == SumFunctionOnSet(g, s)
           Bad == {s \in SUBSET S : ~(F(s) <= G(s))}
<1>1. SUFFICES ASSUME Bad # {} PROVE FALSE
  OBVIOUS
<1>2. Bad \subseteq SUBSET S
  OBVIOUS
<1>3. PICK m \in Bad : \A t \in Bad : t \subseteq m => t = m
  <2> HIDE DEF Bad
  <2>. QED
    BY <1>1, <1>2, SmallestSubset
<1> DEFINE o == One(m)
           r == m \ {One(m)}
<1>4. m # {}
  BY SumEmpty
<1>5. r \in SUBSET S /\ r \notin Bad /\ o \in S /\ IsFiniteSet(m) /\ IsFiniteSet(r)
  BY <1>3, <1>4, OneFacts, FS_Subset
<1>6. F(m) = f[o] + F(r) /\ G(m) = g[o] + G(r)
  BY <1>4, <1>5, SumStep
<1>7. F(r) \in Int /\ G(r) \in Int
  BY <1>5, SumIsInt
<1>8. F(r) <= G(r) /\ ~(F(m) <= G(m))
  BY <1>5
<1> HIDE DEF F, G, o, r, Bad
<1>. QED
  BY <1>5, <1>6, <1>7, <1>8

LEMMA SumsEqual ==
    ASSUME NEW f, NEW g, NEW S, IsFiniteSet(S),
           \A x \in S : f[x] \in Int /\ g[x] = f[x]
    PROVE  SumFunctionOnSet(g, S) = SumFunctionOnSet(f, S)
<1>1. SumFunctionOnSet(f, S) \in Int /\ SumFunctionOnSet(g, S) \in Int
  BY SumIsInt
<1>2. /\ SumFunctionOnSet(f, S) <= SumFunctionOnSet(g, S)
      /\ SumFunctionOnSet(g, S) <= SumFunctionOnSet(f, S)
  BY SumMonotone
<1>. QED
  BY <1>1, <1>2

(* A function changed at one point.                                        *)
LEMMA SumChange ==
    ASSUME NEW f, NEW g, NEW S, IsFiniteSet(S), NEW x \in S,
           \A y \in S : f[y] \in Int /\ g[y] \in Int,
           \A y \in S \ {x} : g[y] = f[y]
    PROVE  SumFunctionOnSet(g, S) = SumFunctionOnSet(f, S) - f[x] + g[x]
<1>1. IsFiniteSet(S \ {x})
  BY FS_RemoveElement
<1>2. SumFunctionOnSet(g, S \ {x}) = SumFunctionOnSet(f, S \ {x})
  BY <1>1, SumsEqual
<1>3. /\ SumFunctionOnSet(f, S) = f[x] + SumFunctionOnSet(f, S \ {x})
      /\ SumFunctionOnSet(g, S) = g[x] + SumFunctionOnSet(g, S \ {x})
  BY SumRemove
<1>4. SumFunctionOnSet(f, S \ {x}) \in Int
  BY <1>1, SumIsInt
<1>. QED
  BY <1>2, <1>3, <1>4

LEMMA SumIsNat ==
    ASSUME NEW f, NEW S, IsFiniteSet(S), \A x \in S : f[x] \in Nat
    PROVE  SumFunctionOnSet(f, S) \in Nat
<1> DEFINE Bad == {s \in SUBSET S : SumFunctionOnSet(f, s) \notin Nat}
<1>1. SUFFICES ASSUME Bad # {} PROVE FALSE
  OBVIOUS
<1>2. Bad \subseteq SUBSET S
  OBVIOUS
<1>3. PICK m \in Bad : \A t \in Bad : t \subseteq m => t = m
  <2> HIDE DEF Bad
  <2>. QED
    BY <1>1, <1>2, SmallestSubset
<1>4. m # {}
  BY SumEmpty
<1>5. m \ {One(m)} \in SUBSET S /\ m \ {One(m)} \notin Bad /\ One(m) \in S
  BY <1>3, <1>4, OneFacts
<1>6. SumFunctionOnSet(f, m) = f[One(m)] + SumFunctionOnSet(f, m \ {One(m)})
  BY <1>4, SumStep, FS_Subset
<1>. QED
  BY <1>5, <1>6

(* Zeros add up to nothing.                                                *)
LEMMA SumOfZeros ==
    ASSUME NEW f, NEW S, IsFiniteSet(S), \A x \in S : f[x] = 0
    PROVE  SumFunctionOnSet(f, S) = 0
<1> DEFINE Bad == {s \in SUBSET S : SumFunctionOnSet(f, s) # 0}
<1>1. SUFFICES ASSUME Bad # {} PROVE FALSE
  OBVIOUS
<1>2. Bad \subseteq SUBSET S
  OBVIOUS
<1>3. PICK m \in Bad : \A t \in Bad : t \subseteq m => t = m
  <2> HIDE DEF Bad
  <2>. QED
    BY <1>1, <1>2, SmallestSubset
<1>4. m # {}
  BY SumEmpty
<1>5. m \ {One(m)} \in SUBSET S /\ m \ {One(m)} \notin Bad /\ One(m) \in S
  BY <1>3, <1>4, OneFacts
<1>6. SumFunctionOnSet(f, m) = f[One(m)] + SumFunctionOnSet(f, m \ {One(m)})
  BY <1>4, SumStep, FS_Subset
<1>. QED
  BY <1>5, <1>6

(* Fewer elements do not add up to more.                                   *)
LEMMA SumSubset ==
    ASSUME NEW f, NEW S, IsFiniteSet(S), \A x \in S : f[x] \in Nat,
           NEW T, T \subseteq S
    PROVE  SumFunctionOnSet(f, T) <= SumFunctionOnSet(f, S)
<1> DEFINE Sum(s) == SumFunctionOnSet(f, s)
           Bad == {s \in SUBSET S : T \subseteq s /\ ~(Sum(T) <= Sum(s))}
<1>1. SUFFICES ASSUME Bad # {} PROVE FALSE
  OBVIOUS
<1>2. Bad \subseteq SUBSET S
  OBVIOUS
<1>3. PICK m \in Bad : \A t \in Bad : t \subseteq m => t = m
  <2> HIDE DEF Bad
  <2>. QED
    BY <1>1, <1>2, SmallestSubset
<1>4. \A s \in SUBSET S : Sum(s) \in Nat
  BY SumIsNat, FS_Subset
<1>5. m # T
  BY <1>4
<1>6. PICK x \in m : x \notin T
  BY <1>5
<1>7. Sum(m) = f[x] + Sum(m \ {x})
  BY SumRemove, FS_Subset
<1>8. Sum(T) <= Sum(m \ {x})
  BY <1>3, <1>6
<1>9. f[x] \in Nat /\ Sum(m \ {x}) \in Nat /\ Sum(T) \in Nat /\ Sum(m) \in Nat
  BY <1>4
<1> HIDE DEF Sum
<1>. QED
  BY <1>7, <1>8, <1>9

(* Adding over a part of S is adding a function that is zero elsewhere.    *)
LEMMA SumOverSubset ==
    ASSUME NEW f, NEW g, NEW S, IsFiniteSet(S), NEW T, T \subseteq S,
           \A x \in T : f[x] \in Int /\ g[x] = f[x],
           \A x \in S \ T : g[x] = 0
    PROVE  SumFunctionOnSet(g, S) = SumFunctionOnSet(f, T)
<1> DEFINE G(s) == SumFunctionOnSet(g, s)
           Bad == {s \in SUBSET S : T \subseteq s /\ G(s) # G(T)}
<1>0. G(T) = SumFunctionOnSet(f, T)
  BY SumsEqual, FS_Subset
<1>1. SUFFICES ASSUME Bad # {} PROVE FALSE
  BY <1>0
<1>2. Bad \subseteq SUBSET S
  OBVIOUS
<1>3. PICK m \in Bad : \A t \in Bad : t \subseteq m => t = m
  <2> HIDE DEF Bad
  <2>. QED
    BY <1>1, <1>2, SmallestSubset
<1>4. m # T
  OBVIOUS
<1>5. PICK x \in m : x \notin T
  BY <1>4
<1>6. \A y \in S : g[y] \in Int
  OBVIOUS
<1>7. G(m) = g[x] + G(m \ {x}) /\ g[x] = 0
  BY <1>5, <1>6, SumRemove, FS_Subset
<1>8. G(m \ {x}) = G(T)
  BY <1>3, <1>5
<1>9. G(T) \in Int
  BY <1>6, SumIsInt, FS_Subset
<1> HIDE DEF G
<1>. QED
  BY <1>7, <1>8, <1>9
=============================================================================

----------------------------- MODULE Interpolation -----------------------------
(***************************************************************************)
(* Where a house number that is not in the database would stand, and which *)
(* house number a point without an address would have                      *)
(* (shared/interpolation.py).                                              *)
(*                                                                         *)
(* Streets are polylines with integer corners and axis-parallel segments,  *)
(* so that lengths and projections are integers; a fraction is a pair of   *)
(* integers, and where the code has a point between two corners the street *)
(* is scaled up until that point is one.  Floating-point error is left out.*)
(***************************************************************************)
EXTENDS Integers, Sequences, SequencesExt, FiniteSetsExt

CONSTANT ClusterM   \* 2000 metres, in units of the coordinates

Abs(n) == IF n < 0 THEN 0 - n ELSE n
Clamp(n, lo, hi) == IF n < lo THEN lo ELSE IF n > hi THEN hi ELSE n
Odd(n) == n % 2 = 1
Distance(p, q) == Abs(p[1] - q[1]) + Abs(p[2] - q[2])

----------------------------------------------------------------------------
(* House numbers and street names.                                         *)

Letter == -1        \* anything that is no digit
Superscript == -2   \* a character that isdigit() accepts and int() refuses
IsDigit(ch) == ch # Letter
NoNumber == -1

\* `_parse_housenumber`: the first run of digits, whatever is around it.
ParseHousenumber(hn) ==
    LET start == {i \in DOMAIN hn : IsDigit(hn[i]) /\ \A j \in 1 .. i - 1 : ~ IsDigit(hn[j])}
        run   == {j \in DOMAIN hn : \E i \in start :
                     i <= j /\ \A k \in i .. j : IsDigit(hn[k])}
        value[j \in 0 .. Len(hn)] ==
            IF j = 0 THEN 0
            ELSE IF j \in run THEN 10 * value[j - 1] + hn[j] ELSE value[j - 1]
    IN IF run = {} \/ \E j \in run : hn[j] = Superscript THEN NoNumber ELSE value[Len(hn)]

\* `_norm_street`: the words' spelling variants are one word; a generic word
\* is stripped once, and only when a name is left.
StreetKinds == {"street", "st"}
NormStreet(words) ==
    LET plain == SelectSeq(words, LAMBDA w : w # "") IN
    IF Len(plain) > 1 /\ Head(plain) \in StreetKinds THEN Tail(plain) ELSE plain

\* `_gather_addresses`: by the normalised name on both sides, and within the
\* radius of the reference point, else by city.
Gather(rows, names, near, radius, city) ==
    LET wanted == {NormStreet(n) : n \in Range(names)} \ {<<>>} IN
    SelectSeq(rows, LAMBDA r :
        /\ NormStreet(r.street) \in wanted
        /\ IF near # {} THEN \A p \in near : Distance(p, r.at) <= radius
                        ELSE city = {} \/ r.city \in city)

----------------------------------------------------------------------------
(* The street's line.                                                      *)

\* Length of the line up to each corner.
Along(line) ==
    LET to[i \in DOMAIN line] == IF i = 1 THEN 0 ELSE to[i - 1] + Distance(line[i - 1], line[i])
    IN to
TotalLength(line) == Along(line)[Len(line)]
Scaled(line, k) == [i \in DOMAIN line |-> <<k * line[i][1], k * line[i][2]>>]

OnSegment(p, a, b) == <<Clamp(p[1], Min({a[1], b[1]}), Max({a[1], b[1]})),
                        Clamp(p[2], Min({a[2], b[2]}), Max({a[2], b[2]}))>>

\* Mutant of ProjectOntoLine: the corners before the segment do not count.
ProjectWithin(p, line) ==
    LET foot(i) == OnSegment(p, line[i], line[i + 1])
        best == CHOOSE i \in 1 .. Len(line) - 1 : \A j \in 1 .. Len(line) - 1 :
                    Distance(p, foot(i)) <= Distance(p, foot(j))
    IN [at |-> foot(best), along |-> Distance(line[best], foot(best))]

\* `_project_onto_line`: the first of the closest points; `along` of `total`
\* is its fraction.  A line without length is no line.
ProjectOntoLine(p, line) ==
    LET segs    == 1 .. Len(line) - 1
        foot(i) == OnSegment(p, line[i], line[i + 1])
        sq(i)   == (p[1] - foot(i)[1]) * (p[1] - foot(i)[1]) + (p[2] - foot(i)[2]) * (p[2] - foot(i)[2])
        best    == CHOOSE i \in segs : /\ \A j \in segs : sq(i) <= sq(j)
                                       /\ \A j \in 1 .. i - 1 : sq(i) < sq(j)
    IN IF TotalLength(line) = 0 THEN [at |-> p, along |-> 0]
       ELSE [at |-> foot(best), along |-> Along(line)[best] + Distance(line[best], foot(best))]

\* The first segment whose end is that far along.
SegmentAt(line, goal) ==
    CHOOSE i \in 1 .. Len(line) - 1 :
        /\ Along(line)[i + 1] >= goal
        /\ \A j \in 1 .. i - 1 : Along(line)[j + 1] < goal

\* t units from a towards b, on the axis they share.
Sign(n) == IF n = 0 THEN 0 ELSE n \div Abs(n)
Walk(a, b, t) == <<a[1] + t * Sign(b[1] - a[1]), a[2] + t * Sign(b[2] - a[2])>>

\* `_point_at_fraction` of along / TotalLength(line).
PointAt(line, along) ==
    LET goal == Clamp(along, 0, TotalLength(line))
        seg  == SegmentAt(line, goal)
    IN IF TotalLength(line) = 0 THEN line[1]
       ELSE Walk(line[seg], line[seg + 1], goal - Along(line)[seg])

----------------------------------------------------------------------------
(* `interpolate_address`: from a number to a point.  A row is [hn, at].    *)

\* `_nearest_cluster`: what is around the first row that is nearest.
NearestCluster(rows, near) ==
    LET anchor == CHOOSE i \in DOMAIN rows :
                     /\ \A j \in DOMAIN rows : Distance(near, rows[i].at) <= Distance(near, rows[j].at)
                     /\ \A j \in 1 .. i - 1 : Distance(near, rows[i].at) < Distance(near, rows[j].at)
    IN SelectSeq(rows, LAMBDA r : Distance(rows[anchor].at, r.at) <= ClusterM)

\* The rows whose number could be parsed.
ParsedRows(rows) ==
    FoldLeft(LAMBDA acc, r : IF r.hn = NoNumber THEN acc ELSE Append(acc, r), <<>>, rows)

Candidates(rows, near) ==
    LET parsed == ParsedRows(rows) IN
    IF near # {} /\ Len(parsed) > 1 THEN NearestCluster(parsed, CHOOSE p \in near : TRUE)
                                    ELSE parsed

\* sorted() is stable: of equal numbers the last one stays as the lower
\* bracket, the first one becomes the upper bracket.  Only the numbers of the
\* given sides (odd, even) count.
Below(rows, hn, sides) ==
    LET lower == {i \in DOMAIN rows : rows[i].hn < hn /\ Odd(rows[i].hn) \in sides} IN
    {i \in lower : \A j \in lower :
        rows[j].hn < rows[i].hn \/ (rows[j].hn = rows[i].hn /\ j <= i)}
Above(rows, hn, sides) ==
    LET upper == {i \in DOMAIN rows : rows[i].hn > hn /\ Odd(rows[i].hn) \in sides} IN
    {i \in upper : \A j \in upper :
        rows[j].hn > rows[i].hn \/ (rows[j].hn = rows[i].hn /\ j >= i)}

\* Mutant of Upper: the side is not looked at.
UpperAny(rows, hn) == Above(rows, hn, BOOLEAN)

\* The brackets of the same parity, or else of any.
Lower(rows, hn) == LET same == Below(rows, hn, {Odd(hn)}) IN
                   IF same # {} THEN same ELSE Below(rows, hn, BOOLEAN)
Upper(rows, hn) == LET same == Above(rows, hn, {Odd(hn)}) IN
                   IF same # {} THEN same ELSE Above(rows, hn, BOOLEAN)

\* `_interpolation_confidence`, in hundredths.
Confidence(gap) ==
    IF gap <= 2 THEN 95 ELSE IF gap <= 6 THEN 85 ELSE IF gap <= 10 THEN 75
    ELSE IF gap <= 20 THEN 65 ELSE IF gap <= 50 THEN 50 ELSE 30

NoEstimate == [kind |-> "none"]

\* The point is `at` / `scale`: on the segment between the brackets, moved to
\* the same share of the street's line between their projections when there
\* is a line near.  With one bracket it is that bracket's.
Interpolate(rows, hn, near, line) ==
    LET known == Candidates(rows, near)
        exact == {i \in DOMAIN known : known[i].hn = hn}
        low   == Lower(known, hn)
        high  == Upper(known, hn)
    IN IF exact # {}
         THEN [kind |-> "exact", at |-> known[Min(exact)].at, scale |-> 1, confidence |-> 100,
               of |-> {known[Min(exact)]}, low |-> {}, high |-> {}]
       ELSE IF low = {} /\ high = {} THEN NoEstimate
       ELSE IF low # {} /\ high # {}
         THEN LET l   == known[Min(low)]
                  h   == known[Min(high)]
                  gap == h.hn - l.hn
                  snap == Scaled(line, gap)
                  from == ProjectOntoLine(l.at, line).along
                  to   == ProjectOntoLine(h.at, line).along
              IN [kind |-> "interpolated", scale |-> gap, confidence |-> Confidence(gap),
                  at |-> IF line # <<>>
                           THEN PointAt(snap, gap * from + (hn - l.hn) * (to - from))
                           ELSE <<gap * l.at[1] + (hn - l.hn) * (h.at[1] - l.at[1]),
                                  gap * l.at[2] + (hn - l.hn) * (h.at[2] - l.at[2])>>,
                  of |-> {}, low |-> {l}, high |-> {h}]
       ELSE LET only == known[Min(low \cup high)] IN
            [kind |-> "interpolated", at |-> only.at, scale |-> 1, confidence |-> 30,
             of |-> {}, low |-> {known[i] : i \in low}, high |-> {known[i] : i \in high}]

----------------------------------------------------------------------------
(* `reverse_interpolate`: from a point to a number.                        *)

\* Python rounds halves to the even neighbour; n / d with d > 0.
RoundHalfEven(n, d) ==
    LET fl == n \div d
        r  == n % d
    IN IF 2 * r < d THEN fl ELSE IF 2 * r > d THEN fl + 1
       ELSE IF Odd(fl) THEN fl + 1 ELSE fl

\* The parity most of the six nearest have; of a tie, what the set yields first.
DominantOdd(numbers) ==
    LET six  == {i \in DOMAIN numbers : i <= 6}
        odds == Cardinality({i \in six : Odd(numbers[i])})
    IN {b \in BOOLEAN : IF b THEN 2 * odds >= Cardinality(six) ELSE 2 * odds <= Cardinality(six)}

\* Mutant of OnSide: without the final check.
OnSideNudged(n, d, odd) ==
    LET est == Max({1, RoundHalfEven(n, d)}) IN
    IF Odd(est) = odd THEN est ELSE IF n > est * d THEN est + 1 ELSE Max({1, est - 1})

\* The estimate n / d, rounded and then nudged to the side.
OnSide(n, d, odd) ==
    LET est   == Max({1, RoundHalfEven(n, d)})
        nudge == IF n > est * d THEN est + 1 ELSE Max({1, est - 1})
    IN IF Odd(est) = odd THEN est
       ELSE IF Odd(nudge) = odd THEN nudge ELSE nudge + 1

\* `near` are the addresses, nearest first; the point q is given scaled.  The
\* estimate is a pair n / d.
RawEstimate(a, b, q, scale, line) ==
    LET street == Scaled(line, scale)
        fa == scale * ProjectOntoLine(a.at, line).along
        fb == scale * ProjectOntoLine(b.at, line).along
        fq == ProjectOntoLine(q, street).along
        da == Distance(q, <<scale * a.at[1], scale * a.at[2]>>)
        db == Distance(q, <<scale * b.at[1], scale * b.at[2]>>)
    IN IF line # <<>>
         THEN IF fa = fb THEN <<a.hn + b.hn, 2>>
              ELSE IF fb > fa THEN <<a.hn * (fb - fa) + (fq - fa) * (b.hn - a.hn), fb - fa>>
              ELSE <<a.hn * (fa - fb) + (fa - fq) * (b.hn - a.hn), fa - fb>>
       ELSE IF da + db = 0 THEN <<a.hn + b.hn, 2>>
       ELSE <<a.hn * (da + db) + da * (b.hn - a.hn), da + db>>

\* All the answers: one, or two when the sides are tied.
ReverseInterpolate(near, q, scale, line) ==
    LET parsed == ParsedRows(near) IN
    IF Len(parsed) < 2 \/ parsed[1].hn = parsed[2].hn THEN {}
    ELSE LET raw == RawEstimate(parsed[1], parsed[2], q, scale, line) IN
         {[hn |-> OnSide(raw[1], raw[2], odd), raw |-> raw, odd |-> odd] :
             odd \in DominantOdd([i \in DOMAIN parsed |-> parsed[i].hn])}
===============================================================================

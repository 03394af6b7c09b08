------------------------------- MODULE Algorithms -------------------------------
(***************************************************************************)
(* The computations of the geocoder, asked one question at a time: a       *)
(* behaviour takes a question from the constants and answers it with the   *)
(* operators of the modules it extends.  What must hold of the answers is  *)
(* said here, most of it against a definition of another kind.             *)
(***************************************************************************)
EXTENDS SearchPage, SuggestQuery, Ranking, RouteTraffic, TrafficTile, CreditPricing

CONSTANTS
    HouseQuestions,   \* [rows, hn, near, line]: where a house number is
    SnapQuestions,    \* [at, line]
    PointQuestions,   \* [near, at, line]: which house number a point has
    SpeedQuestions,   \* [kph4]: quarters of a kph
    TileQuestions,    \* [tar, level, tile, edge]
    PaintQuestions,   \* [edges, known]: known are the edges the provider has nothing for
    ShapeQuestions,   \* [points]: differences, latitude first
    AddressQuestions, \* [parts]
    OrdinalQuestions, \* [toks]
    SuggestQuestions, \* [entries, q, cell, limit]
    MergeQuestions,   \* [names, types, limit]
    RankQuestions,    \* [tags, better, admin, area]: `better` has a score more
    PriceQuestions,   \* [weights, credits]
    ScrollQuestions,  \* [effort, matches, boost, limit]
    FirstQuestions,   \* [results, rows, hn, street, ways]
    Sizes             \* of matrices

\* Weights and credits are not negative; a matrix may be of unknown size.
ASSUME PricesAssumption ==
    /\ 0 \in Sizes /\ Sizes \subseteq Nat
    /\ \A q \in PriceQuestions :
          /\ DOMAIN q.weights \subseteq Endpoints \cup {Element} /\ q.credits \in Nat
          /\ \A e \in DOMAIN q.weights : q.weights[e] \in Nat

(* `better` are tags of the same kind of element, no score of which is     *)
(* less; scores are hundredths.                                            *)
NoWorse(better, tags) ==
    /\ better.highway > 0 <=> tags.highway > 0
    /\ better.natural > 0 <=> tags.natural > 0
    /\ better.highway >= tags.highway /\ better.natural >= tags.natural
    /\ better.place >= tags.place /\ better.landuse >= tags.landuse
    /\ better.brand >= tags.brand /\ better.venue >= tags.venue
    /\ better.building >= tags.building /\ OfficeScore(better) >= OfficeScore(tags)
    /\ NamedPoiScore(better) >= NamedPoiScore(tags)
    /\ MetadataScore(better) >= MetadataScore(tags)
    /\ PopulationScore(better.population) >= PopulationScore(tags.population)

InHundredths(tags) ==
    /\ {tags.place, tags.landuse, tags.brand, tags.venue, tags.building, tags.highway, tags.natural}
          \subseteq 0 .. 100
    /\ tags.population \subseteq Nat

ASSUME RanksAssumption ==
    \A q \in RankQuestions :
        /\ InHundredths(q.tags) /\ InHundredths(q.better) /\ NoWorse(q.better, q.tags)
        /\ q.admin \in Int /\ q.area \subseteq Int

\* Edges with their speeds and lengths, one after the other along the shape.
RouteEdges == [from : {-1} \cup Nat, to : {-1} \cup Nat, live : Nat, free : Nat, length : Nat]
ASSUME PaintAssumption ==
    \A q \in PaintQuestions :
        /\ q.edges \in Seq(RouteEdges)
        /\ \A i, j \in DOMAIN q.edges :
              i < j /\ Drawn(q.edges[i]) /\ Drawn(q.edges[j]) => q.edges[i].to <= q.edges[j].from

\* Streets are polylines on a grid, known houses are at corners of it; what is
\* snapped to a street is snapped to one whose segments are along the axes.
Corners == Int \X Int
OnGrid(line) ==
    /\ line \in Seq(Corners)
    /\ \A i \in 1 .. Len(line) - 1 : line[i][1] = line[i + 1][1] \/ line[i][2] = line[i + 1][2]
ASSUME LinesAssumption ==
    /\ \A q \in SnapQuestions : OnGrid(q.line) /\ q.line # <<>> /\ q.at \in Corners
    /\ \A q \in PointQuestions :
          /\ q.line \in Seq(Corners) /\ q.at \in Corners
          /\ q.near \in Seq([hn : Nat \cup {NoNumber}, at : Corners])

\* Speeds are not negative.
ASSUME SpeedsAssumption == \A q \in SpeedQuestions : q.kph4 \in Nat

\* Ordinals to 20 in words, any in digits, with whatever suffix; other words.
Tokens == {<<"word", n, "">> : n \in 1 .. 20} \cup ({"digits"} \X Nat \X {"st", "nd", "rd", "th"})
             \cup {<<"other", 0, "">>}
ASSUME OrdinalsAssumption == \A q \in OrdinalQuestions : q.toks \in Seq(Tokens)

(* Popularity is capped (POPULARITY_CAP); a document is found once.        *)
ASSUME PagesAssumption ==
    /\ \A q \in SuggestQuestions :
          /\ IsFiniteSet(q.entries) /\ q.limit \in Nat
          /\ \A e \in q.entries : e.rank \in Nat /\ e.near \in Nat /\ e.pop \in 0 .. 7
    /\ \A q \in MergeQuestions :
          q.names \in Seq(Range(q.names)) /\ q.types \in Seq(Range(q.types)) /\ q.limit \in Nat
    /\ \A q \in FirstQuestions :
          /\ q.results \in Seq(Range(q.results))
          /\ \A i, j \in DOMAIN q.results : q.results[i].id = q.results[j].id => i = j

VARIABLES question, answer

algoVars == <<question, answer>>

Pending == <<>>
Kind(k) == question.kind = k
Asked   == answer = Pending
Answer(v) == Asked /\ answer' = <<v>> /\ UNCHANGED question
Replied(k) == Kind(k) /\ ~ Asked

Ask(kind, questions) == \E r \in questions : question = [kind |-> kind, of |-> r]

AlgoInit ==
    /\ answer = Pending
    /\ \/ Ask("house", HouseQuestions)      \/ Ask("snap", SnapQuestions)
       \/ Ask("point", PointQuestions)      \/ Ask("speed", SpeedQuestions)
       \/ Ask("tile", TileQuestions)        \/ Ask("paint", PaintQuestions)
       \/ Ask("shape", ShapeQuestions)      \/ Ask("address", AddressQuestions)
       \/ Ask("ordinal", OrdinalQuestions)  \/ Ask("suggest", SuggestQuestions)
       \/ Ask("merge", MergeQuestions)      \/ Ask("rank", RankQuestions)
       \/ Ask("price", PriceQuestions)      \/ Ask("scroll", ScrollQuestions)
       \/ Ask("first", FirstQuestions)

Q == question.of
A == answer[1]

----------------------------------------------------------------------------
(* The answers.                                                            *)

AnswerHouse == Kind("house") /\ Answer(Interpolate(Q.rows, Q.hn, Q.near, Q.line))

AnswerSnap == Kind("snap") /\
    LET foot == ProjectOntoLine(Q.at, Q.line)
    IN Answer([at |-> foot.at, back |-> PointAt(Q.line, foot.along)])

AnswerPoint == Kind("point") /\ Answer(ReverseInterpolate(Q.near, Q.at, 1, Q.line))

AnswerSpeed == Kind("speed") /\ Answer(PackSpeed({Q.kph4}, 0))

AnswerTile == Kind("tile") /\
    Answer([to |-> WriteEdge(Q.tar, EncodeGraphId(Q.level, Q.tile, Q.edge)),
            decoded |-> DecodeGraphId(EncodeGraphId(Q.level, Q.tile, Q.edge)),
            base |-> TileBaseId(EncodeGraphId(Q.level, Q.tile, Q.edge))])

Fetchable == {i \in DOMAIN Q.edges : Q.edges[i].live = 0} \ Q.known

AnswerPaint == Kind("paint") /\
    Answer([runs |-> Runs(Q.edges), windows |-> Windows(Q.edges, Fetchable)])

\* A number as the encoder of Valhalla writes it.
Zigzag(n) == IF n < 0 THEN 2 * (0 - n) - 1 ELSE 2 * n
Chunks[n \in Nat] ==
    IF n < Chunk THEN <<n>> ELSE <<Chunk + (n % Chunk)>> \o Chunks[n \div Chunk]

AnswerShape == Kind("shape") /\
    Answer(DecodePolyline(FlattenSeq([i \in DOMAIN Q.points |-> Chunks[Zigzag(Q.points[i])]])))

AnswerAddress == Kind("address") /\ Answer(ParseAddressQuery(Q.parts))

AnswerOrdinal == Kind("ordinal") /\ Answer(ExpandOrdinals(Q.toks))

AnswerSuggest == Kind("suggest") /\
    \E r \in Query(Q.entries, Q.q, Q.cell, Q.limit) :
        Answer([from |-> Source(Q.q, {r}), hits |-> r.hits, confident |-> r.confident])

AnswerMerge == Kind("merge") /\ Answer(InTurns(Q.names, Q.types, Q.limit))

AnswerRank == Kind("rank") /\
    Answer([rank |-> ComputeOfflineRank(Q.tags, Q.admin, Q.area),
            better |-> ComputeOfflineRank(Q.better, Q.admin, Q.area)])

AnswerPrice == Kind("price") /\
    Answer([cap |-> ProjectedRequestCap(Q.weights, Q.credits), costs |-> Costs(Q.weights, Sizes)])

AnswerScroll == Kind("scroll") /\ Answer(Scroll(Q.effort, Q.matches, Q.boost, Q.limit))

AnswerFirst == Kind("first") /\
    LET names == ResolveStreetNames(Q.street, Q.ways) IN
    Answer(FirstPage(Q.results, Q.hn, Q.street, names,
                     Estimate(Q.rows, Q.hn, names, {}, 0)))

AlgoNext ==
    \/ AnswerHouse \/ AnswerSnap \/ AnswerPoint \/ AnswerSpeed \/ AnswerTile
    \/ AnswerPaint \/ AnswerShape \/ AnswerAddress \/ AnswerOrdinal
    \/ AnswerSuggest \/ AnswerMerge \/ AnswerRank \/ AnswerPrice
    \/ AnswerScroll \/ AnswerFirst

AlgoSpec == AlgoInit /\ [][AlgoNext]_algoVars

----------------------------------------------------------------------------
(* A house number is placed between neighbours of its own side of the      *)
(* street wherever the street has one: no known number of that side lies   *)
(* between a bracket and it, and going back from the point with the two    *)
(* brackets yields the number that was asked for.                          *)
HouseStandsBetween ==
    Replied("house") /\ A.kind = "interpolated" =>
        LET side == {r \in Range(Candidates(Q.rows, Q.near)) : Odd(r.hn) = Odd(Q.hn)} IN
        /\ \A l \in A.low : l.hn < Q.hn
              /\ \A r \in side : r.hn < Q.hn => Odd(l.hn) = Odd(Q.hn) /\ r.hn <= l.hn
        /\ \A h \in A.high : h.hn > Q.hn
              /\ \A r \in side : r.hn > Q.hn => Odd(h.hn) = Odd(Q.hn) /\ r.hn >= h.hn
        /\ \A l \in A.low, h \in A.high :
              Odd(l.hn) = Odd(Q.hn) /\ Odd(h.hn) = Odd(Q.hn)
                /\ (Q.line # <<>> => ProjectOntoLine(l.at, Q.line).along # ProjectOntoLine(h.at, Q.line).along)
                /\ (Q.line = <<>> => l.at # h.at)
              => \A back \in ReverseInterpolate(<<l, h>>, A.at, A.scale, Q.line) : back.hn = Q.hn

(* Snapping to a street and walking its length agree: the point at the     *)
(* fraction is the projection, and no point of the line is nearer.         *)
SnapIsNearest ==
    Replied("snap") /\ TotalLength(Q.line) > 0 =>
        /\ A.back = A.at
        /\ LET sq(p) == (p[1] - Q.at[1]) * (p[1] - Q.at[1]) + (p[2] - Q.at[2]) * (p[2] - Q.at[2])
           IN \A along \in 0 .. TotalLength(Q.line) : sq(A.at) <= sq(PointAt(Q.line, along))

(* The number of a point is a number of the side of the street it is on,   *)
(* and the nearest one there is to the estimate.                           *)
NumberOnItsSide ==
    Replied("point") => \A r \in A :
        /\ r.hn >= 1 /\ Odd(r.hn) = r.odd
        /\ \A n \in 1 .. r.hn + 4 : Odd(n) = r.odd =>
              Abs(r.raw[1] - r.hn * r.raw[2]) <= Abs(r.raw[1] - n * r.raw[2])

(* A known speed, however fast, is stored within a kilometre per hour (or  *)
(* as the fastest there is) and never as the record that says "unknown".   *)
SpeedNeverUnknown ==
    Replied("speed") =>
        /\ OverallSpeedKph(A) # {}
        /\ \A k \in OverallSpeedKph(A) : Q.kph4 <= 4 * 2 * MaxRaw => Abs(4 * k - Q.kph4) <= 4
        /\ Len(A) = 64 /\ UnpackSpeed(A).breakpoint1 = 255

(* An edge's record is written inside its own tile's records, at its own   *)
(* place, or nowhere: never over a header, another member or another edge. *)
WritesStayInTile ==
    Replied("tile") =>
        /\ A.decoded = [level |-> Q.level, tile |-> Q.tile, edge |-> Q.edge]
        /\ \A off \in A.to : \E i \in DOMAIN Q.tar :
              /\ Q.tar[i].tile = A.base /\ Q.edge < Q.tar[i].edges
              /\ off = DataOffset(Q.tar, i) + HeaderSize + Q.edge * RecordSize
              /\ off + RecordSize <= DataOffset(Q.tar, i) + Q.tar[i].size

(* The runs of a leg follow one another along its shape, two neighbours    *)
(* have different levels, every drawn edge lies in a run of its own level, *)
(* and a run's speed is that of its slowest edge.                          *)
RunsPaintTheLeg ==
    Replied("paint") =>
        LET drawn == {e \in Range(Q.edges) : Drawn(e)}
            in(run) == {e \in drawn : run.from <= e.from /\ e.to <= run.to}
        IN /\ \A i \in 1 .. Len(A.runs) - 1 : /\ A.runs[i].to <= A.runs[i + 1].from
                                              /\ A.runs[i].level # A.runs[i + 1].level
           /\ \A e \in drawn : \E i \in DOMAIN A.runs :
                 e \in in(A.runs[i]) /\ A.runs[i].level = Classify(e.live, e.free)
           /\ \A i \in DOMAIN A.runs :
                 LET lives == {e.live : e \in in(A.runs[i])} \ {0} IN
                 A.runs[i].live = IF lives = {} THEN 0 ELSE Min(lives)

(* The windows hold the uncovered edges, each one once and in their order; *)
(* a window is an unbroken stretch, no longer than allowed unless it is a  *)
(* single edge.                                                            *)
WindowsPartition ==
    Replied("paint") =>
        LET length == [i \in DOMAIN Q.edges |-> Q.edges[i].length] IN
        /\ UNION {Range(w) : w \in Range(A.windows)} = Fetchable
        /\ \A k, l \in DOMAIN A.windows : k < l =>
              \A i \in Range(A.windows[k]), j \in Range(A.windows[l]) : i < j
        /\ \A w \in Range(A.windows) :
              /\ w # <<>> /\ \A i \in 1 .. Len(w) - 1 : w[i + 1] = w[i] + 1
              /\ Len(w) > 1 => SumFunctionOnSet(length, Range(w)) <= WindowKm

(* Decoding what the encoder wrote gives the corners of the shape.         *)
ShapeRoundTrip ==
    Replied("shape") =>
        /\ Len(A) = Len(Q.points) \div 2
        /\ \A p \in DOMAIN A :
              LET before(c) == IF p = 1 THEN 0 ELSE A[p - 1][c] IN
              /\ A[p][2] - before(2) = Q.points[2 * p - 1]
              /\ A[p][1] - before(1) = Q.points[2 * p]

(* Taking a query apart invents nothing and uses nothing twice: each word  *)
(* of a component is a word of the query, or the half of one that ends in  *)
(* a city's name, and no word is in two components.                        *)
ComponentsAreDisjoint ==
    Replied("address") =>
        LET texts == [c \in DOMAIN A |-> IF A[c] = None THEN <<>>
                                         ELSE IF c = "housenumber" THEN <<The(A[c])>> ELSE The(A[c])]
            words == FlattenSeq([i \in DOMAIN Q.parts |-> Normalize(Q.parts[i])])
            given == words \o FlattenSeq([i \in DOMAIN words |->
                        IF words[i] \in DOMAIN EndsInCity THEN EndsInCity[words[i]] ELSE <<>>])
            count(seq, w) == Cardinality({i \in DOMAIN seq : seq[i] = w})
            used(w) == FoldFunction(LAMBDA t, acc : count(t, w) + acc, 0, texts)
        IN \A c \in DOMAIN A : \A w \in Range(texts[c]) : used(w) <= count(given, w)

(* The alternate spelling of ordinals is undone by taking it again, where  *)
(* those in digits have the suffix that English gives them.                *)
WellSpelt(t) == t[1] = "digits" /\ t[2] \in 1 .. 20 => t[3] = Suffix(t[2])
OrdinalsSwapBack ==
    Replied("ordinal") /\ (\A i \in DOMAIN Q.toks : WellSpelt(Q.toks[i])) =>
        \A other \in A : ExpandOrdinals(other) = Only(Q.toks)

(* A confident answer of Redis is what a scan of every indexed place would *)
(* give, as long as no bucket was trimmed: the longest bucket misses no    *)
(* place whose name matches, whichever word of it does.                    *)
FastPathIsScan ==
    Replied("suggest") /\ Len(Q.q) >= MinPrefix /\ Cardinality(Q.entries) <= TopK =>
        LET named == {e \in Q.entries : TextQuality(e.name, Q.q) # NoMatch}
            score(e) == RankScore(e, MatchQuality(e, Q.q))
        IN /\ \A i \in DOMAIN A.hits : MatchQuality(A.hits[i], Q.q) # NoMatch
           /\ \A e \in named : e \notin Range(A.hits) =>
                 /\ Len(A.hits) >= Q.limit
                 /\ \A h \in Range(A.hits) : score(h) >= score(e)
           /\ A.confident => A.from = "redis" \/ Q.q \in TypeWords

(* "larger than what popularity alone can make up": of two places equally  *)
(* prominent and near, the better match comes first.                       *)
PopularityKeepsTiers ==
    Replied("suggest") => \A i, j \in DOMAIN A.hits :
        LET a == A.hits[i]  b == A.hits[j] IN
        a.rank = b.rank /\ a.near = b.near /\ MatchQuality(a, Q.q) > MatchQuality(b, Q.q) => i < j

(* Of the two lists of a type query each has its share: no place twice,    *)
(* the page full if there is enough, and the k-th of a list among the      *)
(* first 2 k.                                                              *)
BothListsShown ==
    Replied("merge") =>
        /\ IsInjective(A)
        /\ Len(A) = Min({Q.limit, Cardinality(Range(Q.names) \cup Range(Q.types))})
        /\ \A list \in {Q.names, Q.types} : \A k \in DOMAIN list :
              2 * k <= Len(A) => \E i \in 1 .. 2 * k : A[i] = list[k]

\* A rank is between 0 and 1, in ten thousandths.
RankScale == 0 .. 10000

(* Ranks stay on their scale, and more of one score never ranks an element *)
(* of the same kind lower.                                                 *)
RankOnScale ==
    Replied("rank") => A.rank \in RankScale /\ A.better \in RankScale /\ A.rank <= A.better

(* weights.py: the backstop is "the most requests a tenant could make      *)
(* within its credit quota": one more, of whatever kind, costs more than   *)
(* the quota, and as many of the cheapest kind do not.  That is so as long *)
(* as nothing is free, and no endpoint without a row is cheaper than all   *)
(* those with one, which are the only ones the backstop knows.             *)
NoneCheaperUnlisted ==
    Endpoints \subseteq DOMAIN Q.weights \/ MinWeight(Q.weights) <= DefaultWeight

BackstopIsTight ==
    Replied("price") /\ 0 \notin A.costs /\ NoneCheaperUnlisted =>
        /\ \A c \in A.costs : (A.cap + 1) * c > Q.credits * MilliPerCredit
        /\ A.cap * Min(A.costs) <= Q.credits * MilliPerCredit

(* A matrix costs at least its flat price and more only for more elements. *)
MatrixPricesGrow ==
    Replied("price") => \A s, t \in Sizes :
        /\ MatrixMilli(Q.weights, s, t) >= WeightFor(Q.weights, Matrix)
        /\ \A u \in Sizes : u >= t => MatrixMilli(Q.weights, s, u) >= MatrixMilli(Q.weights, s, t)

(* Scrolling with offset += limit shows every match once, as long as they  *)
(* are no more than the window that is rescored.                           *)
ScrollShowsAllOnce ==
    Replied("scroll") /\ (Q.effort = "high" \/ Len(Q.matches) <= RescoreWindow) =>
        Len(A) = Len(Q.matches) /\ Range(A) = Range(Q.matches)

(* geocoder.py: "Scroll by re-querying with offset += limit", "The window  *)
(* is widened to cover the requested page so deep offsets still get        *)
(* scored": no place is shown on two pages.                                *)
DeepScrollShowsOnce == Replied("scroll") => IsInjective(A)

(* The synthesised address never doubles a place of the page: no id twice, *)
(* and the matches keep their order.                                       *)
NothingTwice ==
    Replied("first") =>
        /\ \A i, j \in DOMAIN A : A[i].id = A[j].id => i = j
        /\ \E n \in 0 .. 1 : SubSeq(A, n + 1, Len(A)) = Q.results

(* The properties above, by what they are about and by how far it is known *)
(* that they hold: of whatever is asked, or of the questions that are.     *)
TrafficRight == SpeedNeverUnknown /\ RunsPaintTheLeg /\ WindowsPartition
PagesRight   == OrdinalsSwapBack /\ PopularityKeepsTiers /\ BothListsShown /\ NothingTwice
ScalesRight  == /\ BackstopIsTight /\ MatrixPricesGrow /\ RankOnScale
                /\ SnapIsNearest /\ NumberOnItsSide
LookupsRight == /\ HouseStandsBetween /\ WritesStayInTile /\ ShapeRoundTrip
                /\ ComponentsAreDisjoint /\ FastPathIsScan /\ ScrollShowsAllOnce
===============================================================================

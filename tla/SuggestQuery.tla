----------------------------- MODULE SuggestQuery -----------------------------
(***************************************************************************)
(* Answering a keystroke (shared/autocomplete.py and GET /autocomplete of  *)
(* services/geocoder.py): what is indexed of a place, which bucket a query *)
(* reads, how the candidates are filtered and ranked, when Redis answers   *)
(* and how Elasticsearch's two lists are merged when it does not.          *)
(*                                                                         *)
(* A text is a sequence of characters, Space between words, normalised.    *)
(* An entry is [id, name, address, rank, pop, near]: rank is offline_rank, *)
(* pop is log1p(popularity) (at most 7) and near the decay, in fifteenths. *)
(***************************************************************************)
EXTENDS Integers, Sequences, SequencesExt, FiniteSetsExt, Functions

CONSTANTS MinPrefix, MaxPrefix,  \* 2 and 6 in the code
          TopK,                  \* members a bucket keeps
          Articles,              \* words dropped from the front
          TypeWords              \* _CATEGORY_TERMS

ASSUME SuggestQueryAssumption ==
    MinPrefix \in Nat \ {0} /\ MaxPrefix >= MinPrefix /\ TopK \in Nat \ {0}

Space == 0

----------------------------------------------------------------------------
(* Texts.                                                                  *)

Words(text) ==
    LET in(i)  == i \in DOMAIN text /\ text[i] # Space
        starts == {i \in DOMAIN text : in(i) /\ ~ in(i - 1)}
        end(i) == CHOOSE j \in i .. Len(text) : ~ in(j + 1) /\ \A k \in i .. j : in(k)
    IN [w \in 1 .. Cardinality(starts) |->
           LET i == CHOOSE s \in starts : Cardinality({t \in starts : t < s}) = w - 1
           IN SubSeq(text, i, end(i))]

Cut(text, n) == SubSeq(text, 1, Min({n, Len(text)}))

\* `_prefixes`.
TextPrefixes(text) == {Cut(text, n) : n \in MinPrefix .. Min({MaxPrefix, Len(text)})}

\* The label of `_build_suggestion`: the name, and the address after it.
Label(e) == IF e.address \in {<<>>, e.name} THEN e.name
            ELSE IF e.name = <<>> THEN e.address ELSE e.name \o <<Space>> \o e.address

\* Mutant of IndexedPrefixes: only whole texts are indexed.
IndexedWhole(e) == TextPrefixes(e.name) \cup TextPrefixes(e.address)

\* `index_entry`: the texts and each of their words.
IndexedPrefixes(e) ==
    LET texts == {e.name, e.address} IN
    UNION {TextPrefixes(t) : t \in texts \cup UNION {Range(Words(t)) : t \in texts}}

----------------------------------------------------------------------------
(* Geohash of a cell: the bits of longitude and latitude, alternating.     *)
(* `encode_geohash` halves the range once a bit; positions are fractions   *)
(* n / 2^bits of the range.                                                *)

Geohash(lat, lon, bits) ==
    LET bit(n, k) == (n \div 2^(bits - k)) % 2 IN
    [i \in 1 .. 2 * bits |-> IF i % 2 = 1 THEN bit(lon, (i + 1) \div 2) ELSE bit(lat, i \div 2)]

----------------------------------------------------------------------------
(* Matching.                                                               *)

Exact == 100   Prefix == 80   FirstWord == 60   AnyWord == 40   NoMatch == 0

StripArticle(words) ==
    IF Len(words) > 1 /\ Head(words) \in Articles THEN Tail(words) ELSE words

TextQuality(text, q) ==
    LET words == Words(text)
        head  == StripArticle(words)
    IN IF text = <<>> THEN NoMatch
       ELSE IF text = q THEN Exact
       ELSE IF IsPrefix(q, text) THEN Prefix
       ELSE IF head # <<>> /\ IsPrefix(q, head[1]) THEN FirstWord
       ELSE IF \E i \in DOMAIN words : IsPrefix(q, words[i]) THEN AnyWord
       ELSE NoMatch

\* `_match_quality`, on the name and on the label.
MatchQuality(e, q) == Max({TextQuality(e.name, q), TextQuality(Label(e), q)})

\* Mutant of RankScore: popularity counts as much as in the stored score.
RankScorePopular(e, quality) == quality + 3 * e.rank + 5 * e.pop + e.near

\* `_rank_score`.
RankScore(e, quality) == quality + 3 * e.rank + 2 * e.pop + e.near

----------------------------------------------------------------------------
(* `query`.                                                                *)

\* The members of a bucket: the TopK by the stored score, equal scores in
\* the order of the members.
StoredScore(e) == 10 * e.rank + 5 * e.pop
Bucket(entries, key, cell) ==
    LET all == {e \in entries : key \in IndexedPrefixes(e) /\ (cell = {} \/ e.cell \in cell)} IN
    {e \in all : Cardinality({f \in all : \/ StoredScore(f) > StoredScore(e)
                                           \/ (StoredScore(f) = StoredScore(e) /\ f.id > e.id)}) < TopK}

\* The longest bucket, everywhere and in the caller's cell, filtered.
Found(entries, q, cell) ==
    LET key == Cut(q, MaxPrefix) IN
    {e \in Bucket(entries, key, {}) \cup (IF cell = {} THEN {} ELSE Bucket(entries, key, cell)) :
        MatchQuality(e, q) # NoMatch}

\* The hits are as good a choice of `limit` candidates as there is, in order.
\* Ties keep the order of the fetch: any.
Best(found, q, limit) ==
    LET score(e) == RankScore(e, MatchQuality(e, q))
        n == Min({limit, Cardinality(found)})
    IN {s \in [1 .. n -> found] :
           /\ IsInjective(s)
           /\ \A i \in 1 .. n - 1 : score(s[i]) >= score(s[i + 1])
           /\ \A e \in found \ Range(s) : n > 0 => score(s[n]) >= score(e)}

Query(entries, q, cell, limit) ==
    IF Len(q) < MinPrefix THEN {[hits |-> <<>>, confident |-> FALSE]}
    ELSE LET found == Found(entries, q, cell)
             best  == Max({0} \cup {MatchQuality(e, q) : e \in found})
         IN {[hits |-> s, confident |-> Len(s) >= limit /\ best >= Prefix] :
                s \in Best(found, q, limit)}

----------------------------------------------------------------------------
(* GET /autocomplete.                                                      *)

\* Who answers.  `redis` are the answers Redis may give; none when it fails
\* or is switched off.
Source(q, redis) ==
    IF q \notin TypeWords /\ \E r \in redis : r.confident THEN "redis" ELSE "elasticsearch"

\* Mutant of InTurns: a place in both lists is shown twice.
InTurnsAll(names, types, limit) ==
    Cut(FlattenSeq([k \in 1 .. Max({Len(names), Len(types)}) |->
        (IF k <= Len(names) THEN <<names[k]>> ELSE <<>>)
            \o (IF k <= Len(types) THEN <<types[k]>> ELSE <<>>)]), limit)

\* The name and the type lists, in turn; a place keeps its better slot.
InTurns(names, types, limit) ==
    LET turns == FlattenSeq([k \in 1 .. Max({Len(names), Len(types)}) |->
                    (IF k <= Len(names) THEN <<names[k]>> ELSE <<>>)
                        \o (IF k <= Len(types) THEN <<types[k]>> ELSE <<>>)])
        once == FoldLeft(LAMBDA acc, h : IF h \in Range(acc) THEN acc ELSE Append(acc, h), <<>>, turns)
    IN Cut(once, limit)
===============================================================================

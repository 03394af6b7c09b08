----------------------------- MODULE NearbyScroll -----------------------------
(***************************************************************************)
(* Clients who scroll through /nearby (nearby.py) while the index changes, *)
(* with the result cache (cache_service.py) between them and the search.   *)
(* A cursor is the sort value of the last place of a page; the cache key   *)
(* has the cursor as it is, but the query point rounded, so that the       *)
(* points of a cell share their pages.                                     *)
(*                                                                         *)
(* Points and places are on a line; the order is by distance and then by   *)
(* osm_id ("distance"), or by a score that popularity raises ("best").     *)
(***************************************************************************)
EXTENDS Integers, Sequences, FiniteSets, SequencesExt, Functions

CONSTANTS
    Points,      \* query points: coordinates
    CellOf,      \* `coord`: the rounded point
    Sites,       \* places that can be in the index: coordinates, distinct
    Limit,       \* limit
    BySort,      \* "distance" or "best"
    Clients,
    MaxChanges,  \* bound: changes of the index, and failing cache calls
    MaxScrolls   \* bound: scrolls that start

ASSUME NearbyScrollAssumption ==
    /\ Points \subseteq Int /\ Sites \subseteq Int /\ IsFiniteSet(Sites)
    /\ DOMAIN CellOf = Points
    /\ BySort \subseteq {"distance", "best"}
    /\ Limit \in Nat \ {0} /\ {MaxChanges, MaxScrolls} \subseteq Nat

VARIABLES
    index,     \* popularity of the places in the index
    pages,     \* the cache: answers by key
    scroll,    \* per client
    touched,   \* per client: places that came, went or moved while it scrolls
    changes, scrolls

nearbyVars == <<index, pages, scroll, touched, changes, scrolls>>

Top     == <<>>     \* no cursor
NoScroll == [at |-> "none", point |-> 0, sort |-> "distance", cursor |-> Top, got |-> <<>>,
             own |-> TRUE, had |-> {}]

Gap(p, s) == IF p < s THEN s - p ELSE p - s

\* The sort array: ascending, and unique by the tiebreak.
SortValue(p, s, sort) == IF sort = "distance" THEN <<Gap(p, s), s>>
                         ELSE <<Gap(p, s) - 3 * index[s], s>>
Precedes(v, w) == v[1] < w[1] \/ (v[1] = w[1] /\ v[2] < w[2])

NearbyInit ==
    /\ index \in {Restrict([s \in Sites |-> 0], S) : S \in SUBSET Sites}
    /\ pages = <<>>
    /\ scroll = [c \in Clients |-> NoScroll]
    /\ touched = [c \in Clients |-> {}]
    /\ changes = 0 /\ scrolls = 0

----------------------------------------------------------------------------
\* Mutant of After: the sort has no tiebreak, and search_after skips equals.
AfterStrict(p, sort, cursor) ==
    {s \in DOMAIN index : cursor = Top \/ cursor[1] < SortValue(p, s, sort)[1]}

\* search_after.
After(p, sort, cursor) ==
    {s \in DOMAIN index : cursor = Top \/ Precedes(cursor, SortValue(p, s, sort))}

Least(n, a) == IF n < a THEN n ELSE a

\* The first of these places in the order of their sort values, and
\* next_cursor.  The first page knows the total; with a cursor a full page
\* means that there may be more.
PageOf(left, value, cursor) ==
    LET rank == [s \in left |-> Cardinality({t \in left : Precedes(value[t], value[s])})]
        hits == [i \in 1 .. Least(Limit, Cardinality(left)) |-> CHOOSE s \in left : rank[s] = i - 1]
        more == IF cursor = Top THEN Len(hits) < Cardinality(left) ELSE Len(hits) = Limit
    IN [hits |-> hits,
        next |-> IF more /\ hits # <<>> THEN {value[Last(hits)]} ELSE {}]

Answer(p, sort, cursor) ==
    LET left == After(p, sort, cursor)
    IN PageOf(left, [s \in left |-> SortValue(p, s, sort)], cursor)

Key(c) == <<CellOf[scroll[c].point], scroll[c].sort, scroll[c].cursor>>

Start(c, p, sort) ==
    /\ scroll[c].at # "scroll" /\ scrolls < MaxScrolls
    /\ scrolls' = scrolls + 1
    /\ scroll' = [scroll EXCEPT ![c] = [NoScroll EXCEPT !.at = "scroll", !.point = p, !.sort = sort,
                                                       !.had = DOMAIN index]]
    /\ touched' = [touched EXCEPT ![c] = {}]
    /\ UNCHANGED <<index, pages, changes>>

\* Where the client is after an answer computed for the point `of`.
Read(c, answer) ==
    LET was == scroll[c]
    IN scroll' = [scroll EXCEPT ![c] =
        [was EXCEPT !.got = was.got \o answer.hits,
                    !.own = was.own /\ answer.of = was.point /\ answer.fresh,
                    !.at = IF answer.next = {} THEN "end" ELSE "scroll",
                    !.cursor = IF answer.next = {} THEN was.cursor
                                                   ELSE CHOOSE v \in answer.next : TRUE]]

Hit(c) ==
    /\ scroll[c].at = "scroll" /\ Key(c) \in DOMAIN pages
    /\ Read(c, pages[Key(c)])
    /\ UNCHANGED <<index, pages, touched, changes, scrolls>>

Computed(c) ==
    LET a == Answer(scroll[c].point, scroll[c].sort, scroll[c].cursor)
    IN [hits |-> a.hits, next |-> a.next, of |-> scroll[c].point, fresh |-> TRUE]

Miss(c) ==
    /\ scroll[c].at = "scroll" /\ Key(c) \notin DOMAIN pages
    /\ Read(c, Computed(c))
    /\ pages' = [k \in DOMAIN pages \cup {Key(c)} |-> IF k = Key(c) THEN Computed(c) ELSE pages[k]]
    /\ UNCHANGED <<index, touched, changes, scrolls>>

\* Redis fails: a miss, and nothing is stored.
Bypass(c) ==
    /\ scroll[c].at = "scroll" /\ changes < MaxChanges
    /\ changes' = changes + 1
    /\ Read(c, Computed(c))
    /\ UNCHANGED <<index, pages, touched, scrolls>>

Expire(k) ==
    /\ pages' = Restrict(pages, DOMAIN pages \ {k})
    /\ UNCHANGED <<index, scroll, touched, changes, scrolls>>

\* A place is inserted or becomes more popular.  Pages that are in the cache
\* still have the index as it was: who starts after the change may meet them.
Change(s) ==
    /\ changes < MaxChanges
    /\ changes' = changes + 1
    /\ index' = [t \in DOMAIN index \cup {s} |->
                   IF t \notin DOMAIN index THEN 0 ELSE IF t = s THEN index[t] + 1 ELSE index[t]]
    /\ touched' = [c \in Clients |-> touched[c] \cup {s}]
    /\ pages' = [k \in DOMAIN pages |-> [pages[k] EXCEPT !.fresh = FALSE]]
    /\ UNCHANGED <<scroll, scrolls>>

NearbyNext ==
    \/ \E c \in Clients : \/ Hit(c) \/ Miss(c) \/ Bypass(c)
                          \/ \E p \in Points, sort \in BySort : Start(c, p, sort)
    \/ \E s \in Sites : Change(s)
    \/ \E k \in DOMAIN pages : Expire(k)

NearbySpec == NearbyInit /\ [][NearbyNext]_nearbyVars

----------------------------------------------------------------------------
NearbyTypeOK ==
    /\ DOMAIN index \subseteq Sites
    /\ \A c \in Clients : /\ scroll[c].at \in {"none", "scroll", "end"}
                          /\ Range(scroll[c].got) \subseteq Sites

(* Whatever else is inserted or moves, in whatever order pages come and    *)
(* from wherever: a client who got no page computed for another point, and *)
(* none older than the last change, gets each of the places that stayed as they *)
(* were exactly once.                                                      *)
Untouched(c) == scroll[c].had \ touched[c]
Times(c, s)  == Cardinality({i \in DOMAIN scroll[c].got : scroll[c].got[i] = s})

EachPlaceOnce ==
    \A c \in Clients : scroll[c].own =>
        \A s \in Untouched(c) : /\ Times(c, s) <= 1
                                /\ scroll[c].at = "end" => Times(c, s) = 1

(* No scroll leaves its type, and each shows every place once.             *)
NearbyInv == NearbyTypeOK /\ EachPlaceOnce
==============================================================================

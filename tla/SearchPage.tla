------------------------------ MODULE SearchPage ------------------------------
(***************************************************************************)
(* GET /geocode and GET /address after Elasticsearch has answered          *)
(* (services/geocoder.py): which matches a page shows, and the synthesised *)
(* address that is put above them.                                         *)
(*                                                                         *)
(* A match is [id, hn, street]: `hn` the characters of addr_housenumber,   *)
(* `street` the words of addr_street.  Address rows of PostGIS have the    *)
(* same fields and a position `at`.                                        *)
(***************************************************************************)
EXTENDS AddressQuery, Interpolation, TLC

CONSTANT RescoreWindow

ASSUME SearchPageAssumption == RescoreWindow \in Nat \ {0}

----------------------------------------------------------------------------
(* Pages.  `matches` are in the order of the cheap text query, and boost   *)
(* orders them as the function score does: lower is better.                *)

Boosted(matches, boost) == SortSeq(matches, LAMBDA a, b : boost[a] < boost[b])

\* Mutant of Window: only what the page needs.
WindowOfPage(limit, offset) == offset + limit

Window(limit, offset) == Max({RescoreWindow, offset + limit})

\* The whole order; of effort "optimized" only the rescored window counts,
\* for no page reaches past it.
Order(effort, matches, boost, limit, offset) ==
    IF effort = "high" THEN Boosted(matches, boost)
    ELSE Boosted(SubSeq(matches, 1, Min({Window(limit, offset), Len(matches)})), boost)

\* `total` is unknown when hits are not counted: a full page promises more.
Page(effort, matches, boost, limit, offset) ==
    LET order == Order(effort, matches, boost, limit, offset)
        hits  == SubSeq(order, offset + 1, Min({offset + limit, Len(order)}))
    IN [hits |-> hits,
        has_more |-> IF effort = "high" THEN offset + Len(hits) < Len(matches)
                     ELSE Len(hits) >= limit]

\* Scrolling: offset += limit while has_more.
Scroll(effort, matches, boost, limit) ==
    LET pages == 0 .. Len(matches)
        page(k) == Page(effort, matches, boost, limit, k * limit)
        last == CHOOSE k \in pages : /\ ~ page(k).has_more
                                     /\ \A j \in 0 .. k - 1 : page(j).has_more
    IN FlattenSeq([k \in 1 .. last + 1 |-> page(k - 1).hits])

----------------------------------------------------------------------------
(* The synthesised address.                                                *)

\* `_resolve_street_names`: the asked name first, then what the matching
\* streets are called; Elasticsearch failing leaves the asked name.
ResolveStreetNames(street, ways) ==
    IF street = <<>> THEN <<>>
    ELSE FoldLeft(LAMBDA acc, n : IF n = <<>> \/ n \in Range(acc) THEN acc ELSE Append(acc, n),
                  <<street>>, ways)

\* What `interpolate_address` finds for the number on a street of one of the
\* names: an address row, a synthesised point (id 0), or nothing.
Estimate(rows, number, names, near, radius) ==
    LET nearby == Gather(rows, names, near, radius, {})
        known  == [i \in DOMAIN nearby |-> [nearby[i] EXCEPT !.hn = ParseHousenumber(@)]]
        found  == Interpolate(known, number, near, <<>>)
    IN CASE found.kind = "none"  -> {}
         [] found.kind = "exact" -> {[id |-> r.id] : r \in found.of}
         [] OTHER                -> {[id |-> 0]}

\* The asked number on the asked street.
IsAsked(r, number, street) ==
    ParseHousenumber(r.hn) = number /\ StreetTokenMatch(street, r.street)

\* Mutant of FirstPage: the estimate is put on top whatever is shown.
FirstPageUnguarded(results, number, street, names, estimate) ==
    LET exact == \E r \in Range(results) :
                    \/ IsAsked(r, number, street)
                    \/ ParseHousenumber(r.hn) = number /\ r.street \in Range(names)
    IN IF exact \/ estimate = {} THEN results
       ELSE <<[id |-> The(estimate).id, hn |-> <<>>, street |-> street]>> \o results

\* /geocode, on the first page only.
FirstPage(results, number, street, names, estimate) ==
    LET exact == \E r \in Range(results) :
                    \/ IsAsked(r, number, street)
                    \/ ParseHousenumber(r.hn) = number /\ r.street \in Range(names)
        shown == {r.id : r \in Range(results)}
    IN IF exact \/ estimate = {} \/ The(estimate).id \in shown THEN results
       ELSE <<[id |-> The(estimate).id, hn |-> <<>>, street |-> street]>> \o results

\* /address: the number as it is written, and no look at what is shown.
AddressPage(results, number, street, estimate) ==
    IF (\E r \in Range(results) : r.hn = <<number>> /\ StreetTokenMatch(street, r.street))
        \/ estimate = {} THEN results
    ELSE <<[id |-> The(estimate).id, hn |-> <<>>, street |-> street]>> \o results
===============================================================================

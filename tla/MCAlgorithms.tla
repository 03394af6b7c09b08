------------------------------ MODULE MCAlgorithms ------------------------------
(***************************************************************************)
(* The questions: small sets in which every case of the computations is.   *)
(***************************************************************************)
EXTENDS Algorithms

SeqsUpTo(S, n) == UNION {[1 .. k -> S] : k \in 0 .. n}

\* A street with a corner, or none (and to snap to, one that crosses itself).
Corner == <<<<0, 0>>, <<2, 0>>, <<2, 2>>>>
Lines  == {<<>>, Corner}

MCHouse == [rows : SeqsUpTo([hn : {1, 2, 4, 7}, at : {<<0, 0>>, <<2, 0>>, <<2, 2>>}], 3),
            hn : {3, 4}, near : {{}, {<<0, 0>>}}, line : Lines]
MCSnap  == [at : (0 .. 3) \X (0 .. 3),
            line : {Corner, <<<<3, 3>>, <<3, 0>>, <<0, 0>>, <<0, 1>>>>, <<<<1, 1>>, <<1, 1>>>>,
                    <<<<0, 1>>, <<3, 1>>, <<3, 3>>, <<1, 3>>, <<1, 0>>>>}]
MCPoint == [near : SeqsUpTo([hn : {1, 2, 4, 7}, at : {<<0, 0>>, <<2, 0>>, <<2, 2>>}], 3),
            at : {<<0, 0>>, <<1, 0>>, <<2, 1>>}, line : Lines]

MCSpeed == [kph4 : 0 .. 1040]

Member == [file : BOOLEAN, tile : {1, 5}, edges : {0, 2}, size : {16, 48}]
MCTile == [tar : {t \in SeqsUpTo(Member, 2) : \A i \in DOMAIN t : t[i].size # 16 => t[i].edges <= 2},
           level : {1}, tile : 0 .. 1, edge : 0 .. 3]

\* Edges one after the other along the shape; one without indices.
Placed(e, i) == [from |-> IF e.drawn THEN i - 1 ELSE -1, to |-> IF e.drawn THEN i ELSE -1,
                 live |-> e.live, free |-> e.free, length |-> e.length]
MCPaint ==
    {[edges |-> [i \in DOMAIN s |-> Placed(s[i], i)], known |-> k] :
        s \in SeqsUpTo([live : {0, 10, 12, 40}, free : {40}, length : {1, 2}, drawn : {TRUE}], 4)
              \cup SeqsUpTo([live : {0, 30}, free : {0, 40}, length : {1}, drawn : BOOLEAN], 3),
        k \in SUBSET {2}}

MCShape == [points : UNION {[1 .. n -> {-40, -1, 0, 3, 1025}] : n \in {0, 2, 4}}]

Parts == {<<"10", "tahrir">>, <<"st", "nasr">>, <<"rue", "x", "paris">>, <<"rue", "x-paris">>,
          <<"zamalek">>, <<"cairo">>, <<"foo">>, <<"EG">>, <<"11511">>, <<"5th", "settlement">>, <<>>}
MCAddress == [parts : UNION {[1 .. n -> Parts] : n \in 1 .. 3}
                \cup {<<<<"10", "tahrir">>, <<"foo">>, <<"foo">>, <<"zamalek">>, <<"cairo">>, <<"foo">>>>}]

Ordinal == {<<"word", n, "">> : n \in {1, 2, 3, 4, 11, 20}}
              \cup {<<"digits", n, Suffix(n)>> : n \in {1, 2, 3, 4, 11, 20}}
              \cup {<<"other", 0, "">>, <<"digits", 21, "st">>, <<"digits", 2, "th">>}
MCOrdinal == [toks : UNION {[1 .. n -> Ordinal] : n \in 1 .. 2}]

Place(id, name, address, rank, pop, near) ==
    [id |-> id, name |-> name, address |-> address, rank |-> rank, pop |-> pop,
     near |-> near, cell |-> id % 2]
Places == {Place(1, <<1, 2>>, <<>>, 0, 0, 0),
           Place(2, <<1, 2, 1>>, <<2, 2, 1>>, 0, 7, 0),
           Place(3, <<3, 3, Space, 1, 2, 1>>, <<>>, 0, 7, 0),
           Place(4, <<2, 1, Space, 1, 2, 2, 1>>, <<>>, 6, 0, 15),
           Place(5, <<2, 2, 1>>, <<1, 2, 2, 1>>, 6, 0, 0),
           Place(6, <<1, 2, 2, 1>>, <<>>, 0, 3, 15)}
MCSuggest == [entries : {s \in SUBSET Places : Cardinality(s) <= 3},
              q : {<<1>>, <<1, 2>>, <<1, 2, 1>>, <<1, 2, 2, 1>>, <<2, 1, 0, 1>>, <<2, 2>>, <<3, 3>>},
              cell : {{}, {0}}, limit : 1 .. 2]
MCTypeWords == {<<3, 3>>}
MCArticles == {<<3, 3>>}

MCMerge == [names : {s \in SeqsUpTo(1 .. 4, 3) : IsInjective(s)},
            types : {s \in SeqsUpTo(1 .. 4, 3) : IsInjective(s)}, limit : 1 .. 4]

Tags == [place : {0, 100}, population : {{}, {3}}, wikidata : {TRUE}, wikipedia : BOOLEAN,
         landuse : {0, 100}, brand : {40}, venue : {0, 100}, building : {0, 80},
         office : {"none", "other"}, named : {TRUE}, evidence : BOOLEAN,
         highway : {0, 40}, natural : {0, 100}]
MCRank == UNION {{[tags |-> t, better |-> b, admin |-> a, area |-> r] :
                     b \in {[t EXCEPT !.venue = 100], [t EXCEPT !.population = {8}],
                            [t EXCEPT !.office = "insurance", !.evidence = TRUE],
                            [t EXCEPT !.highway = IF @ = 0 THEN 0 ELSE 100]},
                     a \in {0, 2, 12}, r \in {{}, {-3}, {5}}} :
                 t \in {s \in Tags : s.place = s.landuse /\ (s.venue = 0 \/ s.building = 0 \/ s.evidence)}}

MCEndpoints == {"geocode", "reverse", "matrix"}
MCListed == {{}, {"matrix", "element"}, {"geocode", "reverse", "matrix"},
             {"geocode", "reverse", "matrix", "element"}}
MCPrice  == UNION {[weights : [listed -> {100, 250, 1000, 3000}], credits : 0 .. 3] : listed \in MCListed}

MCScroll == UNION {[effort : {"high", "optimized"}, matches : {[i \in 1 .. n |-> i]},
                    boost : {f \in [1 .. n -> 1 .. n] : IsInjective(f)}, limit : 1 .. 2] : n \in 1 .. 4}

Docs(id) == [id : {id}, hn : {<<5>>, <<5, Letter>>, <<7>>}, street : {<<"tahrir", "street">>, <<"x">>}]
Rows == [id : 1 .. 3, hn : {<<5>>, <<7>>, <<3>>}, street : {<<"tahrir">>, <<"x">>}, at : {<<0, 0>>}]
MCFirst == [results : {<<>>} \cup {<<d>> : d \in Docs(1)} \cup {<<d, e>> : d \in Docs(1), e \in Docs(2)},
            rows : SeqsUpTo(Rows, 2) , hn : {5}, street : {<<"tahrir">>},
            ways : {<<>>, <<<<"x">>>>}]

MCAbbreviations == [w \in {"st"} |-> "street"]
MCEndsInCity == [w \in {"x-paris"} |-> <<"x", "paris">>]
===============================================================================

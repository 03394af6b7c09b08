----------------------------- MODULE AddressQuery -----------------------------
(***************************************************************************)
(* Addresses (shared/address.py): what is stored of a place's addr:* tags, *)
(* and how a query is recognised and taken apart.                          *)
(*                                                                         *)
(* A query is its parts between commas, a part the sequence of its words;  *)
(* the keyword lists of three languages are one vocabulary, given by the   *)
(* constants.  An optional value is a set with at most one member.         *)
(***************************************************************************)
EXTENDS Integers, Sequences, SequencesExt, FiniteSetsExt, Functions

CONSTANTS
    Abbreviations, \* word -> word: the expansions and foldings, composed
    Numbers,       \* _HOUSENUMBER_RE: a digit first
    Ordinals,      \* _ORDINAL_RE: numbers that are no house numbers
    Postcodes,     \* _POSTCODE_RE
    Openers,       \* words _detect_arabic_street / _detect_french_street anchor on
    StreetWords,   \* _STREET_RE
    Keywords,      \* further street keywords
    Cities,        \* _ALL_CITY_KEYWORDS (of one word)
    Codes,         \* two or three capitals
    EndsInCity     \* word -> <<stem, city>>: words that merely end like a city

ASSUME AddressQueryAssumption ==
    /\ Postcodes \subseteq Numbers /\ Ordinals \subseteq Numbers
    /\ Range(Abbreviations) \cap DOMAIN Abbreviations = {}
    /\ DOMAIN EndsInCity \cap Cities = {}

None == {}
Only(v) == {v}
The(s) == CHOOSE v \in s : TRUE
OrElse(s, t) == IF s = None THEN t ELSE s     \* setdefault

----------------------------------------------------------------------------
(* Stored addresses.  Tags are a function from some addr:* keys to values. *)

CityKeys == <<"city", "town", "village", "hamlet">>

\* `extract_address_components`.
ExtractComponents(tags) ==
    LET fallback == SelectSeq(CityKeys, LAMBDA k : k \in DOMAIN tags)
        plain    == DOMAIN tags \ Range(CityKeys)
    IN [f \in plain \cup {"city" : k \in Range(fallback)} |->
           IF f = "city" THEN tags[Head(fallback)] ELSE tags[f]]

\* `build_full_address`: the components in order, the street line in one.
BuildFullAddress(tags) ==
    LET addr == ExtractComponents(tags)
        have(f) == IF f \in DOMAIN addr THEN <<addr[f]>> ELSE <<>>
        line == IF have("housenumber") \o have("street") # <<>>
                  THEN <<have("housenumber") \o have("street")>>
                  ELSE IF have("place") # <<>> THEN <<have("place")>> ELSE <<>>
        rest == [i \in 1 .. 6 |-> have(<<"suburb", "district", "city", "postcode",
                                         "state", "country">>[i])]
    IN SelectSeq(<<have("unit"), have("floor")>> \o line \o rest, LAMBDA p : p # <<>>)

----------------------------------------------------------------------------
(* Ordinals: words 1 to 20, and <<n, suffix>> for the digit form.          *)

Suffix(n) == IF n % 100 \in 10 .. 20 THEN "th"
             ELSE CASE n % 10 = 1 -> "st" [] n % 10 = 2 -> "nd" [] n % 10 = 3 -> "rd" [] OTHER -> "th"

\* Mutant of ExpandOrdinals: eleven to thirteen as any other.
ExpandOrdinalsPlain(toks) ==
    LET suffix(n) == CASE n % 10 = 1 -> "st" [] n % 10 = 2 -> "nd" [] n % 10 = 3 -> "rd" [] OTHER -> "th"
        swap(t) == IF t[1] = "digits" /\ t[2] \in 1 .. 20 THEN <<"word", t[2], "">>
                   ELSE IF t[1] = "word" THEN <<"digits", t[2], suffix(t[2])>> ELSE t
        out == [i \in DOMAIN toks |-> swap(toks[i])]
    IN IF out = toks THEN None ELSE Only(out)

\* `expand_ordinals`: the alternate spelling, if there is an ordinal to 20.
ExpandOrdinals(toks) ==
    LET swap(t) == IF t[1] = "digits" /\ t[2] \in 1 .. 20 THEN <<"word", t[2], "">>
                   ELSE IF t[1] = "word" THEN <<"digits", t[2], Suffix(t[2])>> ELSE t
        out == [i \in DOMAIN toks |-> swap(toks[i])]
    IN IF out = toks THEN None ELSE Only(out)

----------------------------------------------------------------------------
(* Queries.                                                                *)

\* `normalize_address_text`, word by word.
Normalize(part) ==
    [i \in DOMAIN part |-> IF part[i] \in DOMAIN Abbreviations THEN Abbreviations[part[i]] ELSE part[i]]


IsHousenumber(w) == w \in Numbers /\ w \notin Ordinals
Numbered(part) == Len(part) > 1 /\ IsHousenumber(part[1])
HasStreetWord(part) == \E i \in DOMAIN part : part[i] \in StreetWords

\* `is_address_query`.
IsAddressQuery(parts) ==
    \/ Len(parts) > 1
    \/ \E part \in Range(parts) :
          Numbered(part) \/ HasStreetWord(part) \/ \E i \in DOMAIN part : part[i] \in Keywords \cup Cities

\* `_detect_arabic_street`, `_detect_french_street`: an opener, then a name
\* that ends like a city, in a word of its own or not.
DetectStreet(part) ==
    LET last == Last(part) IN
    IF Len(part) < 2 \/ part[1] \notin Openers THEN None
    ELSE IF last \in Cities THEN Only(<<Front(part), last>>)
    ELSE IF last \in DOMAIN EndsInCity THEN Only(<<Front(part) \o <<EndsInCity[last][1]>>,
                                                  EndsInCity[last][2]>>)
    ELSE None

IsPostcode(part) == Len(part) = 1 /\ part[1] \in Postcodes
IsCity(part)     == Len(part) = 1 /\ part[1] \in Cities
IsCode(part)     == Len(part) = 1 /\ part[1] \in Codes

\* The first part that fits, if one does.
First(parts, fits) == {i \in DOMAIN parts : fits[i] /\ \A j \in 1 .. i - 1 : ~ fits[j]}

Nothing == [housenumber |-> None, street |-> None, city |-> None, suburb |-> None,
            state |-> None, country |-> None, postcode |-> None]

\* Passes 2 to 4: the part that is the street (or the city), and what it gives.
StreetOf(parts) ==
    LET numbered == First(parts, [i \in DOMAIN parts |-> Numbered(parts[i])])
        worded   == First(parts, [i \in DOMAIN parts |-> DetectStreet(parts[i]) # None
                                                         \/ HasStreetWord(parts[i])])
    IN IF numbered # {}
         THEN LET p == parts[The(numbered)] IN
              [at |-> The(numbered), found |->
                  [Nothing EXCEPT !.housenumber = Only(p[1]), !.street = Only(Tail(p))]]
       ELSE IF worded # {}
         THEN LET p == parts[The(worded)]
                  split == DetectStreet(p)
              IN [at |-> The(worded), found |->
                     IF split = None THEN [Nothing EXCEPT !.street = Only(p)]
                     ELSE [Nothing EXCEPT !.street = Only(The(split)[1]), !.city = Only(<<The(split)[2]>>)]]
       ELSE [at |-> 1, found |->
                IF Len(parts) = 1 /\ IsCity(parts[1]) THEN [Nothing EXCEPT !.city = Only(parts[1])]
                ELSE [Nothing EXCEPT !.street = Only(parts[1])]]

\* Pass 5: one further part.
Locate(r, part) ==
    IF part = <<>> THEN r
    ELSE IF IsCode(part) THEN [r EXCEPT !.country = OrElse(@, Only(part))]
    ELSE IF IsCity(part) THEN [r EXCEPT !.city = OrElse(@, Only(part))]
    ELSE IF r.city = None THEN [r EXCEPT !.city = Only(part)]
    ELSE IF r.suburb = None THEN [r EXCEPT !.suburb = Only(part)]
    ELSE IF r.state = None THEN [r EXCEPT !.state = Only(part)]
    ELSE r

\* Mutant of ParseAddressQuery: the street's part is not marked as assigned.
ParseAddressQueryAll(query) ==
    LET left == SelectSeq([i \in DOMAIN query |-> Normalize(query[i])], LAMBDA p : ~ IsPostcode(p))
    IN IF left = <<>> THEN Nothing ELSE FoldLeft(Locate, StreetOf(left).found, left)

\* `parse_address_query`.
ParseAddressQuery(query) ==
    LET parts == [i \in DOMAIN query |-> Normalize(query[i])]
        codes == SelectSeq(parts, IsPostcode)
        left  == SelectSeq(parts, LAMBDA p : ~ IsPostcode(p))
        start == StreetOf(left)
        found == FoldLeft(Locate, start.found, RemoveAt(left, start.at))
        post  == IF codes = <<>> THEN None ELSE Only(Head(codes))
    IN IF left = <<>> THEN [Nothing EXCEPT !.postcode = post] ELSE [found EXCEPT !.postcode = post]

----------------------------------------------------------------------------
(* Matching.                                                               *)

Generic == {"street", "road"}

\* `_street_token_match`: the words that mean something, as substrings of
\* the stored name; here as words of it.
StreetTokenMatch(asked, stored) ==
    LET core == {w \in Range(asked) : w \notin Generic}
        must == IF core = {} THEN Range(asked) ELSE core
    IN asked = <<>> \/ (stored # <<>> /\ must \subseteq Range(stored))
==============================================================================

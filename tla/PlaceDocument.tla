---------------------------- MODULE PlaceDocument ----------------------------
(***************************************************************************)
(* One document of the search index and all who write it: the bulk updates *)
(* of es_inserter.py, /feedback, the address found in the background       *)
(* (enrichment.py) and the generated description (geocoder.py).  None of   *)
(* them takes a lock; an update of Elasticsearch reads the document,       *)
(* merges, and writes it only if its version is still the same.            *)
(*                                                                         *)
(* A tag set is a function from some keys to values.  Around stands for    *)
(* the polygons PostGIS finds around the place, the place itself included; *)
(* of the nearest lines one stands for all.                                *)
(***************************************************************************)
EXTENDS Integers, FiniteSets

CONSTANTS
    TagSets,      \* what messages about the element may say
    Around,       \* polygons around the centroid
    AreaOf,       \* their areas
    Self,         \* the element's own polygon
    Street,       \* the nearest line
    Areas,        \* areas the element may be re-mapped to (0: a point)
    StreetMax,    \* _NEAREST_STREET_MAX_AREA_KM2
    Misses,       \* requests that may miss the description at once
    Processes,    \* replicas of the API, each with its _enrich_inflight
    PopularityMax,
    MaxIngests, MaxClashes  \* bounds: messages; failed calls

ASSUME PlaceDocumentAssumption ==
    /\ Self \in Around /\ Street \notin Around
    /\ AreaOf \in [Around -> Nat] /\ Areas \subseteq Nat /\ StreetMax \in Nat
    /\ {PopularityMax, MaxIngests, MaxClashes} \subseteq Nat

VARIABLES
    google,    \* whether the element comes from the Google provider
    doc,       \* the document, or NoDoc
    ingest,    \* the inserter's update, and whether another came between read and write
    enrich,    \* per replica: the element's background enrichment
    describe,  \* descriptions being generated
    indexed,   \* the polygons of Around, and the street, Elasticsearch has by now
    ingests, clashes

placeVars == <<google, doc, ingest, enrich, describe, indexed, ingests, clashes>>
boundVars == <<google, ingests, clashes>>

NoTags    == [k \in {} |-> 0]
NoDoc     == [tags |-> NoTags, text |-> {}, area |-> 0, pop |-> -1, address |-> {}, about |-> {}]
Exists    == doc.pop >= 0
NoIngest  == [at |-> "none", tags |-> NoTags, area |-> 0, overtaken |-> FALSE]
NoEnrich  == [at |-> "none", area |-> 0, address |-> {}]
NoDescribe == [at |-> "none", tags |-> NoTags]
Address   == [street : BOOLEAN, parents : SUBSET Around]

PlaceInit ==
    /\ google \in BOOLEAN /\ doc = NoDoc
    /\ ingest = NoIngest /\ enrich = [r \in Processes |-> NoEnrich] /\ describe = [m \in Misses |-> NoDescribe]
    /\ indexed = {}
    /\ ingests = 0 /\ clashes = 0

----------------------------------------------------------------------------
(* Ingestion.                                                              *)

\* `build_text`, the name fields too: what the tags say.
TextOf(tags) == {<<k, tags[k]>> : k \in DOMAIN tags}

\* A partial update merges objects key by key, and so does the script for
\* documents of Google: values are replaced, keys never removed.
Merged(old, new) ==
    [k \in DOMAIN new \cup DOMAIN old |-> IF k \in DOMAIN new THEN new[k] ELSE old[k]]

\* Mutant of Written: popularity among the fields.
WrittenAnew(old, tags, area) ==
    LET all == Merged(old.tags, tags) IN
    [old EXCEPT !.tags = all, !.text = TextOf(IF google THEN all ELSE tags), !.area = area,
                !.pop = 0]

\* The fields of a message.  The script recomputes the text from the merged
\* tags; the partial update takes the text of the message.
Written(old, tags, area) ==
    LET all == Merged(old.tags, tags) IN
    [old EXCEPT !.tags = all, !.text = TextOf(IF google THEN all ELSE tags), !.area = area,
                !.pop = IF @ < 0 THEN 0 ELSE @]

IngestReads(tags, area) ==
    /\ ingest.at = "none" /\ ingests < MaxIngests
    /\ ingests' = ingests + 1
    /\ ingest' = [at |-> "write", tags |-> tags, area |-> area, overtaken |-> FALSE]
    /\ UNCHANGED <<doc, enrich, describe, indexed, google, clashes>>

\* A conflict is an error of the item: logged, and the message acknowledged.
IngestWrites ==
    /\ ingest.at = "write"
    /\ doc' = IF ingest.overtaken THEN doc ELSE Written(doc, ingest.tags, ingest.area)
    /\ ingest' = NoIngest
    /\ UNCHANGED <<enrich, describe, indexed, boundVars>>

\* Another update of the document was accepted.
Overtake == ingest' = [ingest EXCEPT !.overtaken = ingest.at = "write"]

\* Polygons and streets are indexed as their own messages come.
IndexOther(q) ==
    /\ q \in (Around \cup {Street}) \ (indexed \cup {Self})
    /\ indexed' = indexed \cup {q}
    /\ UNCHANGED <<doc, ingest, enrich, describe, boundVars>>

\* /feedback; a document that does not exist is not made.
Feedback ==
    /\ Exists /\ doc.pop < PopularityMax
    /\ doc' = [doc EXCEPT !.pop = @ + 1]
    /\ Overtake
    /\ UNCHANGED <<enrich, describe, indexed, boundVars>>

----------------------------------------------------------------------------
(* The address.                                                            *)

\* Mutant of Encloses: a parent as large as the feature will do.
EnclosesOrEqual(q, area) == area = 0 \/ AreaOf[q] >= area

\* A genuine parent is larger than the feature; a point keeps all.
Encloses(q, area) == area = 0 \/ AreaOf[q] > area

SkipStreet(area) == area > StreetMax

\* `address_needs_refresh`.
NeedsRefresh(address, area) ==
    \/ address = {}
    \/ \E a \in address : \/ Self \in a.parents
                          \/ \E q \in a.parents : area > 0 /\ AreaOf[q] <= area
                          \/ SkipStreet(area) /\ a.street

\* Mutant of Search: an address there is will do.
SearchMissing(r) ==
    /\ Exists /\ doc.address = {}
    /\ enrich[r].at = "none"
    /\ enrich' = [enrich EXCEPT ![r] = [at |-> "find", area |-> doc.area, address |-> {}]]
    /\ UNCHANGED <<doc, ingest, describe, indexed, boundVars>>

\* A search met the document; not if this replica is at it already.
Search(r) ==
    /\ Exists /\ NeedsRefresh(doc.address, doc.area)
    /\ enrich[r].at = "none"
    /\ enrich' = [enrich EXCEPT ![r] = [at |-> "find", area |-> doc.area, address |-> {}]]
    /\ UNCHANGED <<doc, ingest, describe, indexed, boundVars>>

\* What Elasticsearch knows of the lines and polygons PostGIS found; none of
\* it if its answer failed, and that is an address like any other.
Found(known, area) ==
    [street  |-> ~ SkipStreet(area) /\ Street \in known,
     parents |-> {q \in (Around \ {Self}) \cap known : Encloses(q, area)}]

FindAddress(r) ==
    /\ enrich[r].at = "find"
    /\ enrich' = [enrich EXCEPT ![r] =
                   [@ EXCEPT !.at = "write", !.address = {Found(indexed, enrich[r].area)}]]
    /\ UNCHANGED <<doc, ingest, describe, indexed, boundVars>>

MgetFails(r) ==
    /\ enrich[r].at = "find" /\ clashes < MaxClashes
    /\ clashes' = clashes + 1
    /\ enrich' = [enrich EXCEPT ![r] =
                   [@ EXCEPT !.at = "write", !.address = {Found({}, enrich[r].area)}]]
    /\ UNCHANGED <<doc, ingest, describe, indexed, google, ingests>>

WriteAddress(r) ==
    /\ enrich[r].at = "write"
    /\ doc' = [doc EXCEPT !.address = enrich[r].address]
    /\ Overtake
    /\ enrich' = [enrich EXCEPT ![r] = NoEnrich]
    /\ UNCHANGED <<describe, indexed, boundVars>>

\* PostGIS fails or the update does: logged, and the element is free again.
EnrichFails(r) ==
    /\ enrich[r].at \in {"find", "write"} /\ clashes < MaxClashes
    /\ clashes' = clashes + 1
    /\ enrich' = [enrich EXCEPT ![r] = NoEnrich]
    /\ UNCHANGED <<doc, ingest, describe, indexed, google, ingests>>

----------------------------------------------------------------------------
(* The description.                                                        *)

\* A miss starts a generation from the document as read, one per request.
Describe(m) ==
    /\ Exists /\ doc.about = {} /\ describe[m].at = "none"
    /\ describe' = [describe EXCEPT ![m] = [at |-> "generate", tags |-> doc.tags]]
    /\ UNCHANGED <<doc, ingest, enrich, indexed, boundVars>>

CacheDescription(m) ==
    /\ describe[m].at = "generate"
    /\ doc' = [doc EXCEPT !.about = {describe[m].tags}]
    /\ Overtake
    /\ describe' = [describe EXCEPT ![m] = NoDescribe]
    /\ UNCHANGED <<enrich, indexed, boundVars>>

\* Ollama fails, or the update does.
DescribeFails(m) ==
    /\ describe[m].at = "generate" /\ clashes < MaxClashes
    /\ clashes' = clashes + 1 /\ describe' = [describe EXCEPT ![m] = NoDescribe]
    /\ UNCHANGED <<doc, ingest, enrich, indexed, google, ingests>>

----------------------------------------------------------------------------
PlaceNext ==
    \/ \E t \in TagSets, a \in Areas : IngestReads(t, a)
    \/ IngestWrites \/ Feedback
    \/ \E q \in Around \cup {Street} : IndexOther(q)
    \/ \E r \in Processes : Search(r) \/ FindAddress(r) \/ MgetFails(r) \/ WriteAddress(r)
                               \/ EnrichFails(r)
    \/ \E m \in Misses : Describe(m) \/ CacheDescription(m) \/ DescribeFails(m)

PlaceSpec == PlaceInit /\ [][PlaceNext]_placeVars

(* A background task runs on.  That clients go on searching is a premise   *)
(* of AddressSettles, stated as the fairness of Search.                    *)
PlaceFairness ==
    \A r \in Processes : /\ WF_placeVars(FindAddress(r)) /\ WF_placeVars(WriteAddress(r))
                         /\ WF_placeVars(Search(r))

----------------------------------------------------------------------------
PlaceTypeOK ==
    /\ doc.area \in Areas \cup {0} /\ doc.pop \in -1 .. PopularityMax
    /\ doc.address \subseteq Address /\ Cardinality(doc.address) <= 1
    /\ ingest.at \in {"none", "write"}
    /\ \A r \in Processes : /\ enrich[r].at \in {"none", "find", "write"}
                            /\ enrich[r].address \subseteq Address
    /\ \A m \in Misses : describe[m].at \in {"none", "generate"}
    /\ indexed \subseteq Around \cup {Street}

(* An address that enrich_address has made is one that                     *)
(* address_needs_refresh accepts for the same feature: no document is      *)
(* enriched again and again.                                               *)
FreshWhenWritten ==
    \A r \in Processes : enrich[r].at = "write" => ~ NeedsRefresh(enrich[r].address, enrich[r].area)

(* The searchable text never says what the tags do not, and for a document *)
(* of Google, merged from messages in several languages, it says all they  *)
(* do.                                                                     *)
TextFollowsTags ==
    Exists => /\ doc.text \subseteq TextOf(doc.tags)
              /\ google => doc.text = TextOf(doc.tags)

PlaceInv == PlaceTypeOK /\ FreshWhenWritten /\ TextFollowsTags

(* "Re-ingesting an existing doc does NOT reset the popularity", nor the    *)
(* address or the description others have put there; and no other writer   *)
(* takes back a boost.                                                     *)
OthersKept == [][/\ doc'.pop >= doc.pop
                 /\ doc.address # {} => doc'.address # {}
                 /\ doc.about # {} => doc'.about # {}]_placeVars

(* Over failed and repeated enrichments the document of an element that    *)
(* exists has an address in the end, and one that does not name the element*)
(* itself, a parent no larger than the area mapped then, or a street for a *)
(* feature too large to have one.  That is all address_needs_refresh sees: *)
(* parents that an element which has shrunk since ought to have got, or    *)
(* that were not indexed yet, may stay missing.                            *)
AddressSettles == <>[](Exists => ~ NeedsRefresh(doc.address, doc.area))
==============================================================================

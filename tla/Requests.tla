------------------------------- MODULE Requests -------------------------------
(***************************************************************************)
(* The requests of the geocoder that write, and those that join its stores *)
(* (services/geocoder.py): POST /insert, /places and /traffic/probe(s),    *)
(* the deep endpoints over Google, /reverse, /traffic/edge and /health.  A *)
(* request is a coroutine that calls one server after another, and any     *)
(* call may raise; a publish that raises may have been stored.  The two    *)
(* inserters apply the stream each at its own pace.                        *)
(*                                                                         *)
(* Abstracted: an element is its id; /reverse is asked for a point in all  *)
(* the polygons; a deep request has its results published, and is asked    *)
(* for with a key at hand.  /deep/nearby is /deep/forward without          *)
(* enrichment, and what Google does not find is a request without results. *)
(***************************************************************************)
EXTENDS Integers, Sequences, FiniteSets

CONSTANTS
    Clients,
    Polygons,     \* the elements clients insert
    AreaOf, AdminLevelOf,
    Finds,        \* answers of Google: sequences of elements, as they map
    Custom(_),    \* the id of the place created by the n-th request
    Trace,        \* a batch of probes
    MaxRequests,  \* bound: requests
    MaxFaults     \* bound: calls that raise

ASSUME RequestsAssumption ==
    /\ MaxRequests \in Nat /\ MaxFaults \in Nat
    /\ \A p \in Polygons : AreaOf[p] \in Nat \ {0} /\ AdminLevelOf[p] \in Nat
    /\ \A f \in Finds : Len(f) \in Nat /\ f = [i \in 1 .. Len(f) |-> f[i]]

Kinds   == {"insert", "place", "probe", "forward", "deep_reverse", "reverse", "edge", "health"}
Direct  == {"insert", "place", "probe"}
Deep    == {"forward", "deep_reverse"}
Stores  == {"es", "postgis"}

VARIABLES
    published,  \* per subject, what its stream has stored
    applied,    \* per store, how much of "osm" its inserter has applied
    shown,      \* places put into the autocomplete index by their request
    req,        \* per client, its request
    asked,
    faults

requestVars == <<published, applied, shown, req, asked, faults>>
storeVars   == <<published, applied, shown>>

Elems(s)      == {s[i] : i \in 1 .. Len(s)}
Subject(kind) == IF kind = "probe" THEN "traffic" ELSE "osm"
StoredIn(s)   == {published.osm[i] : i \in 1 .. applied[s]}

NoRequest == [kind |-> "insert", at |-> "idle", ids |-> <<>>, todo |-> <<>>, acked |-> {},
              rows |-> {}, docs |-> {}, polygons |-> <<>>, code |-> 0,
              faulted |-> {},  \* history: servers whose call raised
              before |-> {}]   \* history: polygons in both stores when it came

RequestsInit ==
    /\ published = [osm |-> <<>>, traffic |-> <<>>]
    /\ applied = [s \in Stores |-> 0] /\ shown = {}
    /\ req = [c \in Clients |-> NoRequest]
    /\ asked = 0 /\ faults = 0

At(c, place) == req[c].at = place

Answered(r, code) == [r EXCEPT !.at = "answered", !.code = code]

\* The request of c goes on as r.
Go(c, r) == req' = [req EXCEPT ![c] = r]
Respond(c, code) == Go(c, Answered(req[c], code))

\* A call to `server` raises, and the request of c goes on as r.
Raises(c, server, r) ==
    /\ faults < MaxFaults /\ faults' = faults + 1
    /\ Go(c, [r EXCEPT !.faulted = @ \union {server}])

----------------------------------------------------------------------------
FirstCallOf(kind) ==
    CASE kind \in Direct -> "publish" [] kind \in Deep -> "google"
      [] kind = "reverse" -> "rows"   [] kind = "edge" -> "locate"
      [] kind = "health" -> "health"

\* A client sends its request; one that was refused may send it again.
Receive(c, kind) ==
    /\ req[c].at \in {"idle", "answered"} /\ asked < MaxRequests
    /\ asked' = asked + 1
    /\ \E ids \in CASE kind = "insert" -> {<<p>> : p \in Polygons}
                    [] kind = "place" -> {<<Custom(asked')>>}
                    [] kind = "probe" -> {<<Trace>>}
                    [] OTHER -> {<<>>} :
        Go(c, [NoRequest EXCEPT !.kind = kind, !.at = FirstCallOf(kind), !.ids = ids, !.todo = ids,
                                !.before = Polygons \intersect StoredIn("es") \intersect StoredIn("postgis")])
    /\ UNCHANGED <<storeVars, faults>>

AskGoogle(c) ==
    /\ At(c, "google")
    /\ \E found \in Finds :
        Go(c, [req[c] EXCEPT !.at = "publish", !.ids = found, !.todo = found])
    /\ UNCHANGED <<storeVars, asked, faults>>

GoogleFails(c) ==
    /\ At(c, "google") /\ Raises(c, "google", Answered(req[c], 502))
    /\ UNCHANGED <<storeVars, asked>>

\* The stream of the request stores the next of its messages.
Store(c) ==
    published' = [published EXCEPT ![Subject(req[c].kind)] = Append(@, Head(req[c].todo))]

PublishAcked(c) ==
    /\ At(c, "publish") /\ req[c].todo # <<>>
    /\ Store(c)
    /\ Go(c, [req[c] EXCEPT !.acked = @ \union {Head(req[c].todo)}, !.todo = Tail(@)])
    /\ UNCHANGED <<applied, shown, asked, faults>>

\* No acknowledgement, stored or not: a direct request is refused, a deep one
\* goes on without counting the element.
PublishRaises(c) ==
    /\ At(c, "publish") /\ req[c].todo # <<>>
    /\ Store(c) \/ UNCHANGED published
    /\ Raises(c, "nats", IF req[c].kind \in Direct THEN Answered(req[c], 500)
                         ELSE [req[c] EXCEPT !.todo = Tail(@)])
    /\ UNCHANGED <<applied, shown, asked>>

Published(c) ==
    /\ At(c, "publish") /\ req[c].todo = <<>>
    /\ CASE req[c].kind \in {"insert", "probe"} -> Respond(c, 200)
         [] req[c].kind = "place"        -> Go(c, [req[c] EXCEPT !.at = "show"])
         [] req[c].kind = "forward"      -> Go(c, [req[c] EXCEPT !.at = "enrich"])
         [] req[c].kind = "deep_reverse" -> Go(c, [req[c] EXCEPT !.at = "rows"])
    /\ UNCHANGED <<storeVars, asked, faults>>

Show(c) ==
    /\ At(c, "show")
    /\ shown' = shown \union Elems(req[c].ids)
    /\ Respond(c, 200)
    /\ UNCHANGED <<published, applied, asked, faults>>

\* Mutant of ShowRaises: Redis failing fails the request.
ShowRaisesOn(c) ==
    /\ At(c, "show") /\ Raises(c, "redis", Answered(req[c], 500))
    /\ UNCHANGED <<storeVars, asked>>

\* Redis failing is not the client's concern.
ShowRaises(c) ==
    /\ At(c, "show") /\ Raises(c, "redis", Answered(req[c], 200))
    /\ UNCHANGED <<storeVars, asked>>

\* The results of /deep/forward get what local addresses there are.
Enrich(c) ==
    /\ At(c, "enrich")
    /\ \/ Respond(c, 200) /\ UNCHANGED faults
       \/ req[c].ids # <<>> /\ Raises(c, "postgis", Answered(req[c], 200))
    /\ UNCHANGED <<storeVars, asked>>

----------------------------------------------------------------------------
(* /reverse: rows of PostGIS, then their documents of Elasticsearch.       *)

ReadRows(c) ==
    /\ At(c, "rows")
    /\ Go(c, [req[c] EXCEPT !.at = "docs", !.rows = Polygons \intersect StoredIn("postgis")])
    /\ UNCHANGED <<storeVars, asked, faults>>

\* /deep/reverse then answers without local context.
RowsRaise(c) ==
    /\ At(c, "rows")
    /\ Raises(c, "postgis", Answered(req[c], IF req[c].kind = "reverse" THEN 500 ELSE 200))
    /\ UNCHANGED <<storeVars, asked>>

\* The sort key: of a polygon without a document, area 0 and no level.
Before(p, q, docs) ==
    \/ p \notin docs
    \/ {p, q} \subseteq docs
       /\ \/ AreaOf[p] < AreaOf[q]
          \/ AreaOf[p] = AreaOf[q] /\ AdminLevelOf[p] >= AdminLevelOf[q]

Sorted(ps, docs) ==
    {s \in [1 .. Cardinality(ps) -> ps] :
        Elems(s) = ps /\ \A i, j \in DOMAIN s : i < j => Before(s[i], s[j], docs)}

\* Mutant of Joined: only polygons that have a document.
JoinedNamed(r, docs) ==
    {[r EXCEPT !.polygons = s] : s \in Sorted(r.rows \intersect docs, docs)}

\* Every row, with what its document says where there is one.
Joined(r, docs) == {[r EXCEPT !.polygons = s] : s \in Sorted(r.rows, docs)}

ReadDocs(c) ==
    /\ At(c, "docs")
    /\ \E r \in Joined([req[c] EXCEPT !.docs = StoredIn("es")], StoredIn("es")) :
        Go(c, Answered(r, 200))
    /\ UNCHANGED <<storeVars, asked, faults>>

\* Polygons are then shown without their documents.
DocsRaise(c) ==
    /\ At(c, "docs")
    /\ \E r \in Joined(req[c], {}) : Raises(c, "es", Answered(r, 200))
    /\ UNCHANGED <<storeVars, asked>>

----------------------------------------------------------------------------
(* Requests that only read.                                                *)

Locate(c) ==
    /\ At(c, "locate")
    /\ \/ Go(c, [req[c] EXCEPT !.at = "speed"]) /\ UNCHANGED faults
       \/ Raises(c, "valhalla", Answered(req[c], 502))
    /\ UNCHANGED <<storeVars, asked>>

ReadSpeed(c) ==
    /\ At(c, "speed")
    /\ \/ Respond(c, 200) /\ UNCHANGED faults
       \/ Raises(c, "redis", Answered(req[c], 500))
    /\ UNCHANGED <<storeVars, asked>>

\* Every server is tried; two of them make the answer.
Health(c) ==
    /\ At(c, "health")
    /\ \E down \in SUBSET {"es", "postgis", "nats", "redis"} :
        /\ faults + Cardinality(down) <= MaxFaults /\ faults' = faults + Cardinality(down)
        /\ Go(c, [Answered(req[c], IF down \intersect Stores = {} THEN 200 ELSE 503)
                    EXCEPT !.faulted = down])
    /\ UNCHANGED <<storeVars, asked>>

----------------------------------------------------------------------------
(* The inserters.                                                          *)

\* Mutant of Apply: a row that is there already stops its batch.
ApplyNew(s) ==
    /\ applied[s] < Len(published.osm)
    /\ published.osm[applied[s] + 1] \notin StoredIn(s)
    /\ applied' = [applied EXCEPT ![s] = @ + 1]
    /\ UNCHANGED <<published, shown, req, asked, faults>>

\* The next element of the stream is put into the store, or over what it has.
Apply(s) ==
    /\ applied[s] < Len(published.osm)
    /\ applied' = [applied EXCEPT ![s] = @ + 1]
    /\ UNCHANGED <<published, shown, req, asked, faults>>

Serve(c) ==
    \/ AskGoogle(c) \/ GoogleFails(c)
    \/ PublishAcked(c) \/ PublishRaises(c) \/ Published(c)
    \/ Show(c) \/ ShowRaises(c) \/ Enrich(c)
    \/ ReadRows(c) \/ RowsRaise(c) \/ ReadDocs(c) \/ DocsRaise(c)
    \/ Locate(c) \/ ReadSpeed(c) \/ Health(c)

RequestsNext ==
    \/ \E c \in Clients, kind \in Kinds : Receive(c, kind)
    \/ \E c \in Clients : Serve(c)
    \/ \E s \in Stores : Apply(s)

\* Every call returns or raises, and the inserters keep up.
RequestsFairness ==
    /\ \A c \in Clients : WF_requestVars(Serve(c))
    /\ \A s \in Stores : WF_requestVars(Apply(s))

RequestsSpec == RequestsInit /\ [][RequestsNext]_requestVars /\ RequestsFairness

----------------------------------------------------------------------------
RequestsTypeOK ==
    /\ \A s \in Stores : applied[s] \in 0 .. Len(published.osm)
    /\ \A c \in Clients :
        /\ req[c].kind \in Kinds
        /\ req[c].code \in {0, 200, 500, 502, 503}
        /\ req[c].code # 0 <=> At(c, "answered")
    /\ asked \in 0 .. MaxRequests /\ faults \in 0 .. MaxFaults

\* A direct request is told that its message is stored if it is, and what it
\* is refused was never acknowledged, so that it may send it again; a deep
\* request counts nothing that is not stored.
TellsTheTruth ==
    \A c \in Clients :
        /\ req[c].acked \subseteq Elems(published[Subject(req[c].kind)])
        /\ At(c, "answered") /\ req[c].kind \in Direct =>
              (req[c].code = 200 <=> req[c].acked = Elems(req[c].ids))

\* No request fails by a server it can do without: by Redis but for the speed
\* of an edge, by Elasticsearch but for the health, by NATS but to publish.
FailsForCause ==
    \A c \in Clients :
        At(c, "answered") /\ req[c].code # 200 =>
            (CASE req[c].kind \in Direct -> {"nats"}   [] req[c].kind \in Deep -> {"google"}
               [] req[c].kind = "reverse" -> {"postgis"} [] req[c].kind = "edge" -> {"valhalla", "redis"}
               [] req[c].kind = "health" -> Stores) \intersect req[c].faulted # {}

(* /reverse shows every polygon that both inserters had applied when it was *)
(* asked, even if Elasticsearch fails it, and the ones it has documents of  *)
(* are ordered by area; what only one of the inserters has is no obstacle.  *)
IndexedIsShown ==
    \A c \in Clients :
        At(c, "answered") /\ req[c].kind \in {"reverse", "deep_reverse"}
          /\ req[c].code = 200 /\ "postgis" \notin req[c].faulted =>
            /\ req[c].before \subseteq Elems(req[c].polygons)
            /\ \A i, j \in DOMAIN req[c].polygons :
                  i < j /\ {req[c].polygons[i], req[c].polygons[j]} \subseteq req[c].docs
                    => AreaOf[req[c].polygons[i]] <= AreaOf[req[c].polygons[j]]

(* POST /places and its like are answered as their publish went, whatever  *)
(* Redis does; autocomplete shows no place that is not in the stream; and  *)
(* requests fail by the servers they need only; and /reverse shows what is *)
(* indexed (IndexedIsShown).                                               *)
RequestsInv ==
    /\ RequestsTypeOK /\ TellsTheTruth /\ FailsForCause
    /\ shown \subseteq Elems(published.osm) /\ IndexedIsShown

(* Requests are answered; and again and again there is a moment at which   *)
(* both inserters have applied all that the stream has acknowledged to a   *)
(* request, however often it was sent.                                     *)
AcceptedIsFound ==
    /\ \A c \in Clients : []<>(req[c].at \in {"idle", "answered"})
    /\ []<>(\A c \in Clients, s \in Stores :
              At(c, "answered") /\ req[c].kind # "probe" => req[c].acked \subseteq StoredIn(s))
================================================================================

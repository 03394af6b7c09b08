------------------------------ MODULE MCServices ------------------------------
(***************************************************************************)
(* The services around the stream: how they start against a database, an   *)
(* index and a broker that come and go (ServiceStart), and how a consumer  *)
(* puts its messages into the tables (Inserter).  A behaviour is one of    *)
(* these; the other stays where it starts.                                 *)
(*                                                                         *)
(* The geocoder, the Elasticsearch inserter and the PostGIS inserter; three *)
(* messages, two of them about one element, and two tables: the first an   *)
(* index, which takes or refuses every row for itself, the second a table  *)
(* of Postgres, which takes a batch whole and has a row for the last       *)
(* message only.  A consumer of the code writes the index alone or two     *)
(* tables of Postgres; one that writes both has the steps of either.       *)
(***************************************************************************)
EXTENDS ServiceStart, Inserter, TLC

CONSTANTS x, y, w1, w2, g, e, p

MCElementOf == <<x, y, x>>
MCTables    == <<"osm_places", "osm_addresses">>
MCRowsIn    == <<{1, 2, 3}, {3}>>

MCPlan == (g :> <<"ping", "pool", "connect", "index", "serving">>)
            @@ (e :> <<"ping", "index", "connect", "stream", "attach", "serving">>)
            @@ (p :> <<"pool", "connect", "stream", "attach", "serving">>)
MCConfig     == (g :> 1) @@ (e :> 1) @@ (p :> 2)
MCPoolTries  == (g :> 2) @@ (e :> 1) @@ (p :> 1)
MCIndexTries == (g :> 1) @@ (e :> 2) @@ (p :> 1)

VARIABLE part

servicesVars == <<part, startVars, inserterVars>>

ServicesInit ==
    /\ StartInit /\ InserterInit
    /\ part \in {"start", "insert"}

ServicesNext ==
    /\ UNCHANGED part
    /\ \/ part = "start"   /\ StartNext    /\ UNCHANGED inserterVars
       \/ part = "insert"  /\ InserterNext /\ UNCHANGED startVars

(* The fairness of StartSpec and of InserterSpec, each in its part.        *)
ServicesSpec ==
    /\ ServicesInit /\ [][ServicesNext]_servicesVars
    /\ \A s \in Services : WF_startVars(part = "start" /\ Starting(s))
    /\ WF_startVars(part = "start" /\ ~ storeUp /\ Toggle /\ storeUp')
    /\ WF_startVars(part = "start" /\ ~ brokerUp /\ Toggle /\ brokerUp')
    /\ WF_inserterVars(part = "insert" /\ Fetcher)
    /\ \A w \in Workers : WF_inserterVars(part = "insert" /\ Work(w))
    /\ WF_inserterVars(part = "insert" /\ \E m \in Stream \ Held : Expire(m))

(* EveryoneServes and EveryMessageAcked, each in its part.                 *)
ServicesServe == part = "start" => EveryoneServes
StreamDrains  == part = "insert" => EveryMessageAcked

(* The services come up and the stream is worked off.                      *)
ServicesSettle == ServicesServe /\ StreamDrains
===============================================================================

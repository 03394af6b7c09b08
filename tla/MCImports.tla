------------------------------- MODULE MCImports -------------------------------
(***************************************************************************)
(* The imports: which replica imports which file when (ImportLedger), and  *)
(* the two ways a file's messages get into the stream (BatchPublish of the *)
(* flat-file watchers, WatcherPublish of the PBF watcher), and beside them *)
(* the requests of clients that publish and read what they published       *)
(* (Requests).  A behaviour is one of these; the others stay where they    *)
(* start.                                                                  *)
(*                                                                         *)
(* Two replicas over two files, a claim that lasts one tick, and two       *)
(* failures: enough for a takeover, a slow import and an abort to meet.    *)
(* Two clients, two polygons to insert, and one of them Google finds too.  *)
(***************************************************************************)
EXTENDS ImportLedger, BatchPublish, WatcherPublish, Requests, TLC

CONSTANTS a, b, f1, f2, c1, c2, district, city, cafe

MCAreaOf       == (district :> 1) @@ (city :> 2)
MCAdminLevelOf == (district :> 8) @@ (city :> 4)
MCFinds        == {<<>>, <<district, cafe>>}
MCCustom(n)    == <<"custom", n>>

VARIABLE part

importsVars == <<part, importVars, batchVars, watcherVars, requestVars>>

ImportsInit ==
    /\ ImportInit /\ BatchInit /\ WatcherInit /\ RequestsInit
    /\ part \in {"ledger", "batch", "watcher", "request"}
    /\ part # "batch" => messages = 0

ImportsNext ==
    /\ UNCHANGED part
    /\ \/ part = "ledger"  /\ ImportNext  /\ UNCHANGED <<batchVars, watcherVars, requestVars>>
       \/ part = "batch"   /\ BatchNext   /\ UNCHANGED <<importVars, watcherVars, requestVars>>
       \/ part = "watcher" /\ WatcherNext /\ UNCHANGED <<importVars, batchVars, requestVars>>
       \/ part = "request" /\ RequestsNext /\ UNCHANGED <<importVars, batchVars, watcherVars>>

ImportsSpec ==
    /\ ImportsInit /\ [][ImportsNext]_importsVars
    /\ WF_importVars(part = "ledger" /\ Tick)
    /\ \A r \in Replicas : WF_importVars(part = "ledger" /\ Pass(r))
    /\ WF_batchVars(part = "batch" /\ Progress)
    /\ WF_watcherVars(part = "watcher" /\ Parser) /\ WF_watcherVars(part = "watcher" /\ Publisher)
    /\ \A c \in Clients : WF_requestVars(part = "request" /\ Serve(c))
    /\ \A s \in Stores : WF_requestVars(part = "request" /\ Apply(s))

(* A flat file's import ends, whatever NATS does (ImportEnds), and a PBF   *)
(* import ends with the file recorded (FileRecorded); requests are         *)
(* answered, and what they publish is found (AcceptedIsFound); each in its *)
(* part.                                                                   *)
FlatFileEnds == part = "batch" => ImportEnds
PbfRecorded  == part = "watcher" => FileRecorded
RequestsSettle == part = "request" => AcceptedIsFound

(* Whatever enters the stream comes to its end: a flat file's import, a    *)
(* PBF file's record, a request's answer.                                  *)
EverythingEnds == FlatFileEnds /\ PbfRecorded /\ RequestsSettle
===============================================================================

------------------------------ MODULE ServiceStart ------------------------------
(***************************************************************************)
(* Services that start, restart and reconnect side by side: the lifespan   *)
(* of services/geocoder.py, run and ensure_index of es_inserter.py,        *)
(* ensure_table of postgis_inserter.py and shared/nats_client.py.  Each    *)
(* connects, and creates the index, the stream and its consumer if need    *)
(* be; none of these is created under a lock.                              *)
(*                                                                         *)
(* Abstracted: a store (Elasticsearch, PostGIS) is up or not; the broker   *)
(* is up, or answers everything with a transient error while it elects a   *)
(* leader.  A configuration is its version.  Waiting between two attempts  *)
(* takes no time.  The container of a process that exits starts it again.  *)
(***************************************************************************)
EXTENDS Integers, Sequences

CONSTANTS
    Services,
    Plan,          \* per service, its phases in order; the last is "serving"
    ConfigOf,      \* per service, the version of the stream it was built with
    IndexTries,    \* per service: 1 in the geocoder, 5 in the es-inserter
    PoolTries,     \* per service: 10 in the geocoder, 1 in the postgis-inserter
    ConnectTries,  \* 10 in the code
    StreamTries,   \* 5: ensure_stream and subscribe_to
    NoStream,
    MaxOutages,    \* bound: the store or the broker going away
    MaxDeletes     \* bound: an operator deleting a consumer

Phases == {"ping", "pool", "index", "connect", "stream", "attach", "serving"}

\* A consumer is attached to a stream once it is there, and then read.
ASSUME ServiceStartAssumption ==
    /\ Plan \in [Services -> Seq(Phases)]
    /\ \A s \in Services : Len(Plan[s]) >= 1
    /\ \A s \in Services : \A i \in 1 .. Len(Plan[s]) :
        /\ Plan[s][i] = "serving" <=> i = Len(Plan[s])
        /\ Plan[s][i] = "attach" => /\ i = Len(Plan[s]) - 1
                                  /\ \E j \in 1 .. i - 1 : Plan[s][j] = "stream"
    /\ \A s \in Services : ConfigOf[s] # NoStream /\ {IndexTries[s], PoolTries[s]} \subseteq Nat \ {0}
    /\ {ConnectTries, StreamTries} \subseteq Nat \ {0, 1}
    /\ {MaxOutages, MaxDeletes} \subseteq Nat

VARIABLES
    storeUp, brokerUp,
    index,      \* the Elasticsearch index exists
    stream,     \* configuration of the stream, NoStream before it exists
    consumers,  \* services whose durable consumer exists
    step,       \* per service, its place in Plan; 0 when it has exited
    doing,      \* per service, the call of the phase it makes next
    tries,      \* per service, failed attempts of the phase
    spoilt,     \* history: services whose present start saw an outage
    cut,        \* history: services whose consumer was deleted while they served
    outages, deletes

startVars == <<storeUp, brokerUp, index, stream, consumers, step, doing, tries, spoilt,
               cut, outages, deletes>>
shared   == <<storeUp, brokerUp, spoilt, cut, outages, deletes>>
created  == <<index, stream, consumers>>

FirstCall == [ping |-> "ping", pool |-> "open", index |-> "exists", connect |-> "dial",
              stream |-> "find", attach |-> "subscribe", serving |-> "none"]

StartInit ==
    /\ storeUp = TRUE /\ brokerUp = TRUE
    /\ index = FALSE /\ stream = NoStream /\ consumers = {}
    /\ step = [s \in Services |-> 1]
    /\ doing = [s \in Services |-> FirstCall[Plan[s][1]]]
    /\ tries = [s \in Services |-> 0]
    /\ spoilt = {} /\ cut = {} /\ outages = 0 /\ deletes = 0

Phase(s)   == IF step[s] = 0 THEN "exited" ELSE Plan[s][step[s]]
Serving(s) == Phase(s) = "serving"

----------------------------------------------------------------------------
(* What a call leads to.                                                   *)

Then(s, call) == doing' = [doing EXCEPT ![s] = call] /\ UNCHANGED <<step, tries>>

Done(s) ==
    /\ step' = [step EXCEPT ![s] = @ + 1]
    /\ doing' = [doing EXCEPT ![s] = FirstCall[Plan[s][step[s] + 1]]]
    /\ tries' = [tries EXCEPT ![s] = 0]

Exit(s) ==
    /\ step' = [step EXCEPT ![s] = 0]
    /\ doing' = [doing EXCEPT ![s] = "none"]
    /\ tries' = [tries EXCEPT ![s] = 0]

\* From the first call again, or as `last` says when no attempt is left.
Again(s, most, last) ==
    IF tries[s] + 1 < most
      THEN /\ tries' = [tries EXCEPT ![s] = @ + 1]
           /\ doing' = [doing EXCEPT ![s] = FirstCall[Phase(s)]]
           /\ UNCHANGED step
      ELSE last

----------------------------------------------------------------------------
(* Connections, and the index.                                             *)

\* es.ping() answers False if nobody is there, and nobody looks at the answer.
Ping(s) ==
    /\ doing[s] = "ping"
    /\ Done(s)
    /\ UNCHANGED <<shared, created>>

\* create_pool raises, as the creation of the tables after it does.
OpenPool(s) ==
    /\ doing[s] = "open"
    /\ IF storeUp THEN Done(s) ELSE Again(s, PoolTries[s], Exit(s))
    /\ UNCHANGED <<shared, created>>

Dial(s) ==
    /\ doing[s] = "dial"
    /\ IF brokerUp THEN Done(s) ELSE Again(s, ConnectTries, Exit(s))
    /\ UNCHANGED <<shared, created>>

\* An index that exists gets the mapping's additions, which may fail too.
IndexExists(s) ==
    /\ doing[s] = "exists"
    /\ IF storeUp
         THEN IF index THEN Done(s) ELSE Then(s, "create")
         ELSE Again(s, IndexTries[s], Then(s, "fallback"))
    /\ UNCHANGED <<shared, created>>

CreateIndex(s) ==
    /\ doing[s] = "create"
    /\ index' = (index \/ storeUp)
    /\ IF storeUp /\ ~ index THEN Done(s) ELSE Again(s, IndexTries[s], Then(s, "fallback"))
    /\ UNCHANGED <<shared, stream, consumers>>

\* Mutant of Fallback: any error of the last attempt is raised.
FallbackStrict(s) ==
    /\ doing[s] = "fallback"
    /\ index' = (index \/ storeUp)
    /\ IF storeUp /\ ~ index THEN Done(s) ELSE Exit(s)
    /\ UNCHANGED <<shared, stream, consumers>>

\* The last attempt creates it whatever went wrong; that somebody else has
\* is fine.
Fallback(s) ==
    /\ doing[s] = "fallback"
    /\ index' = (index \/ storeUp)
    /\ IF storeUp THEN Done(s) ELSE Exit(s)
    /\ UNCHANGED <<shared, stream, consumers>>

----------------------------------------------------------------------------
(* ensure_stream.                                                          *)

\* Any error of the lookup is taken for "no such stream" when no attempt is
\* left.
FindStream(s) ==
    /\ doing[s] = "find"
    /\ IF ~ brokerUp THEN Again(s, StreamTries, Then(s, "add"))
       ELSE Then(s, IF stream = NoStream THEN "add" ELSE "update")
    /\ UNCHANGED <<shared, created>>

\* A failed update is only logged.
UpdateStream(s) ==
    /\ doing[s] = "update"
    /\ stream' = IF brokerUp THEN ConfigOf[s] ELSE stream
    /\ Done(s)
    /\ UNCHANGED <<shared, index, consumers>>

\* The broker refuses a name that is in use with another configuration.
AddStream(s) ==
    /\ doing[s] = "add"
    /\ stream' = IF brokerUp /\ stream = NoStream THEN ConfigOf[s] ELSE stream
    /\ IF brokerUp /\ stream \in {NoStream, ConfigOf[s]} THEN Done(s)
       ELSE Again(s, StreamTries, Exit(s))
    /\ UNCHANGED <<shared, index, consumers>>

----------------------------------------------------------------------------
(* subscribe_to.                                                           *)

\* With the desired configuration, or else as the consumer is.
Subscribe(s) ==
    /\ doing[s] = "subscribe"
    /\ IF brokerUp /\ stream # NoStream
         THEN consumers' = consumers \cup {s} /\ Then(s, "verify")
         ELSE UNCHANGED consumers /\ Again(s, StreamTries, Exit(s))
    /\ UNCHANGED <<shared, index, stream>>

\* Mutant of Verify: the subscription is taken for the consumer.
VerifyNot(s) ==
    /\ doing[s] = "verify" /\ Done(s)
    /\ UNCHANGED <<shared, created>>

Verify(s) ==
    /\ doing[s] = "verify"
    /\ IF brokerUp /\ s \in consumers THEN Done(s) ELSE Again(s, StreamTries, Exit(s))
    /\ UNCHANGED <<shared, created>>

----------------------------------------------------------------------------
\* Mutant of Resubscribe: a fetch that fails is only tried again.
ResubscribeNever(s) == FALSE

(* The fetcher of a service that serves subscribes again when fetching     *)
(* fails; of a failure to do so it only takes note.                        *)
Resubscribe(s) ==
    /\ Serving(s) /\ s \notin consumers /\ brokerUp
    /\ \E i \in DOMAIN Plan[s] : Plan[s][i] = "attach"
    /\ consumers' = consumers \cup {s}
    /\ UNCHANGED <<shared, index, stream, step, doing, tries>>

Restart(s) ==
    /\ step[s] = 0
    /\ step' = [step EXCEPT ![s] = 1]
    /\ doing' = [doing EXCEPT ![s] = FirstCall[Plan[s][1]]]
    /\ spoilt' = IF storeUp /\ brokerUp THEN spoilt \ {s} ELSE spoilt \cup {s}
    /\ UNCHANGED <<storeUp, brokerUp, created, tries, cut, outages, deletes>>

Toggle ==
    /\ \/ /\ storeUp' = ~ storeUp /\ UNCHANGED brokerUp
          /\ outages' = IF storeUp THEN outages + 1 ELSE outages
       \/ /\ brokerUp' = ~ brokerUp /\ UNCHANGED storeUp
          /\ outages' = IF brokerUp THEN outages + 1 ELSE outages
    /\ outages' <= MaxOutages
    /\ spoilt' = spoilt \cup {s \in Services : ~ Serving(s)}
    /\ UNCHANGED <<created, step, doing, tries, cut, deletes>>

\* "Delete the consumer to force recreation with new settings."
DeleteConsumer(s) ==
    /\ s \in consumers /\ brokerUp /\ deletes < MaxDeletes
    /\ consumers' = consumers \ {s}
    /\ deletes' = deletes + 1
    /\ IF Serving(s) THEN cut' = cut \cup {s} /\ UNCHANGED spoilt
                     ELSE spoilt' = spoilt \cup {s} /\ UNCHANGED cut
    /\ UNCHANGED <<storeUp, brokerUp, index, stream, step, doing, tries, outages>>

Starting(s) ==
    \/ Ping(s) \/ OpenPool(s) \/ Dial(s)
    \/ IndexExists(s) \/ CreateIndex(s) \/ Fallback(s)
    \/ FindStream(s) \/ UpdateStream(s) \/ AddStream(s)
    \/ Subscribe(s) \/ Verify(s) \/ Resubscribe(s) \/ Restart(s)

StartNext ==
    \/ \E s \in Services : Starting(s) \/ DeleteConsumer(s)
    \/ Toggle

(* Processes run, and the store and the broker come back.                  *)
StartSpec ==
    /\ StartInit /\ [][StartNext]_startVars
    /\ \A s \in Services : WF_startVars(Starting(s))
    /\ WF_startVars(~ storeUp /\ Toggle /\ storeUp')
    /\ WF_startVars(~ brokerUp /\ Toggle /\ brokerUp')

----------------------------------------------------------------------------
(* A service that serves has found or made everything it uses: the index   *)
(* it writes to or searches, the stream, and its consumer, unless that was *)
(* deleted from under it (nats_client.py: "verify with consumer_info that  *)
(* the server-side consumer really exists").                               *)
ServingIsSetUp ==
    \A s \in Services : Serving(s) =>
        \A i \in DOMAIN Plan[s] :
            /\ Plan[s][i] = "index"  => index
            /\ Plan[s][i] = "stream" => stream # NoStream
            /\ Plan[s][i] = "attach" => s \in consumers \cup cut

(* "multiple services can call it concurrently on startup": however the    *)
(* creations race, and whatever versions are deployed, no start fails      *)
(* unless the store, the broker or the consumer went away during it.       *)
RacesAreHarmless == \A s \in Services : Phase(s) = "exited" => s \in spoilt

(* Services race to set up what they share, and serve when it is.          *)
StartInv == ServingIsSetUp /\ RacesAreHarmless

(* Every service serves in the end, with its consumer.                     *)
EveryoneServes ==
    <>[](\A s \in Services : Serving(s) /\
            ((\E i \in DOMAIN Plan[s] : Plan[s][i] = "attach") => s \in consumers))
===============================================================================

------------------------------ MODULE Inserter ------------------------------
(***************************************************************************)
(* The consumers of the OSM stream: es_inserter.py and postgis_inserter.py *)
(* have one shape.  A fetcher pulls batches from a durable consumer and    *)
(* puts them on a bounded queue; workers take a batch, upsert its rows     *)
(* table by table (one index of Elasticsearch, two tables of Postgres),    *)
(* and then acknowledge its messages one by one.  What is not acknowledged *)
(* within ack_wait is delivered again, any number of times.                *)
(*                                                                         *)
(* Abstracted: a message is its place in the stream and the element it is  *)
(* about; a row is the message it was made from (documents of other        *)
(* providers, merged by a script, are left out).  ack_wait has no clock:   *)
(* it may run out while a message still is in the process, MaxLate times.  *)
(***************************************************************************)
EXTENDS Integers, Sequences

CONSTANTS
    Messages,     \* messages in the stream: 1 .. Messages
    ElementOf,    \* the element a message is about
    Tables,       \* the tables a worker writes, in order
    RowsIn,       \* per table, the messages that yield a row for it
    Bulks,        \* tables that take the rows of a batch one by one: indexes
    Workers,      \* MAX_CONCURRENT_BATCHES workers
    NoRow,
    BatchSize,    \* BATCH_SIZE
    QueueSize,    \* maxsize of work_queue
    MaxAttempts,  \* max_bulk_retries, and the 5 of _executemany_with_retry
    MaxFailures,  \* bound: failed writes, lost acks, process deaths
    MaxLate       \* bound: ack_wait running out on messages in the process

Stream   == 1 .. Messages
Elements == {ElementOf[m] : m \in Stream}
TableNos == 1 .. Len(Tables)

ASSUME InserterAssumption ==
    /\ Messages \in Nat /\ DOMAIN ElementOf = Stream
    /\ Len(Tables) \in Nat /\ RowsIn \in [TableNos -> SUBSET Stream] /\ NoRow \notin Stream
    /\ Bulks \subseteq TableNos
    /\ BatchSize \in Nat \ {0} /\ QueueSize \in Nat \ {0} /\ MaxAttempts \in Nat \ {0}
    /\ MaxFailures \in Nat /\ MaxLate \in Nat

VARIABLES
    delivered,  \* messages 1 .. delivered were delivered at least once
    unacked,    \* delivered, ack_wait running
    due,        \* to be delivered again
    fetched,    \* the batch the fetcher holds
    queue,      \* work_queue
    job,        \* per worker: batch, table being written, attempt, acks to send
    rows,       \* per table and element, the message its row was made from
    written,    \* history: messages whose row was written, per table
    rejected,   \* history: messages whose row was refused when last offered, per table
    raced,      \* history: elements whose rows got out of order (Races, Behind)
    failures,
    late

inserterVars == <<delivered, unacked, due, fetched, queue, job, rows, written, rejected,
                  raced, failures, late>>
consumerVars == <<delivered, unacked, due>>
sinkVars     == <<rows, written, rejected>>

Free == [msgs |-> <<>>, table |-> 1, attempt |-> 0, acks |-> <<>>]

InserterInit ==
    /\ delivered = 0 /\ unacked = {} /\ due = {}
    /\ fetched = <<>> /\ queue = <<>>
    /\ job = [w \in Workers |-> Free]
    /\ rows = [t \in TableNos |-> [e \in Elements |-> NoRow]]
    /\ written = [t \in TableNos |-> {}]
    /\ rejected = [t \in TableNos |-> {}]
    /\ raced = {} /\ failures = 0 /\ late = 0

Of(batch) == {batch[i] : i \in 1 .. Len(batch)}

\* Messages in the process: fetched, queued, or with a worker.
Held == Of(fetched) \cup (UNION {Of(queue[i]) : i \in 1 .. Len(queue)})
                    \cup (UNION {Of(job[w].msgs) : w \in Workers})

Acked == (1 .. delivered) \ (unacked \cup due)

----------------------------------------------------------------------------
(* The consumer and the fetcher.                                           *)

\* Mutant of Redeliverable: the consumer was attached with max_deliver = 1.
RedeliverableNone == {}

Redeliverable == due

\* Batches of up to BatchSize: some messages that are due, then new ones.
Batches ==
    {b \in UNION {[1 .. n -> Redeliverable \cup (delivered + 1 .. Messages)] : n \in 1 .. BatchSize} :
        \A i \in 1 .. Len(b) :
            /\ i > 1 => b[i - 1] < b[i]
            /\ b[i] > delivered + 1 => i > 1 /\ b[i - 1] = b[i] - 1}

\* The order of two rows of an element is not the order of their messages:
\* one is fetched while another batch with the element is in the process, or
\* it is delivered again after a newer one.
Races(b) ==
    {ElementOf[m] : m \in {l \in Of(b) : \E n \in 1 .. delivered :
        /\ ElementOf[n] = ElementOf[l] /\ n # l
        /\ n \in Held \/ (n > l /\ n \notin Of(b))}}

Fetch(b) ==
    /\ fetched = <<>>
    /\ delivered' = IF b[Len(b)] > delivered THEN b[Len(b)] ELSE delivered
    /\ unacked' = unacked \cup Of(b)
    /\ due' = due \ Of(b)
    /\ fetched' = b
    /\ raced' = raced \cup Races(b)
    /\ UNCHANGED <<queue, job, sinkVars, failures, late>>

\* work_queue.put, which waits while the queue is full.
Enqueue ==
    /\ fetched # <<>> /\ Len(queue) < QueueSize
    /\ queue' = Append(queue, fetched)
    /\ fetched' = <<>>
    /\ UNCHANGED <<consumerVars, job, sinkVars, raced, failures, late>>

\* ack_wait runs out.
Expire(m) ==
    /\ m \in unacked
    /\ m \in Held => late < MaxLate
    /\ unacked' = unacked \ {m}
    /\ due' = due \cup {m}
    /\ late' = IF m \in Held THEN late + 1 ELSE late
    /\ UNCHANGED <<delivered, fetched, queue, job, sinkVars, raced, failures>>

----------------------------------------------------------------------------
(* The workers.                                                            *)

Get(w) ==
    /\ job[w] = Free /\ queue # <<>>
    /\ queue' = Tail(queue)
    /\ job' = [job EXCEPT ![w] = [Free EXCEPT !.msgs = Head(queue), !.acks = Head(queue)]]
    /\ UNCHANGED <<consumerVars, fetched, sinkVars, raced, failures, late>>

Writing(w) == job[w].msgs # <<>> /\ job[w].table <= Len(Tables)

\* The rows of a batch for a table.
Offered(w) == Of(job[w].msgs) \cap RowsIn[job[w].table]

\* Of the rows in R, the one that lasts of each element: "keep last" by dict,
\* or the order of the actions of one bulk.
Winners(batch, R) ==
    {m \in R : \E i \in 1 .. Len(batch) :
        /\ batch[i] = m
        /\ \A j \in i + 1 .. Len(batch) : batch[j] \in R => ElementOf[batch[j]] # ElementOf[m]}

\* Mutant of Upserted: ON CONFLICT DO NOTHING.
UpsertedOnce(old, new) == IF old = NoRow THEN new ELSE old

Upserted(old, new) == new

Upsert(t, ms) ==
    /\ rows' = [rows EXCEPT ![t] = [e \in Elements |->
                  IF \E m \in ms : ElementOf[m] = e
                    THEN Upserted(@[e], CHOOSE m \in ms : ElementOf[m] = e) ELSE @[e]]]
    /\ written' = [written EXCEPT ![t] = @ \cup ms]

\* The rows in R are left out of this attempt.
WriteBut(w, R) == Upsert(job[w].table, Winners(job[w].msgs, Offered(w) \ R))

\* Elements with a row that an attempt leaves out, though it was written before.
Behind(t, R) == {ElementOf[m] : m \in R \cap written[t]}

NextTable(w) == job' = [job EXCEPT ![w].table = @ + 1, ![w].attempt = 0]

Write(w) ==
    /\ Writing(w)
    /\ WriteBut(w, {})
    /\ rejected' = [rejected EXCEPT ![job[w].table] = @ \ Offered(w)]
    /\ NextTable(w)
    /\ UNCHANGED <<consumerVars, fetched, queue, raced, failures, late>>

\* A bulk that refuses some of its rows (a version conflict, a full queue of
\* the index) is taken for done: their errors are logged.
WriteRejecting(w) ==
    /\ Writing(w) /\ job[w].table \in Bulks /\ failures < MaxFailures
    /\ failures' = failures + 1
    /\ \E R \in SUBSET Offered(w) \ {{}} :
         /\ WriteBut(w, R)
         /\ rejected' = [rejected EXCEPT ![job[w].table] = (@ \ Offered(w)) \cup R]
         /\ raced' = raced \cup Behind(job[w].table, R)
    /\ NextTable(w)
    /\ UNCHANGED <<consumerVars, fetched, queue, late>>

\* The process ends with everything it holds and is started again.
Die ==
    /\ fetched' = <<>> /\ queue' = <<>>
    /\ job' = [w \in Workers |-> Free]

\* Mutant of GiveUp: the batch is acknowledged like any other.
GiveUpQuietly(w) == NextTable(w) /\ UNCHANGED <<fetched, queue>>

\* After the last attempt the error is raised, which ends the process.
GiveUp(w) == Die

\* Rows a failed write may leave out: any of a bulk, in Postgres all or none.
LeftOut(w) == IF job[w].table \in Bulks THEN SUBSET Offered(w) ELSE {{}, Offered(w)}

\* A write fails, with some of its rows in place.
WriteFails(w) ==
    /\ Writing(w) /\ failures < MaxFailures
    /\ failures' = failures + 1
    /\ \E R \in LeftOut(w) : WriteBut(w, R) /\ raced' = raced \cup Behind(job[w].table, R)
    /\ IF job[w].attempt + 1 < MaxAttempts
         THEN job' = [job EXCEPT ![w].attempt = @ + 1] /\ UNCHANGED <<fetched, queue>>
         ELSE GiveUp(w)
    /\ UNCHANGED <<consumerVars, rejected, late>>

\* "Ack messages only after successful indexing", one after the other.
Acking(w) == job[w].table > Len(Tables) /\ job[w].acks # <<>>

Ack(w) ==
    LET m == Head(job[w].acks) IN
    /\ Acking(w)
    /\ unacked' = unacked \ {m} /\ due' = due \ {m}
    /\ job' = [job EXCEPT ![w].acks = Tail(@)]
    /\ UNCHANGED <<delivered, fetched, queue, sinkVars, raced, failures, late>>

AckLost(w) ==
    /\ Acking(w) /\ failures < MaxFailures
    /\ failures' = failures + 1
    /\ job' = [job EXCEPT ![w].acks = Tail(@)]
    /\ UNCHANGED <<consumerVars, fetched, queue, sinkVars, raced, late>>

TaskDone(w) ==
    /\ job[w].table > Len(Tables) /\ job[w].acks = <<>>
    /\ job' = [job EXCEPT ![w] = Free]
    /\ UNCHANGED <<consumerVars, fetched, queue, sinkVars, raced, failures, late>>

\* Any error a worker or the fetcher does not handle, or a kill.
Crash ==
    /\ Held # {} /\ failures < MaxFailures
    /\ failures' = failures + 1
    /\ Die
    /\ UNCHANGED <<consumerVars, sinkVars, raced, late>>

Work(w)  == Get(w) \/ Write(w) \/ Ack(w) \/ TaskDone(w)
Fetcher  == (\E b \in Batches : Fetch(b)) \/ Enqueue

InserterNext ==
    \/ Fetcher
    \/ \E m \in Stream : Expire(m)
    \/ \E w \in Workers : Work(w) \/ WriteRejecting(w) \/ WriteFails(w) \/ AckLost(w)
    \/ Crash

(* The tasks of the event loop run on, and ack_wait runs out for one after *)
(* the other of the messages the process does not hold any more.           *)
InserterSpec ==
    /\ InserterInit /\ [][InserterNext]_inserterVars
    /\ WF_inserterVars(Fetcher)
    /\ \A w \in Workers : WF_inserterVars(Work(w))
    /\ WF_inserterVars(\E m \in Stream \ Held : Expire(m))

----------------------------------------------------------------------------
InserterTypeOK ==
    /\ delivered \in 0 .. Messages
    /\ unacked \subseteq 1 .. delivered /\ due \subseteq 1 .. delivered
    /\ unacked \cap due = {}
    /\ Len(queue) <= QueueSize
    /\ \A w \in Workers :
         /\ job[w].table \in 1 .. Len(Tables) + 1
         /\ job[w].attempt \in 0 .. MaxAttempts - 1
    /\ rows \in [TableNos -> [Elements -> Stream \cup {NoRow}]]
    /\ rejected \in [TableNos -> SUBSET Stream]

(* "Ack messages only after successful indexing": when a message is        *)
(* acknowledged, each table has taken its row or, from the same batch or   *)
(* another, a newer row of the element, or a bulk has refused it; a table  *)
(* that takes a batch whole refuses nothing.                               *)
AckedIsWritten ==
    \A m \in Acked, t \in TableNos :
        m \in RowsIn[t] =>
            \/ \E n \in written[t] : n >= m /\ ElementOf[n] = ElementOf[m]
            \/ t \in Bulks /\ m \in rejected[t]

InserterInv == InserterTypeOK /\ AckedIsWritten

(* A row is older than one written before only if messages of the element  *)
(* were in two batches at once, or one was redelivered after a newer one,  *)
(* or a later attempt of a bulk left out a row that an earlier one had     *)
(* put in place.  Otherwise the newest row lasts, in every table.          *)
StaleOnlyByRace ==
    \A t \in TableNos, e \in Elements \ raced :
        \A n \in written[t] : ElementOf[n] = e => rows[t][e] >= n

(* Every message is acknowledged in the end.                               *)
EveryMessageAcked == <>(Acked = Stream)
=============================================================================

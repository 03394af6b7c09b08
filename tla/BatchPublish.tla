----------------------------- MODULE BatchPublish -----------------------------
(***************************************************************************)
(* One import of the oa, gn and places watchers: `publish_csv` (and its    *)
(* siblings publish_tsv, publish_file), which reads records into batches,  *)
(* and `_publish_batch`, which publishes a batch to NATS message by        *)
(* message with retries, a count of failures in a row, and two ways out.   *)
(*                                                                         *)
(* Abstracted: a message is its place in the file, rows that yield none    *)
(* left out; the stream is the sequence of what NATS stored, a message     *)
(* whose acknowledgement got lost included.                                *)
(***************************************************************************)
EXTENDS Integers, Sequences

CONSTANTS
    MaxMessages,             \* bound: messages in the longest file
    BatchSize,               \* BATCH_PUBLISH
    MaxRetries,              \* MAX_RETRIES, per message
    MaxConsecutiveFailures   \* MAX_CONSECUTIVE_FAILURES, per file

ASSUME BatchPublishAssumption ==
    /\ MaxMessages \in Nat
    /\ BatchSize \in Nat \ {0}
    /\ MaxRetries \in Nat \ {0}
    /\ MaxConsecutiveFailures \in Nat \ {0}

VARIABLES
    messages,   \* messages in the file: 1 .. messages
    phase,      \* reading, publishing, completed (count >= 0), aborted (-1) or raised
    read,       \* messages read so far
    batch,      \* the batch
    at,         \* place in the batch of the message being published
    attempt,    \* failed attempts at it
    consecutive,\* consecutive_failures
    attempted,  \* messages _publish_batch got to
    stream      \* what NATS stored, in order

batchVars ==
    <<messages, phase, read, batch, at, attempt, consecutive, attempted, stream>>

Ended == {"completed", "aborted", "raised"}

BatchInit ==
    /\ messages \in 0 .. MaxMessages
    /\ phase = "reading"
    /\ read = 0
    /\ batch = <<>>
    /\ at = 1
    /\ attempt = 0
    /\ consecutive = 0
    /\ attempted = {}
    /\ stream = <<>>

\* Mutant of ReadRecord: the batch is filled from the front.
ReadRecordFirst ==
    /\ phase = "reading" /\ read < messages /\ Len(batch) < BatchSize
    /\ read' = read + 1
    /\ batch' = <<read + 1>> \o batch
    /\ UNCHANGED <<messages, phase, at, attempt, consecutive, attempted, stream>>

\* The next record that parses is added to the batch.
ReadRecord ==
    /\ phase = "reading" /\ read < messages /\ Len(batch) < BatchSize
    /\ read' = read + 1
    /\ batch' = Append(batch, read + 1)
    /\ UNCHANGED <<messages, phase, at, attempt, consecutive, attempted, stream>>

\* A full batch, or the remainder of the file, is published.
StartBatch ==
    /\ phase = "reading" /\ batch # <<>>
    /\ Len(batch) = BatchSize \/ read = messages
    /\ phase' = "publishing"
    /\ at' = 1
    /\ attempt' = 0
    /\ UNCHANGED <<messages, read, batch, consecutive, attempted, stream>>

\* A read or parse error propagates out of the import.
ReadRaises ==
    /\ phase = "reading" /\ read < messages
    /\ phase' = "raised"
    /\ UNCHANGED <<messages, read, batch, at, attempt, consecutive, attempted, stream>>

Current == batch[at]

\* Mutant of Stopped: nobody looks at the count of failures.
StoppedNever == FALSE

\* The limit is looked at after each message, never between its attempts.
Stopped == attempt = 0 /\ consecutive >= MaxConsecutiveFailures

InLoop == phase = "publishing" /\ at <= Len(batch) /\ ~Stopped

\* js.publish returns: the count of failures in a row starts over.
Accept ==
    /\ InLoop
    /\ stream' = Append(stream, Current)
    /\ attempted' = attempted \cup {Current}
    /\ at' = at + 1
    /\ attempt' = 0
    /\ consecutive' = 0
    /\ UNCHANGED <<messages, phase, read, batch>>

\* "payload", "large" or "exceeded" in the error, be it about the message or
\* about a limit of the server: the message is skipped.
SkipPermanent ==
    /\ InLoop
    /\ attempted' = attempted \cup {Current}
    /\ at' = at + 1
    /\ attempt' = 0
    /\ UNCHANGED <<messages, phase, read, batch, consecutive, stream>>

\* Another attempt at the message or, after MAX_RETRIES, the next message.
NextAttempt ==
    /\ IF attempt + 1 < MaxRetries
         THEN attempt' = attempt + 1 /\ at' = at
         ELSE attempt' = 0 /\ at' = at + 1
    /\ consecutive' = consecutive + 1

\* Any other error; the message may be stored and only its ack lost.
Fail ==
    /\ InLoop
    /\ stream' \in {stream, Append(stream, Current)}
    /\ attempted' = attempted \cup {Current}
    /\ NextAttempt
    /\ UNCHANGED <<messages, phase, read, batch>>

\* Mutant of FullBatchDone: a batch that was cut short is like any other.
FullBatchDoneAnyway ==
    /\ Len(batch) = BatchSize
    /\ phase' = "reading"
    /\ batch' = <<>>

\* Mutant of FullBatchDone: the import does not abort at the limit.
FullBatchDoneWaits ==
    /\ Len(batch) = BatchSize /\ ~Stopped
    /\ phase' = "reading"
    /\ batch' = <<>>

\* After a full batch the import aborts at the limit, or reads on.
FullBatchDone ==
    /\ Len(batch) = BatchSize
    /\ phase' = IF Stopped THEN "aborted" ELSE "reading"
    /\ batch' = <<>>

\* After the remainder of the file nobody looks at the limit.
RemainderDone ==
    /\ Len(batch) < BatchSize
    /\ phase' = "completed"
    /\ batch' = <<>>

BatchDone ==
    /\ phase = "publishing" /\ (at > Len(batch) \/ Stopped)
    /\ FullBatchDone \/ RemainderDone
    /\ UNCHANGED <<messages, read, at, attempt, consecutive, attempted, stream>>

\* Nothing is left over after the last full batch.
EndOfFile ==
    /\ phase = "reading" /\ read = messages /\ batch = <<>>
    /\ phase' = "completed"
    /\ UNCHANGED <<messages, read, batch, at, attempt, consecutive, attempted, stream>>

Progress ==
    \/ ReadRecord \/ StartBatch \/ Accept \/ SkipPermanent \/ Fail
    \/ BatchDone \/ EndOfFile

BatchNext == Progress \/ ReadRaises

BatchSpec == BatchInit /\ [][BatchNext]_batchVars

(* The import is one coroutine that runs on: each publish returns or times *)
(* out after 30 s.  That NATS ever accepts a message is not assumed.       *)
FairBatchSpec == BatchSpec /\ WF_batchVars(Progress)

----------------------------------------------------------------------------
BatchTypeOK ==
    /\ messages \in 0 .. MaxMessages
    /\ phase \in {"reading", "publishing"} \cup Ended
    /\ read \in 0 .. messages
    /\ batch \in Seq(1 .. read) /\ Len(batch) <= BatchSize
    /\ at \in 1 .. BatchSize + 1
    /\ attempt \in 0 .. MaxRetries - 1
    /\ consecutive \in Nat
    /\ attempted \subseteq 1 .. read
    /\ stream \in Seq(1 .. read)

(* However long NATS is down, an import gives up: it makes fewer failed    *)
(* attempts in a row than the limit and one message's retries together.    *)
OutageBounded == consecutive < MaxConsecutiveFailures + MaxRetries

(* The stream holds the records in file order, repeats only in place: a    *)
(* retry never stores an old record after a newer one, which matters to    *)
(* the consumers, where the last version of a record wins.                 *)
StreamInFileOrder == \A i, j \in 1 .. Len(stream) : i < j => stream[i] <= stream[j]

FullBatches == (messages \div BatchSize) * BatchSize

(* A file is taken as imported only if every message of every full batch   *)
(* was tried: an outage can hide no more than the remainder of the file.   *)
OnlyRemainderUntried == phase = "completed" => 1 .. FullBatches \subseteq attempted

(* Order is kept, an outage is bounded, and little of a file goes untried. *)
BatchInv == BatchTypeOK /\ OutageBounded /\ StreamInFileOrder /\ OnlyRemainderUntried

(* The import ends, whatever NATS does.                                    *)
ImportEnds == <>(phase \in Ended)
===============================================================================

--------------------------- MODULE WatcherPublish ---------------------------
(***************************************************************************)
(* The import of a PBF file by services/watcher.py: the parser thread of   *)
(* `publish_file` puts elements on a bounded queue and a sentinel after    *)
(* them; the publisher drains the queue into batches and publishes them to *)
(* NATS, with retries and a count of failures in a row; and                *)
(* `_scan_and_process` records the file or tries it again later.           *)
(*                                                                         *)
(* Abstracted: an element is its place in the file; the Redis caches and   *)
(* the geometries; waiting between attempts.  Failures in a row count up   *)
(* to the limit, past which nothing looks at the number.                   *)
(***************************************************************************)
EXTENDS Integers, Sequences, FiniteSets

CONSTANTS
    Elements,      \* elements in the file: 1 .. Elements
    SENTINEL,
    QueueMaxsize,  \* QUEUE_MAXSIZE
    PublishSize,   \* BATCH_PUBLISH
    MaxTries,      \* max_retries, per message
    MaxStreak,     \* max_consecutive_failures
    MaxBreaks      \* bound: parse errors, failed set-ups, process deaths

ASSUME WatcherAssumption ==
    /\ Elements \in Nat /\ SENTINEL \notin 1 .. Elements
    /\ QueueMaxsize \in Nat \ {0} /\ PublishSize \in Nat \ {0}
    /\ MaxStreak \in Nat \ {0} /\ MaxTries \in Nat /\ MaxStreak <= MaxTries
    /\ MaxBreaks \in Nat

VARIABLES
    parser,       \* the parser thread: "off", "parsing", "ended" (its sentinel is put)
    parsed,       \* elements it has put
    parseError,   \* parse_error is not empty
    q,            \* the bounded queue
    publisher,    \* the publisher: "off", "take", "drain", "publish", "join"
    chunk,        \* what is left of the batch
    tries,        \* failed attempts at its first message
    streak,       \* consecutive_failures
    sent,         \* what NATS stored in this run, in order
    skipped,      \* elements of this run dropped as too large
    lost,         \* elements of this run dropped for want of an ack
    silent,       \* history: failed attempts since NATS last acknowledged one
    recorded,     \* the file is in the ledger of processed files
    breaks

watcherVars == <<parser, parsed, parseError, q, publisher, chunk, tries, streak,
                 sent, skipped, lost, silent, recorded, breaks>>
parserVars  == <<parser, parsed, parseError>>
sendVars    == <<tries, streak, sent, skipped, lost, silent>>
fileVars    == <<recorded, breaks>>

File == 1 .. Elements

AtMost(limit, n) == IF n > limit THEN limit ELSE n

\* A run starts with an empty queue and counts of its own.
Fresh ==
    /\ parsed' = 0 /\ parseError' = FALSE
    /\ q' = <<>> /\ chunk' = <<>>
    /\ tries' = 0 /\ streak' = 0 /\ silent' = 0
    /\ sent' = <<>> /\ skipped' = {} /\ lost' = {}

WatcherInit ==
    /\ parser = "off" /\ parsed = 0 /\ parseError = FALSE
    /\ q = <<>> /\ publisher = "off" /\ chunk = <<>>
    /\ tries = 0 /\ streak = 0 /\ silent = 0
    /\ sent = <<>> /\ skipped = {} /\ lost = {}
    /\ recorded = FALSE /\ breaks = 0

----------------------------------------------------------------------------
(* The parser thread.                                                      *)

PutElement ==
    /\ parser = "parsing" /\ ~parseError
    /\ parsed < Elements /\ Len(q) < QueueMaxsize
    /\ q' = Append(q, parsed + 1)
    /\ parsed' = parsed + 1
    /\ UNCHANGED <<parser, parseError, publisher, chunk, sendVars, fileVars>>

\* apply_file raises: kept for the end of the import.
ParseFails ==
    /\ parser = "parsing" /\ ~parseError /\ breaks < MaxBreaks
    /\ parseError' = TRUE
    /\ breaks' = breaks + 1
    /\ UNCHANGED <<parser, parsed, q, publisher, chunk, sendVars, recorded>>

\* The `finally` of _parse.
Parsed == parseError \/ parsed = Elements

PutSentinel ==
    /\ parser = "parsing" /\ Parsed /\ Len(q) < QueueMaxsize
    /\ q' = Append(q, SENTINEL)
    /\ parser' = "ended"
    /\ UNCHANGED <<parsed, parseError, publisher, chunk, sendVars, fileVars>>

----------------------------------------------------------------------------
(* The publisher: first a batch ...                                        *)

\* q.get; on a timeout it is tried again.
Take ==
    /\ publisher = "take" /\ q # <<>> /\ Head(q) # SENTINEL
    /\ chunk' = <<Head(q)>>
    /\ q' = Tail(q)
    /\ publisher' = "drain"
    /\ UNCHANGED <<parserVars, sendVars, fileVars>>

\* Out of the loop.  The flush that follows takes what is left on the queue:
\* nothing ever is (NothingBehindSentinel).
Leave ==
    /\ publisher = "take" /\ q # <<>> /\ Head(q) = SENTINEL
    /\ q' = Tail(q)
    /\ publisher' = "join"
    /\ UNCHANGED <<parserVars, chunk, sendVars, fileVars>>

DrainElement ==
    /\ publisher = "drain" /\ Len(chunk) < PublishSize
    /\ q # <<>> /\ Head(q) # SENTINEL
    /\ chunk' = Append(chunk, Head(q))
    /\ q' = Tail(q)
    /\ UNCHANGED <<parserVars, publisher, sendVars, fileVars>>

\* Mutant of Signalled: the drain swallows the sentinel.
SignalledOnce == Tail(q)

\* "re-signal so outer loop exits".
Signalled == Append(Tail(q), SENTINEL)

DrainSentinel ==
    /\ publisher = "drain" /\ Len(chunk) < PublishSize
    /\ q # <<>> /\ Head(q) = SENTINEL
    /\ q' = Signalled
    /\ publisher' = "publish"
    /\ UNCHANGED <<parserVars, chunk, sendVars, fileVars>>

\* Mutant of Drained: one more is taken before the size is looked at.
DrainedLate ==
    /\ publisher = "drain"
    /\ Len(chunk) = PublishSize \/ q = <<>>
    /\ publisher' = "publish"
    /\ q' = IF q # <<>> /\ Head(q) # SENTINEL THEN Tail(q) ELSE q
    /\ UNCHANGED <<parserVars, chunk, sendVars, fileVars>>

\* The batch is full, or get_nowait found the queue empty.
Drained ==
    /\ publisher = "drain"
    /\ Len(chunk) = PublishSize \/ q = <<>>
    /\ publisher' = "publish"
    /\ UNCHANGED <<parserVars, q, chunk, sendVars, fileVars>>

----------------------------------------------------------------------------
(* ... then its messages, one after the other.                             *)

Sending == publisher = "publish" /\ chunk # <<>>

\* Mutant of ResetFailures: the count of failures goes on.
ResetFailuresNever == streak

\* "Reset on success".
ResetFailures == 0

Acked ==
    /\ Sending
    /\ sent' = Append(sent, Head(chunk))
    /\ chunk' = Tail(chunk)
    /\ tries' = 0 /\ streak' = ResetFailures /\ silent' = 0
    /\ UNCHANGED <<parserVars, q, publisher, skipped, lost, fileVars>>

\* Too large after simplification, or refused by NATS as too large.
SkipTooLarge ==
    /\ Sending
    /\ skipped' = skipped \cup {Head(chunk)}
    /\ chunk' = Tail(chunk)
    /\ tries' = 0
    /\ UNCHANGED <<parserVars, q, publisher, streak, sent, lost, silent, fileVars>>

InBatch == {chunk[i] : i \in 1 .. Len(chunk)}

\* Mutant of GivesUp: the limit only ends the attempts of one message.
GivesUpNever == FALSE

GivesUp == streak' >= MaxStreak

\* Mutant of Again: a message that failed goes behind the others.
AgainLater == chunk' = Append(Tail(chunk), Head(chunk))

Again == chunk' = chunk

\* "giving up" raises out of the batch, whose `except` lets the loop go on
\* with the next one; below the limit the message gets another attempt.
AfterFailure ==
    IF GivesUp
      THEN chunk' = <<>> /\ tries' = 0 /\ lost' = lost \cup InBatch
    ELSE IF tries + 1 < MaxTries
      THEN Again /\ tries' = tries + 1 /\ lost' = lost
      ELSE chunk' = Tail(chunk) /\ tries' = 0 /\ lost' = lost \cup {Head(chunk)}

\* No ack, or an error; the message may be stored all the same.
PublishFails ==
    /\ Sending
    /\ sent' \in {sent, Append(sent, Head(chunk))}
    /\ streak' = AtMost(MaxStreak, streak + 1)
    /\ silent' = AtMost(MaxStreak, silent + 1)
    /\ AfterFailure
    /\ UNCHANGED <<parserVars, q, publisher, skipped, fileVars>>

NextBatch ==
    /\ publisher = "publish" /\ chunk = <<>>
    /\ publisher' = "take"
    /\ UNCHANGED <<parserVars, q, chunk, sendVars, fileVars>>

----------------------------------------------------------------------------
(* _scan_and_process.                                                      *)

Start ==
    /\ publisher = "off" /\ ~recorded
    /\ publisher' = "take" /\ parser' = "parsing" /\ Fresh
    /\ UNCHANGED fileVars

\* thread.join() returns; with a parse error the file is left for later.
Join ==
    /\ publisher = "join" /\ parser = "ended"
    /\ recorded' = (recorded \/ ~parseError)
    /\ publisher' = "off" /\ parser' = "off"
    /\ UNCHANGED <<parsed, parseError, q, chunk, sendVars, breaks>>

\* The process dies, or the ledger cannot be written: the next scan imports
\* the file anew.
Break ==
    /\ publisher # "off" /\ breaks < MaxBreaks
    /\ publisher' = "off" /\ parser' = "off" /\ Fresh
    /\ breaks' = breaks + 1
    /\ UNCHANGED recorded

Parser    == PutElement \/ PutSentinel
Publisher ==
    \/ Take \/ Leave \/ DrainElement \/ DrainSentinel \/ Drained
    \/ Acked \/ SkipTooLarge \/ PublishFails \/ NextBatch
    \/ Start \/ Join

WatcherNext == Parser \/ ParseFails \/ Publisher \/ Break

(* Two threads run on, and scans repeat.  Neither errors nor acks are      *)
(* forced.                                                                 *)
WatcherSpec ==
    /\ WatcherInit /\ [][WatcherNext]_watcherVars
    /\ WF_watcherVars(Parser) /\ WF_watcherVars(Publisher)

----------------------------------------------------------------------------
WatcherTypeOK ==
    /\ parser \in {"off", "parsing", "ended"}
    /\ publisher \in {"off", "take", "drain", "publish", "join"}
    /\ parsed \in 0 .. Elements /\ parseError \in BOOLEAN
    /\ q \in Seq(File \cup {SENTINEL}) /\ Len(q) <= QueueMaxsize
    /\ chunk \in Seq(File) /\ Len(chunk) <= PublishSize
    /\ tries \in 0 .. MaxTries
    /\ streak \in 0 .. MaxStreak /\ silent \in 0 .. MaxStreak
    /\ sent \in Seq(File)
    /\ skipped \subseteq File /\ lost \subseteq File
    /\ recorded \in BOOLEAN /\ breaks \in 0 .. MaxBreaks

(* When the publisher leaves its loop the queue is empty and the parser is *)
(* done: the flush after it has nothing to do and the join does not hang.  *)
NothingBehindSentinel == publisher = "join" => q = <<>> /\ parser = "ended"

(* The limit on failures in a row comes before the limit on retries: no    *)
(* message is ever given up for having used all its attempts.              *)
RetriesNeverExhausted == tries <= streak /\ (Sending => tries < MaxStreak)

InStream == {sent[i] : i \in 1 .. Len(sent)}
InQueue  == {q[i] : i \in 1 .. Len(q)} \ {SENTINEL}

(* No element vanishes between parser, queue, batch and NATS: what was     *)
(* parsed is under way, stored, skipped as too large or given up.          *)
NothingVanishes ==
    1 .. parsed = InQueue \cup InBatch \cup InStream \cup skipped \cup lost

(* "Too many consecutive failures": an element is given up only when NATS  *)
(* has not acknowledged anything for as many attempts as the limit, be it  *)
(* in one batch or over several.                                           *)
LossNeedsOutage == [][lost' # lost => lost' = {} \/ silent' = MaxStreak]_watcherVars

(* A run stores the elements in the order of the file, repeats in place.   *)
ParseOrder == \A i, j \in 1 .. Len(sent) : i < j => sent[i] <= sent[j]

(* Between the parser and NATS nothing vanishes and nothing overtakes.     *)
WatcherInv ==
    /\ WatcherTypeOK /\ NothingBehindSentinel /\ RetriesNeverExhausted
    /\ NothingVanishes /\ ParseOrder

(* However NATS behaves, and after any parse errors and restarts, the      *)
(* import ends and the file is recorded.                                   *)
FileRecorded == <>recorded
=============================================================================

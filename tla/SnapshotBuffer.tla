--------------------------- MODULE SnapshotBuffer ---------------------------
(***************************************************************************)
(* The collector on the Raspberry Pi: the poll cycle of BatteryPoller, the *)
(* SQLite replay buffer it fills (SnapshotBuffer) and the two HTTP views a *)
(* monitor reads, /api/readings and /api/readings/history.                 *)
(*                                                                         *)
(* A completed poll is a capture, numbered 1, 2, ... over the life of the  *)
(* system.  A buffered snapshot is a row of the table "snapshots": its     *)
(* AUTOINCREMENT sequence and the capture it holds.  AUTOINCREMENT numbers *)
(* rows without holes and pruning by age removes a prefix that never       *)
(* reaches the newest row (retention is at least one hour and the prune    *)
(* follows the append), so the rows present are always oldest..newest.     *)
(***************************************************************************)
EXTENDS Naturals

CONSTANTS
    MaxStreams,   \* bound: stream ids a buffer file may ever have
    MaxSeq,       \* bound: rows ever appended to one stream
    MaxPolls,     \* bound: completed polls
    BufferModes   \* the values BQS_BUFFER_ENABLED takes over the restarts

ASSUME StreamsAssumption == MaxStreams \in Nat \ {0}
ASSUME SeqAssumption     == MaxSeq \in Nat \ {0}
ASSUME PollsAssumption   == MaxPolls \in Nat \ {0}
ASSUME ModesAssumption   == BufferModes \subseteq BOOLEAN /\ BufferModes # {}

VARIABLES
    stream,           \* durable: buffer_metadata.stream_id
    oldest,           \* durable: lowest sequence still in the table
    newest,           \* durable: highest sequence ever assigned
    captureOf,        \* durable: captureOf[s][q] is the capture row q of s holds
    enabled,          \* settings.buffer.enabled of the running process
    latestSequence,   \* _latest_sequence; 0 stands for None
    captured,         \* _last_completed_at; 0 stands for None
    pollerPc,         \* where poll_once stands
    polls             \* captures so far

bufferVars == <<stream, oldest, newest, captureOf>>
pollerVars == <<enabled, latestSequence, captured, pollerPc, polls>>
collectorVars == <<bufferVars, pollerVars>>

Streams   == 1..MaxStreams
Sequences == 1..MaxSeq
Captures  == 0..MaxPolls

-----------------------------------------------------------------------------
(* The HTTP views.                                                         *)

\* The row with sequence q can be read from the buffer.
Buffered(q) == oldest <= q /\ q <= newest

\* Faulty: the label is read from the file, not from the appends of this process.
ReadingsFromFile ==
    [stream |-> IF enabled THEN stream ELSE 0,
     seq |-> IF enabled THEN newest ELSE 0, capture |-> captured]

\* GET /api/readings: the live states, labelled with the sequence of the last
\* append this process has seen return.
Readings ==
    [stream |-> IF enabled THEN stream ELSE 0,
     seq |-> latestSequence, capture |-> captured]

\* The limit read_after works with, whatever the query string asked for.
SafeLimit(limit) == IF limit < 1 THEN 1 ELSE IF limit > 2000 THEN 2000 ELSE limit

\* Faulty: has_more compares the last row of the page with one too few.
ReadAfterOffByOne(after, limit) ==
    LET low == IF after < oldest THEN oldest ELSE after + 1
        high == low + SafeLimit(limit) - 1
    IN  [stream |-> stream, first |-> low,
         last |-> IF high < newest THEN high ELSE newest,
         hasMore |-> high + 1 < newest]

\* GET /api/readings/history: the first rows above `after`, first..last, with
\* one more row looked up to tell whether there is a next page.
ReadAfter(after, limit) ==
    LET low == IF after < oldest THEN oldest ELSE after + 1
        high == low + SafeLimit(limit) - 1
    IN  [stream |-> stream, first |-> low,
         last |-> IF high < newest THEN high ELSE newest,
         hasMore |-> high < newest]

-----------------------------------------------------------------------------
CollectorInit ==
    /\ stream = 1 /\ oldest = 1 /\ newest = 0
    /\ captureOf = [s \in Streams |-> [q \in Sequences |-> 0]]
    /\ enabled \in BufferModes
    /\ latestSequence = 0 /\ captured = 0 /\ polls = 0
    /\ pollerPc = "poll"

\* There are polls left beyond those the remaining rows of the bound need.
PollsToSpare == MaxPolls - polls > MaxSeq - newest

\* All batteries, the inverter and the host have been read; the sample
\* interval of the buffer has passed.
PollThenSample ==
    /\ pollerPc = "poll" /\ polls < MaxPolls
    /\ enabled /\ newest < MaxSeq
    /\ polls' = polls + 1
    /\ captured' = polls + 1
    /\ pollerPc' = "append"
    /\ UNCHANGED <<bufferVars, enabled, latestSequence>>

\* The same poll with no sample due, or without a buffer.
PollOnly ==
    /\ pollerPc = "poll" /\ polls < MaxPolls
    /\ enabled => PollsToSpare
    /\ polls' = polls + 1
    /\ captured' = polls + 1
    /\ UNCHANGED <<bufferVars, enabled, latestSequence, pollerPc>>

\* The worker thread commits the row: history serves it from here on, while
\* the poller has yet to learn its sequence.
Append ==
    /\ pollerPc = "append"
    /\ newest' = newest + 1
    /\ captureOf' = [captureOf EXCEPT ![stream][newest + 1] = captured]
    /\ pollerPc' = "ack"
    /\ UNCHANGED <<stream, oldest, enabled, latestSequence, captured, polls>>

\* Faulty: the row was committed, and the same cycle appends it again.
AppendFailsRetried ==
    /\ pollerPc = "append" /\ newest + 1 < MaxSeq
    /\ newest' = newest + 1
    /\ captureOf' = [captureOf EXCEPT ![stream][newest + 1] = captured]
    /\ UNCHANGED <<stream, oldest, pollerVars>>

\* The insert raises: the cycle ends, the sample stays due.
AppendFails ==
    /\ pollerPc = "append" /\ PollsToSpare
    /\ pollerPc' = "poll"
    /\ UNCHANGED <<bufferVars, enabled, latestSequence, captured, polls>>

\* Faulty: the label counts one row too many.
AppendReturnsAhead ==
    /\ pollerPc = "ack"
    /\ latestSequence' = newest + 1
    /\ pollerPc' = "prune"
    /\ UNCHANGED <<bufferVars, enabled, captured, polls>>

\* Faulty: the label is set by the first append only.
AppendReturnsOnce ==
    /\ pollerPc = "ack"
    /\ latestSequence' = IF latestSequence = 0 THEN newest ELSE latestSequence
    /\ pollerPc' = "prune"
    /\ UNCHANGED <<bufferVars, enabled, captured, polls>>

\* poll_once resumes with the row id.
AppendReturns ==
    /\ pollerPc = "ack"
    /\ latestSequence' = newest
    /\ pollerPc' = "prune"
    /\ UNCHANGED <<bufferVars, enabled, captured, polls>>

\* prune_older_than_hours: some prefix has aged out, or none, or it raised.
Prune ==
    /\ pollerPc = "prune"
    /\ oldest' \in oldest..newest
    /\ pollerPc' = "poll"
    /\ UNCHANGED <<stream, newest, captureOf, enabled, latestSequence, captured, polls>>

\* Faulty: a new process takes the label over from the file before it has polled.
RestartPollerLabelled(mode) ==
    /\ enabled' = mode
    /\ latestSequence' = newest /\ captured' = 0
    /\ pollerPc' = "poll"
    /\ UNCHANGED polls

\* The process ends at any point and a new one opens the same file.
RestartPoller(mode) ==
    /\ enabled' = mode
    /\ latestSequence' = 0 /\ captured' = 0
    /\ pollerPc' = "poll"
    /\ UNCHANGED polls

\* The bounds leave the new process a poll and a row, so it is not they that
\* silence it.
RestartCollector ==
    /\ newest < MaxSeq
    /\ pollerPc = "append" => PollsToSpare
    /\ \E mode \in BufferModes : RestartPoller(mode)
    /\ UNCHANGED bufferVars

\* The process restarts on an empty data directory: initialize() creates the
\* tables and draws a new stream id.
ReplaceBuffer ==
    /\ stream < MaxStreams
    /\ \E mode \in BufferModes : RestartPoller(mode)
    /\ stream' = stream + 1 /\ oldest' = 1 /\ newest' = 0
    /\ UNCHANGED captureOf

PollerStep == PollThenSample \/ PollOnly \/ Append \/ AppendFails \/ AppendReturns \/ Prune

CollectorNext == PollerStep \/ RestartCollector \/ ReplaceBuffer

CollectorSpec == CollectorInit /\ [][CollectorNext]_collectorVars

-----------------------------------------------------------------------------
CollectorTypeOK ==
    /\ stream \in Streams
    /\ oldest \in 1..MaxSeq + 1 /\ newest \in 0..MaxSeq
    /\ captureOf \in [Streams -> [Sequences -> Captures]]
    /\ enabled \in BOOLEAN
    /\ latestSequence \in 0..MaxSeq
    /\ captured \in Captures /\ polls \in Captures
    /\ pollerPc \in {"poll", "append", "ack", "prune"}

\* Outside the moment between the commit of a row and the return of append,
\* a process that has a label at all labels live readings with the newest
\* row: history is never more than one row ahead of the live view.
HistoryOneAhead ==
    latestSequence # 0 =>
        latestSequence = IF pollerPc = "ack" THEN newest - 1 ELSE newest

\* A label is never newer than what it labels: live readings are at least as
\* recent as the sample buffered under their sequence.
LabelNotAhead ==
    latestSequence # 0 => captured >= captureOf[stream][latestSequence]

\* The label on live readings keeps step with the buffer and with the readings it is
\* on: at most one row behind the one, never ahead of the other (poller.py:160).
LabelsInStep == HistoryOneAhead /\ LabelNotAhead

\* The samples of a stream are in the order of their sequences, each capture
\* in one row: a failed append or a restart neither repeats nor reorders one.
SamplesInOrder ==
    \A p, q \in 1..newest : p < q => captureOf[stream][p] < captureOf[stream][q]

\* The rows a reader is given that starts above `after` and asks for the next
\* page while has_more says there is one, page by page.
Followed(after, limit) ==
    LET rows[a \in 0..MaxSeq] ==
            LET page == ReadAfter(a, limit)
            IN  (page.first..page.last)
                  \cup (IF page.hasMore THEN rows[page.last] ELSE {})
    IN  rows[after]

\* Following has_more from any cursor with any limit, the clamped ones
\* included, delivers every buffered row above the cursor and nothing else,
\* and no page exceeds the limit in force.
PagesCoverBuffer ==
    \A after \in 0..MaxSeq : \A limit \in {0, 1, 2, 2001} :
        LET page == ReadAfter(after, limit)
        IN  /\ Followed(after, limit) = {q \in Sequences : q > after /\ Buffered(q)}
            /\ page.last - page.first < SafeLimit(limit)
=============================================================================

--------------------------- MODULE MonitorService ---------------------------
(***************************************************************************)
(* The archive path of the monitor: MonitorService.poll_once, _backfill    *)
(* and persist_once over the collector's HTTP views and the SQLite store.  *)
(*                                                                         *)
(* Tasks are the coroutines of one event loop that run this path: the      *)
(* connection manager's loop (Loop) and any force_cycle a POST to          *)
(* /api/admin/poll starts beside it.  A coroutine gives way only where it  *)
(* awaits a worker thread, so a step is either what a thread call does or  *)
(* what the coroutine does on resuming; the two are one step when the      *)
(* resumption touches nothing but its own locals.                          *)
(***************************************************************************)
EXTENDS SnapshotBuffer

CONSTANTS
    Tasks,        \* the coroutines that poll and persist
    Loop,         \* the one that is MonitorService.run
    PageSize,     \* BQM_BACKFILL_PAGE_SIZE
    MaxPages,     \* pages one backfill fetches at most
    LooseCap,     \* bound: rows without a sequence are counted up to this per capture
    NoSnapshot    \* the None of _latest_snapshot

ASSUME TasksAssumption == Loop \in Tasks
ASSUME PageAssumption  == PageSize \in Nat \ {0} /\ MaxPages \in Nat \ {0}
ASSUME LooseAssumption == LooseCap \in Nat

VARIABLES
    latestSnapshot,    \* _latest_snapshot
    historySupported,  \* _history_supported: "unknown", "yes" or "no"
    backfillError,     \* last_backfill_error is set
    pc, local,         \* per task: where it awaits, and its local variables; local.begun is
                       \* history, the cursor a backfill started from
    archive,           \* durable: rows of `readings` that carry a sequence
    loose,             \* durable: how many rows without one hold a capture, up to LooseCap
    markers,           \* durable: collector_sequence:<stream> in monitor_metadata
    erased             \* history: labels of rows that retention or a purge deleted

memoryVars  == <<latestSnapshot, historySupported, backfillError>>
storeVars   == <<archive, loose, markers, erased>>
monitorVars == <<memoryVars, pc, local, storeVars>>

Snapshots == [stream : 0..MaxStreams, seq : 0..MaxSeq, capture : Captures]
ASSUME SnapshotAssumption == NoSnapshot \notin Snapshots

Rows == [stream : Streams, seq : Sequences, capture : Captures]

\* _snapshot_identity finds both a stream and a sequence.
Labelled(snapshot) == snapshot.stream # 0 /\ snapshot.seq # 0

NoPage == [stream |-> 0, first |-> 1, last |-> 0, hasMore |-> FALSE]
Fresh  == [snap |-> NoSnapshot, begun |-> 0, after |-> 0, page |-> NoPage, pages |-> 0,
           processed |-> 0]

Archived(s, q) == \E row \in archive : row.stream = s /\ row.seq = q

\* Faulty: INSERT OR REPLACE.
InsertReplacing(rows) ==
    archive' = rows \cup {old \in archive :
        ~\E row \in rows : row.stream = old.stream /\ row.seq = old.seq}

\* INSERT OR IGNORE under the unique index on (battery, stream, sequence).
Insert(rows) ==
    archive' = archive \cup {row \in rows : ~Archived(row.stream, row.seq)}

\* The snapshots of a page up to sequence `last`, labelled by read_after.
PageRows(page, last) ==
    {[stream |-> page.stream, seq |-> q, capture |-> captureOf[page.stream][q]] :
        q \in page.first..last}

Go(t, next, locals) ==
    /\ pc' = [pc EXCEPT ![t] = next]
    /\ local' = [local EXCEPT ![t] = locals]

Rest(t) == Go(t, "idle", Fresh)

\* poll_once has returned: persist_once reads _latest_snapshot and
\* _history_supported before its first await.  The loop skips it while its
\* log interval runs; force_cycle never does.
BeginPersist(t, latest, history) ==
    \/ t = Loop /\ Rest(t)
    \/ latest = NoSnapshot /\ Rest(t)
    \/ /\ latest # NoSnapshot
       /\ Go(t, IF Labelled(latest) /\ history # "no" THEN "check" ELSE "write",
             [Fresh EXCEPT !.snap = latest])

-----------------------------------------------------------------------------
(* poll_once                                                               *)

FetchSnapshot(t) ==
    /\ pc[t] = "idle"
    /\ Go(t, "fetched", [Fresh EXCEPT !.snap = Readings])
    /\ UNCHANGED <<memoryVars, storeVars>>

\* run() persists whatever is cached even though the poll failed; force_cycle
\* just returns, which changes nothing here.
FetchSnapshotFails ==
    /\ pc[Loop] = "idle"
    /\ BeginPersist(Loop, latestSnapshot, historySupported)
    /\ UNCHANGED <<memoryVars, storeVars>>

\* The live cache is replaced and _backfill begins.  After a 404 it does
\* nothing until the retry time has come.
Receive(t) ==
    LET snapshot == local[t].snap IN
    /\ pc[t] = "fetched"
    /\ latestSnapshot' = snapshot
    /\ \/ /\ historySupported = "no"
          /\ BeginPersist(t, snapshot, "no")
          /\ UNCHANGED historySupported
       \/ /\ historySupported' = IF historySupported = "no" THEN "unknown" ELSE historySupported
          /\ IF Labelled(snapshot) THEN Go(t, "marker", local[t])
                                   ELSE BeginPersist(t, snapshot, historySupported')
    /\ UNCHANGED <<backfillError, storeVars>>

-----------------------------------------------------------------------------
(* _backfill                                                               *)

\* Faulty: without a marker, replay starts at the live sequence.
ReadMarkerAtLive(t) ==
    LET snapshot == local[t].snap
        marker   == markers[snapshot.stream]
        start    == IF marker \in 1..snapshot.seq THEN marker ELSE snapshot.seq
    IN  /\ pc[t] = "marker"
        /\ Go(t, "loop", [local[t] EXCEPT !.after = start, !.begun = start])
        /\ UNCHANGED <<memoryVars, storeVars>>

\* A marker above the live sequence is not trusted: start over from 0.
ReadMarker(t) ==
    LET snapshot == local[t].snap
        marker   == markers[snapshot.stream]
        start    == IF marker > snapshot.seq THEN 0 ELSE marker
    IN  /\ pc[t] = "marker"
        /\ Go(t, "loop", [local[t] EXCEPT !.after = start, !.begun = start])
        /\ UNCHANGED <<memoryVars, storeVars>>

\* Faulty: the last page the limit allows is not fetched.
BehindOneShort(t) == local[t].after < local[t].snap.seq /\ local[t].pages + 1 < MaxPages

\* The loop goes on: below the live sequence, and below the limit of pages.
Behind(t) == local[t].after < local[t].snap.seq /\ local[t].pages < MaxPages

FetchPage(t) ==
    /\ pc[t] = "loop" /\ Behind(t)
    /\ IF enabled
       THEN Go(t, "paged", [local[t] EXCEPT !.page = ReadAfter(local[t].after, PageSize)])
       ELSE Go(t, "gone", local[t])
    /\ UNCHANGED <<memoryVars, storeVars>>

\* The history endpoint answered 404.
HistoryGone(t) ==
    /\ pc[t] = "gone"
    /\ historySupported' = "no"
    /\ backfillError' = FALSE
    /\ BeginPersist(t, latestSnapshot, "no")
    /\ UNCHANGED <<latestSnapshot, storeVars>>

\* A page is never empty while its latest_sequence is above the cursor, nor
\* does it fail to advance: read_after computes all of it under one lock.
ReceivePage(t) ==
    /\ pc[t] = "paged"
    /\ historySupported' = "yes"
    /\ IF local[t].page.first <= local[t].page.last
       THEN /\ Go(t, "insert", local[t])
            /\ UNCHANGED backfillError
       ELSE /\ backfillError' = FALSE
            /\ BeginPersist(t, latestSnapshot, "yes")
    /\ UNCHANGED <<latestSnapshot, storeVars>>

\* Faulty: the cursor is the live sequence the page was asked for.
InsertPageClaims(t) ==
    LET page == local[t].page IN
    /\ pc[t] = "insert"
    /\ Insert(PageRows(page, page.last))
    /\ Go(t, "mark", [local[t] EXCEPT !.after = local[t].snap.seq])
    /\ UNCHANGED <<memoryVars, loose, markers, erased>>

InsertPage(t) ==
    LET page == local[t].page IN
    /\ pc[t] = "insert"
    /\ Insert(PageRows(page, page.last))
    /\ Go(t, "mark", [local[t] EXCEPT !.after = page.last])
    /\ UNCHANGED <<memoryVars, loose, markers, erased>>

\* The marker is a transaction of its own, under the key of the snapshot the
\* poll fetched.
MarkPage(t) ==
    /\ pc[t] = "mark"
    /\ markers' = [markers EXCEPT ![local[t].snap.stream] = local[t].after]
    /\ Go(t, IF local[t].page.hasMore THEN "loop" ELSE "backfilled",
          [local[t] EXCEPT !.pages = @ + 1, !.page = NoPage])
    /\ UNCHANGED <<memoryVars, archive, loose, erased>>

EndBackfill(t) ==
    /\ pc[t] = "backfilled" \/ (pc[t] = "loop" /\ ~Behind(t))
    /\ backfillError' = FALSE
    /\ BeginPersist(t, latestSnapshot, historySupported)
    /\ UNCHANGED <<latestSnapshot, historySupported, storeVars>>

\* Faulty: the failure is logged and forgotten.
BackfillFailsQuietly(t) ==
    /\ pc[t] \in {"marker", "insert", "mark"} \/ (pc[t] = "loop" /\ Behind(t))
    /\ backfillError' = FALSE
    /\ BeginPersist(t, latestSnapshot, historySupported)
    /\ UNCHANGED <<latestSnapshot, historySupported, storeVars>>

\* The network or the store raises before it has changed anything.
BackfillFails(t) ==
    /\ pc[t] \in {"marker", "insert", "mark"} \/ (pc[t] = "loop" /\ Behind(t))
    /\ backfillError' = TRUE
    /\ BeginPersist(t, latestSnapshot, historySupported)
    /\ UNCHANGED <<latestSnapshot, historySupported, storeVars>>

\* insert_snapshots raises half way.  There is no rollback, so the snapshots
\* done so far may still be committed by the next transaction.
InsertPageFails(t) ==
    LET page == local[t].page IN
    /\ pc[t] = "insert"
    /\ \E last \in page.first..page.last : Insert(PageRows(page, last))
    /\ backfillError' = TRUE
    /\ BeginPersist(t, latestSnapshot, historySupported)
    /\ UNCHANGED <<latestSnapshot, historySupported, loose, markers, erased>>

-----------------------------------------------------------------------------
(* persist_once                                                            *)

CheckMarker(t) ==
    /\ pc[t] = "check"
    /\ Go(t, "decide", [local[t] EXCEPT !.processed = markers[local[t].snap.stream]])
    /\ UNCHANGED <<memoryVars, storeVars>>

\* Faulty: a failed backfill does not hold the live write back.
DecideRegardless(t) ==
    /\ pc[t] = "decide"
    /\ IF local[t].processed >= local[t].snap.seq
       THEN Rest(t)
       ELSE Go(t, "write", [local[t] EXCEPT !.processed = 0])
    /\ UNCHANGED <<memoryVars, storeVars>>

Decide(t) ==
    /\ pc[t] = "decide"
    /\ IF local[t].processed >= local[t].snap.seq \/ backfillError
       THEN Rest(t)
       ELSE Go(t, "write", [local[t] EXCEPT !.processed = 0])
    /\ UNCHANGED <<memoryVars, storeVars>>

InsertLive(snapshot) ==
    IF Labelled(snapshot)
    THEN Insert({snapshot}) /\ UNCHANGED loose
    ELSE /\ loose' = [loose EXCEPT ![snapshot.capture] = IF @ < LooseCap THEN @ + 1 ELSE LooseCap]
         /\ UNCHANGED archive

WriteLive(t) ==
    LET snapshot == local[t].snap IN
    /\ pc[t] = "write"
    /\ InsertLive(snapshot)
    /\ IF Labelled(snapshot) THEN Go(t, "writeMark", local[t]) ELSE Rest(t)
    /\ UNCHANGED <<memoryVars, markers, erased>>

\* The write raises after the readings went in, which stay in the open
\* transaction.
WriteLiveFails(t) ==
    /\ pc[t] = "write"
    /\ InsertLive(local[t].snap)
    /\ Rest(t)
    /\ UNCHANGED <<memoryVars, markers, erased>>

MarkLive(t) ==
    LET snapshot == local[t].snap IN
    /\ pc[t] = "writeMark"
    /\ markers' = [markers EXCEPT ![snapshot.stream] = snapshot.seq]
    /\ Rest(t)
    /\ UNCHANGED <<memoryVars, archive, loose, erased>>

\* The store raises before it has changed anything.
PersistFails(t) ==
    /\ pc[t] \in {"check", "write", "writeMark"}
    /\ Rest(t)
    /\ UNCHANGED <<memoryVars, storeVars>>

-----------------------------------------------------------------------------
(* Retention, purge and restarts                                           *)

Erase(rows) ==
    /\ archive' = archive \ rows
    /\ erased' = erased \cup {<<row.stream, row.seq>> : row \in rows}

\* prune_once, which the loop runs between two polls: captures before the
\* cutoff go.
PruneArchive ==
    /\ pc[Loop] = "idle"
    /\ \E cutoff \in 1..MaxPolls :
          /\ Erase({row \in archive : row.capture < cutoff})
          /\ loose' = [c \in Captures |-> IF c < cutoff THEN 0 ELSE loose[c]]
    /\ UNCHANGED <<memoryVars, pc, local, markers>>

\* POST /api/admin/purge: every reading goes, the markers stay.
PurgeAll ==
    /\ Erase(archive)
    /\ loose' = [c \in Captures |-> 0]
    /\ UNCHANGED <<memoryVars, pc, local, markers>>

RestartMonitor ==
    /\ latestSnapshot' = NoSnapshot
    /\ historySupported' = "unknown" /\ backfillError' = FALSE
    /\ pc' = [t \in Tasks |-> "idle"] /\ local' = [t \in Tasks |-> Fresh]
    /\ UNCHANGED storeVars

MonitorInit ==
    /\ latestSnapshot = NoSnapshot
    /\ historySupported = "unknown" /\ backfillError = FALSE
    /\ pc = [t \in Tasks |-> "idle"] /\ local = [t \in Tasks |-> Fresh]
    /\ archive = {} /\ erased = {}
    /\ loose = [c \in Captures |-> 0]
    /\ markers = [s \in Streams |-> 0]

PollTask(t) == FetchSnapshot(t) \/ Receive(t)

BackfillTask(t) ==
    \/ ReadMarker(t) \/ FetchPage(t) \/ HistoryGone(t) \/ ReceivePage(t)
    \/ InsertPage(t) \/ MarkPage(t) \/ EndBackfill(t)
    \/ BackfillFails(t) \/ InsertPageFails(t)

PersistTask(t) ==
    \/ CheckMarker(t) \/ Decide(t) \/ WriteLive(t) \/ WriteLiveFails(t)
    \/ MarkLive(t) \/ PersistFails(t)

TaskStep(t) == PollTask(t) \/ BackfillTask(t) \/ PersistTask(t)

MonitorNext ==
    \/ \E t \in Tasks : TaskStep(t)
    \/ FetchSnapshotFails
    \/ PruneArchive \/ PurgeAll \/ RestartMonitor

-----------------------------------------------------------------------------
Steps == {"idle", "fetched", "marker", "loop", "gone", "paged", "insert", "mark",
          "backfilled", "check", "decide", "write", "writeMark"}

Pages == [stream : 0..MaxStreams, first : 1..MaxSeq + 1, last : 0..MaxSeq, hasMore : BOOLEAN]

Locals == [snap : Snapshots \cup {NoSnapshot}, begun : 0..MaxSeq, after : 0..MaxSeq,
           page : Pages, pages : 0..MaxPages, processed : 0..MaxSeq]

MonitorTypeOK ==
    /\ latestSnapshot \in Snapshots \cup {NoSnapshot}
    /\ historySupported \in {"unknown", "yes", "no"}
    /\ backfillError \in BOOLEAN
    /\ pc \in [Tasks -> Steps]
    /\ local \in [Tasks -> Locals]
    /\ archive \subseteq Rows
    /\ loose \in [Captures -> 0..LooseCap]
    /\ markers \in [Streams -> 0..MaxSeq]
    /\ erased \subseteq Streams \X Sequences
=============================================================================

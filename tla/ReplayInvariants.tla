-------------------------- MODULE ReplayInvariants --------------------------
(***************************************************************************)
(* The inductive invariants the proofs about ReplayPipeline rest on.       *)
(***************************************************************************)
EXTENDS ReplayPipeline

Replaying == {"marker", "loop", "gone", "paged", "insert", "mark", "backfilled"}

\* What its position says about the local variables of a task.
Control(at, l) ==
    /\ at # "idle" => l.snap \in Snapshots
    /\ at \in Replaying \cup {"check", "decide", "writeMark"} => Labelled(l.snap)
    /\ at \in {"paged", "insert", "mark"} => l.pages < MaxPages
    /\ at \in {"paged", "insert"} => l.page.stream \in Streams
    /\ at = "insert" => l.page.first <= l.page.last

TypeInv ==
    /\ TypeOK
    /\ pollerPc = "append" => newest < MaxSeq
    /\ \A t \in Tasks : Control(pc[t], local[t])

-----------------------------------------------------------------------------
\* A label of a row that has been appended, to this stream or an earlier one.
Stored(s, q) == s < stream \/ (s = stream /\ q <= newest)

\* The row a marker is about to name is in the archive already.
Backed(at, l) ==
    /\ at # "idle" => Stored(l.snap.stream, l.snap.seq)
    /\ at \in {"paged", "insert"} =>
         l.snap.stream <= l.page.stream /\ Stored(l.page.stream, l.page.last)
    /\ at = "mark" /\ l.snap.stream = stream =>
         l.after # 0 /\ l.after <= newest /\ Kept(stream, l.after)
    /\ at = "writeMark" /\ l.snap.stream = stream => Kept(stream, l.snap.seq)

BackedInv ==
    /\ MarkerBacked
    /\ \A s \in Streams : s > stream => markers[s] = 0
    /\ \A row \in archive : Stored(row.stream, row.seq)
    /\ latestSequence <= newest
    /\ latestSnapshot # NoSnapshot => Stored(latestSnapshot.stream, latestSnapshot.seq)
    /\ \A t \in Tasks : Backed(pc[t], local[t])
-----------------------------------------------------------------------------
\* A labelled snapshot is at least as recent as the sample under its label.
Recent(snapshot) ==
    Labelled(snapshot) => snapshot.capture >= captureOf[snapshot.stream][snapshot.seq]

RecentInv ==
    /\ NeverOlder
    /\ latestSnapshot # NoSnapshot => Recent(latestSnapshot)
    /\ \A t \in Tasks : pc[t] # "idle" => Recent(local[t].snap)

-----------------------------------------------------------------------------
(* How far the pages of one backfill reach.                                *)

\* Rows of a page that is full.
FullPage == SafeLimit(PageSize)

\* Every page but the last is full.
PagesRead(at, l) ==
    /\ at \in {"fetched", "marker"} => l.pages = 0
    /\ at = "loop" => l.begun + l.pages * FullPage <= l.after
    /\ at \in {"paged", "insert"} /\ l.page.hasMore =>
         l.begun + (l.pages + 1) * FullPage <= l.page.last
    /\ at = "mark" /\ l.page.hasMore => l.begun + (l.pages + 1) * FullPage <= l.after

PagesReadInv == \A t \in Tasks : PagesRead(pc[t], local[t])

\* The buffer never holds more rows than one backfill may fetch.
BufferFits == newest - oldest < MaxPages * FullPage

\* The pages left are enough for the rows up to the live sequence.
PagesLeft(at, l) ==
    l.snap.stream = stream =>
        /\ at = "loop" =>
             l.pages = 0 \/ l.snap.seq <= l.after + (MaxPages - l.pages) * FullPage
        /\ at \in {"paged", "insert"} /\ l.page.hasMore =>
             l.snap.seq <= l.page.last + (MaxPages - (l.pages + 1)) * FullPage
        /\ at = "mark" /\ l.page.hasMore =>
             l.snap.seq <= l.after + (MaxPages - (l.pages + 1)) * FullPage

PagesLeftInv == \A t \in Tasks : pc[t] # "idle" => PagesLeft(pc[t], local[t])

\* No backfill of the stream that is sampled into stops at the limit of pages short
\* of the live sequence: what the loop needs.
PagesReach ==
    \A t \in Tasks :
        pc[t] = "loop" /\ local[t].pages = MaxPages /\ local[t].snap.stream = stream
            => local[t].after >= local[t].snap.seq
-----------------------------------------------------------------------------
(* One task, buffer always on: the loop on its own.                        *)

\* All that is buffered up to sequence n is in the archive.
Accounted(n) == \A q \in Sequences : Buffered(q) /\ q <= n => Kept(stream, q)

\* The live cache has nothing replay has not accounted for.
Settled ==
    /\ latestSnapshot # NoSnapshot
    /\ Labelled(latestSnapshot)
    /\ latestSnapshot.stream = stream
    => latestSnapshot.seq <= markers[stream]

\* A backfill of the stream that is current: its cursor has skipped nothing
\* and its page continues where the cursor stands.
Cursor(at, l) ==
    /\ at \in {"loop", "paged", "insert", "mark", "backfilled"} =>
         l.after <= newest /\ Accounted(l.after)
    /\ at \in {"loop", "backfilled"} => l.after <= markers[stream]
    /\ at \in {"paged", "insert"} =>
         /\ l.page.stream = stream
         /\ l.page.first <= l.page.last
         /\ l.page.first <= l.after + 1 \/ l.page.first <= oldest
         /\ ~l.page.hasMore => l.snap.seq <= l.page.last
    /\ at = "mark" /\ ~l.page.hasMore => l.snap.seq <= l.after
    /\ at = "backfilled" => l.snap.seq <= l.after

LoopControl(at, l) ==
    /\ at # "gone"
    /\ at \in Replaying \cup {"check", "decide", "write", "writeMark"} =>
         l.snap = latestSnapshot
    /\ at = "decide" => l.processed = markers[l.snap.stream]
    /\ at \in {"write", "writeMark"} /\ Labelled(l.snap) => l.snap.stream # stream
    /\ at \in Replaying /\ l.snap.stream = stream => Cursor(at, l)
    /\ at \notin Replaying /\ ~backfillError => Settled

LoopInv ==
    /\ enabled /\ historySupported # "no"
    /\ oldest <= newest \/ (oldest = 1 /\ newest = 0)
    /\ NoGap
    /\ Faithful
    /\ LoopControl(pc[Loop], local[Loop])
=============================================================================

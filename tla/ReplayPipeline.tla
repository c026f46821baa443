--------------------------- MODULE ReplayPipeline ---------------------------
(***************************************************************************)
(* Collector and monitor together: samples flow from the replay buffer on  *)
(* the Raspberry Pi into the monitor's archive.  The two share nothing but *)
(* the HTTP views, each of which is computed in one step under the         *)
(* buffer's lock; either process may stop and restart between any two      *)
(* steps of the other.                                                     *)
(***************************************************************************)
EXTENDS MonitorService

vars == <<collectorVars, monitorVars>>

\* All but the history erased, which no step reads: states that differ in it alone are
\* one to a run whose properties do not name it.
WithoutErased ==
    <<collectorVars, memoryVars, pc, local, archive, loose, markers>>

Init == CollectorInit /\ MonitorInit

Next ==
    \/ CollectorNext /\ UNCHANGED monitorVars
    \/ MonitorNext /\ UNCHANGED collectorVars

Spec == Init /\ [][Next]_vars

(***************************************************************************)
(* Fairness.  The poller and the loop never stop of themselves: both are   *)
(* while-not-stopped loops whose every exception is caught.  A call over   *)
(* the network or to the store is retried on every cycle and may fail any  *)
(* number of times, but not each time from some point on: strong fairness. *)
(* A monitor restarted for ever archives nothing; the last conjunct leaves *)
(* that case out.  Retention, purges and collector restarts stay free.     *)
(***************************************************************************)
LoopStep(A) == A /\ UNCHANGED collectorVars

Fairness ==
    /\ WF_vars(PollerStep /\ UNCHANGED monitorVars)
    /\ WF_vars(LoopStep(TaskStep(Loop)))
    /\ SF_vars(LoopStep(FetchSnapshot(Loop)))
    /\ SF_vars(LoopStep(ReadMarker(Loop)))
    /\ SF_vars(LoopStep(FetchPage(Loop)))
    /\ SF_vars(LoopStep(InsertPage(Loop)))
    /\ SF_vars(LoopStep(MarkPage(Loop)))
    /\ <>[][~RestartMonitor]_vars

FairSpec == Spec /\ Fairness

-----------------------------------------------------------------------------
\* Every variable keeps to the values the code gives it.
TypeOK == CollectorTypeOK /\ MonitorTypeOK

\* A sample the archive holds now, or held until retention or a purge took it.
Kept(s, q) == Archived(s, q) \/ <<s, q>> \in erased

\* The limit of pages ends a backfill short of the live sequence only where more
\* rows were missing than so many full pages hold, however the buffer grew, was
\* pruned or replaced meanwhile.  What it leaves then is lost to the archive, as
\* persist_once writes the live sequence as marker (service.py:323).
LimitIsForExcess ==
    \A t \in Tasks :
        pc[t] = "loop" /\ local[t].after < local[t].snap.seq /\ ~Behind(t)
            => local[t].after >= local[t].begun + MaxPages * SafeLimit(PageSize)

\* Replay leaves no gap: every sample still in the buffer at or below the
\* stored marker, which backfill will not ask for again, is in the archive.
NoGap ==
    \A q \in Sequences :
        Buffered(q) /\ q <= markers[stream] => Kept(stream, q)

\* A marker is written after the row it names: whatever failed or crashed in
\* between, it names a sample that was taken and that the archive has had.
MarkerBacked ==
    LET marker == markers[stream]
    IN  marker = 0 \/ (marker <= newest /\ Kept(stream, marker))

\* The archive holds under a sequence what the buffer holds under it: a live
\* write never takes the place of the sample it is labelled with.
Faithful ==
    \A row \in archive : row.stream = stream => row.capture = captureOf[stream][row.seq]

\* What stands under a label, live write or replay, is at least as recent as
\* the sample of that label.
NeverOlder ==
    \A row \in archive : row.capture >= captureOf[row.stream][row.seq]

\* No capture is in the archive twice, be it as two sequences, as a sequence
\* and a row without one, or as two rows without one.
CaptureRows(c) == {row \in archive : row.capture = c}

NoDuplicateRows ==
    \A c \in Captures \ {0} :
        /\ \A a, b \in CaptureRows(c) : a = b
        /\ loose[c] = 0 \/ (loose[c] = 1 /\ CaptureRows(c) = {})

\* A row once archived keeps its content for as long as it is there, whichever
\* of two tasks writes its label again.
RowsKeepContent ==
    [][\A row \in archive : \A other \in archive' :
          row.stream = other.stream /\ row.seq = other.seq => row = other]_vars

\* Every buffered sample ends up in the archive, or has left the buffer.
SamplesArrive ==
    \A q \in Sequences : Buffered(q) ~> (Kept(stream, q) \/ ~Buffered(q))

\* The pipeline as an archive of samples.
Samples == INSTANCE SampleArchive WITH
    current <- stream, first <- oldest, last <- newest,
    kept    <- {<<row.stream, row.seq>> : row \in archive},
    lost    <- erased,
    cursor  <- markers

ArchivesSamples == Samples!Spec
=============================================================================

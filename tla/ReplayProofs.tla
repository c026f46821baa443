---------------------------- MODULE ReplayProofs ----------------------------
(***************************************************************************)
(* The replay pipeline, for any number of tasks, streams, rows and polls:  *)
(*   1. its types, and that a marker never names a row the archive has not *)
(*      had, with the buffer switched on and off in any way;               *)
(*   2. replay leaves no gap and keeps what the buffer held, as long as    *)
(*      the monitor's own loop is the only task, the buffer is never       *)
(*      switched off and the buffer holds no more rows than one backfill   *)
(*      may fetch (the runs show that neither of the first two conditions  *)
(*      can be dropped);                                                   *)
(*   3. archived rows keep their content, and the loop on its own is an    *)
(*      archive of samples in the sense of SampleArchive.                  *)
(***************************************************************************)
EXTENDS ReplayInvariants, WellFoundedInduction, TLAPS

-----------------------------------------------------------------------------
(* The collector on its own: its types, and what a label and a sequence    *)
(* say about the captures behind them, for any number of polls and rows.   *)

\* Types, and the room a poll has made sure of.
CollectorTypeInv ==
    /\ CollectorTypeOK
    /\ pollerPc = "append" => newest < MaxSeq

LEMMA CollectorTypeInit == CollectorInit => CollectorTypeInv
BY StreamsAssumption, SeqAssumption, PollsAssumption, ModesAssumption
   DEF CollectorInit, CollectorTypeInv, CollectorTypeOK, Streams, Sequences, Captures

LEMMA RestartPollerType ==
    ASSUME CollectorTypeInv, NEW mode \in BufferModes, RestartPoller(mode)
    PROVE  /\ enabled' \in BOOLEAN /\ latestSequence' \in 0..MaxSeq
           /\ captured' \in Captures /\ polls' \in Captures /\ pollerPc' = "poll"
BY ModesAssumption, SeqAssumption, PollsAssumption
   DEF RestartPoller, CollectorTypeInv, CollectorTypeOK, Captures

\* No step of the collector takes its variables out of their types.
LEMMA CollectorTypeStep ==
    ASSUME CollectorTypeInv, CollectorNext
    PROVE  CollectorTypeInv'
<1> USE StreamsAssumption, SeqAssumption, PollsAssumption, ModesAssumption
        DEF CollectorTypeInv, CollectorTypeOK, Streams, Sequences, Captures
<1>1. CASE PollThenSample
  BY <1>1 DEF PollThenSample, bufferVars
<1>2. CASE PollOnly
  BY <1>2 DEF PollOnly, bufferVars
<1>3. CASE Append
  BY <1>3 DEF Append
<1>4. CASE AppendFails
  BY <1>4 DEF AppendFails, bufferVars
<1>5. CASE AppendReturns
  BY <1>5 DEF AppendReturns, bufferVars
<1>6. CASE Prune
  BY <1>6 DEF Prune
<1>7. CASE RestartCollector
  BY <1>7, RestartPollerType DEF RestartCollector, bufferVars
<1>8. CASE ReplaceBuffer
  BY <1>8, RestartPollerType DEF ReplaceBuffer
<1> QED
  BY <1>1, <1>2, <1>3, <1>4, <1>5, <1>6, <1>7, <1>8 DEF CollectorNext, PollerStep

-----------------------------------------------------------------------------
\* Which capture each part of the collector has in its hands.
LabelInv ==
    /\ captured <= polls
    /\ pollerPc \in {"append", "ack"} => captured = polls
    /\ pollerPc = "ack" => newest # 0 /\ captureOf[stream][newest] = captured
    /\ \A q \in Sequences : q <= newest => captureOf[stream][q] <= polls
    /\ pollerPc = "append" =>
         \A q \in Sequences : q <= newest => captureOf[stream][q] < captured
    /\ HistoryOneAhead
    /\ LabelNotAhead
    /\ \A p, q \in Sequences :
         p < q /\ q <= newest => captureOf[stream][p] < captureOf[stream][q]

LEMMA LabelInit == CollectorInit => LabelInv
BY SeqAssumption, PollsAssumption
   DEF CollectorInit, LabelInv, HistoryOneAhead, LabelNotAhead, Sequences, Captures

LEMMA LabelStep ==
    ASSUME CollectorTypeInv, LabelInv, CollectorNext PROVE LabelInv'
<1> USE DEF LabelInv, HistoryOneAhead, LabelNotAhead
<1>t. /\ stream \in Streams /\ newest \in Nat /\ polls \in Nat /\ captured \in Nat
      /\ latestSequence \in Nat /\ MaxSeq \in Nat /\ newest <= MaxSeq
      /\ latestSequence <= MaxSeq /\ Sequences = 1..MaxSeq
      /\ captureOf \in [Streams -> [Sequences -> Nat]]
      /\ pollerPc = "append" => newest < MaxSeq
  BY SeqAssumption, PollsAssumption
     DEF CollectorTypeInv, CollectorTypeOK, Captures, Sequences
<1>1. CASE PollThenSample
  BY <1>1, <1>t DEF PollThenSample, bufferVars
<1>2. CASE PollOnly
  BY <1>2, <1>t DEF PollOnly, bufferVars
<1>3. CASE Append
  <2>1. /\ newest' = newest + 1 /\ pollerPc' = "ack" /\ newest + 1 \in Sequences
        /\ captureOf'[stream] = [captureOf[stream] EXCEPT ![newest + 1] = captured]
        /\ UNCHANGED <<stream, latestSequence, captured, polls>>
    BY <1>3, <1>t DEF Append
  <2>2. captureOf'[stream][newest + 1] = captured
    BY <2>1, <1>t
  <2>3. \A q \in Sequences : q <= newest => captureOf'[stream][q] = captureOf[stream][q]
    BY <2>1, <1>t
  <2>4. /\ captured = polls
        /\ \A q \in Sequences : q <= newest => captureOf[stream][q] < captured
    BY <1>3 DEF Append
  <2>5. \A q \in Sequences : q <= newest + 1 => q <= newest \/ q = newest + 1
    BY <1>t
  <2>6. latestSequence # 0 => latestSequence = newest /\ latestSequence \in Sequences
    BY <1>3, <1>t DEF Append
  <2>7. HistoryOneAhead' /\ LabelNotAhead'
    <3>1. CASE latestSequence = 0
      BY <2>1, <3>1
    <3>2. CASE latestSequence # 0
      <4>1. latestSequence' = newest' - 1 /\ pollerPc' = "ack"
        BY <2>1, <2>6, <3>2, <1>t
      <4>2. captureOf'[stream'][latestSequence'] = captureOf[stream][latestSequence]
        BY <2>1, <2>3, <2>6, <3>2, <1>t
      <4> QED BY <2>1, <3>2, <4>1, <4>2
    <3> QED BY <3>1, <3>2
  <2>8. \A q \in Sequences : q <= newest' => captureOf'[stream'][q] <= polls'
    BY <2>1, <2>2, <2>3, <2>4, <2>5, <1>t
  <2>9. \A p, q \in Sequences :
           p < q /\ q <= newest' => captureOf'[stream'][p] < captureOf'[stream'][q]
    <3> SUFFICES ASSUME NEW p \in Sequences, NEW q \in Sequences, p < q, q <= newest + 1
                 PROVE  captureOf'[stream][p] < captureOf'[stream][q]
      BY <2>1
    <3>1. p <= newest
      BY <1>t
    <3> QED BY <3>1, <2>2, <2>3, <2>4, <2>5
  <2> QED BY <2>1, <2>2, <2>4, <2>7, <2>8, <2>9, <1>t
<1>4. CASE AppendFails
  BY <1>4, <1>t DEF AppendFails, bufferVars
<1>5. CASE AppendReturns
  BY <1>5, <1>t DEF AppendReturns, bufferVars
<1>6. CASE Prune
  BY <1>6, <1>t DEF Prune
<1>7. CASE RestartCollector
  BY <1>7, <1>t DEF RestartCollector, RestartPoller, bufferVars
<1>8. CASE ReplaceBuffer
  BY <1>8, <1>t DEF ReplaceBuffer, RestartPoller
<1> QED
  BY <1>1, <1>2, <1>3, <1>4, <1>5, <1>6, <1>7, <1>8 DEF CollectorNext, PollerStep

LEMMA LabelInvariant == CollectorSpec => [](CollectorTypeInv /\ LabelInv)
<1>1. CollectorTypeInv /\ LabelInv /\ [CollectorNext]_collectorVars
        => (CollectorTypeInv /\ LabelInv)'
  <2>1. CollectorTypeInv /\ LabelInv /\ CollectorNext => (CollectorTypeInv /\ LabelInv)'
    BY CollectorTypeStep, LabelStep
  <2>2. CollectorTypeInv /\ LabelInv /\ UNCHANGED collectorVars
          => (CollectorTypeInv /\ LabelInv)'
    BY DEF collectorVars, bufferVars, pollerVars, CollectorTypeInv, CollectorTypeOK,
       LabelInv, HistoryOneAhead, LabelNotAhead
  <2> QED BY <2>1, <2>2
<1> QED BY <1>1, CollectorTypeInit, LabelInit, PTL DEF CollectorSpec

\* The history view is never more than one row ahead of the live label.
THEOREM HistoryStaysClose == CollectorSpec => []HistoryOneAhead
<1>1. LabelInv => HistoryOneAhead
  BY DEF LabelInv
<1> QED BY <1>1, LabelInvariant, PTL

\* Live readings are at least as recent as the sample their label names.
THEOREM LabelsAreReached == CollectorSpec => []LabelNotAhead
<1>1. LabelInv => LabelNotAhead
  BY DEF LabelInv
<1> QED BY <1>1, LabelInvariant, PTL

\* Both of it: whatever fails, restarts or is replaced, the label on live readings
\* names a row that history has or is about to have, of a capture no newer than they.
THEOREM LabelsKeepStep == CollectorSpec => []LabelsInStep
<1>1. LabelInv => LabelsInStep
  BY DEF LabelInv, LabelsInStep
<1> QED BY <1>1, LabelInvariant, PTL

\* Sequences number the captures of a stream in order and without repeats.
THEOREM SequencesAreOrdered == CollectorSpec => []SamplesInOrder
<1>1. CollectorTypeInv /\ LabelInv => SamplesInOrder
  BY SeqAssumption
     DEF CollectorTypeInv, CollectorTypeOK, LabelInv, SamplesInOrder, Sequences
<1> QED BY <1>1, LabelInvariant, PTL
-----------------------------------------------------------------------------
(* Paging.  Followed is a recursive function; that it is the one solution  *)
(* of its equation follows from the largest cursor at which two solutions  *)
(* would differ.                                                           *)

LEMMA LeastNatural ==
    ASSUME NEW numbers \in SUBSET Nat, numbers # {}
    PROVE  \E least \in numbers : \A n \in numbers : least <= n
<1> DEFINE Less == {pair \in Nat \X Nat : pair[1] < pair[2]}
<1>1. IsWellFoundedOn(Less, Nat)
  BY NatLessThanWellFounded DEF OpToRel
<1> HIDE DEF Less
<1>2. PICK least \in numbers : \A n \in numbers : <<n, least>> \notin Less
  BY <1>1, WFMin
<1>3. \A n \in numbers : ~(n < least)
  BY <1>2 DEF Less
<1> QED BY <1>3

LEMMA SafeLimitType == \A limit \in Int : SafeLimit(limit) \in Nat /\ SafeLimit(limit) >= 1
BY DEF SafeLimit

\* One page, in terms of its bounds.
LEMMA OnePage ==
    ASSUME CollectorTypeOK, NEW limit \in Int, NEW after \in 0..MaxSeq
    PROVE  LET page == ReadAfter(after, limit)
           IN  /\ page.first \in Nat /\ page.last \in Int
               /\ page.first = (IF after < oldest THEN oldest ELSE after + 1)
               /\ page.last <= newest
               /\ page.last - page.first < SafeLimit(limit)
               /\ page.hasMore => page.last \in after + 1..MaxSeq /\ page.first <= page.last
               /\ ~page.hasMore => page.last = newest
<1> DEFINE low  == IF after < oldest THEN oldest ELSE after + 1
           high == low + SafeLimit(limit) - 1
<1>1. oldest \in Nat /\ newest \in 0..MaxSeq /\ MaxSeq \in Nat /\ after \in Nat
  BY SeqAssumption DEF CollectorTypeOK
<1>2. low \in Nat /\ low >= after + 1
  BY <1>1
<1> HIDE DEF low
<1>3. high \in Nat /\ low <= high /\ high - low < SafeLimit(limit)
  BY <1>2, SafeLimitType
<1> HIDE DEF high
<1>4. /\ ReadAfter(after, limit).first = low
      /\ ReadAfter(after, limit).last = (IF high < newest THEN high ELSE newest)
      /\ ReadAfter(after, limit).hasMore = (high < newest)
  BY DEF ReadAfter, low, high
<1>5. /\ (IF high < newest THEN high ELSE newest) \in Int
      /\ (IF high < newest THEN high ELSE newest) <= newest
      /\ (IF high < newest THEN high ELSE newest) - low < SafeLimit(limit)
      /\ high < newest => high \in after + 1..MaxSeq /\ low <= high
  BY <1>1, <1>2, <1>3, SafeLimitType
<1>6. low = (IF after < oldest THEN oldest ELSE after + 1)
  BY DEF low
<1> QED BY <1>2, <1>4, <1>5, <1>6

\* The rows above a cursor.
Above(after) == {q \in Sequences : q > after /\ Buffered(q)}

\* A page and what is above its end, if there is more, is all that is above its start.
LEMMA PageAndRest ==
    ASSUME CollectorTypeOK, NEW limit \in Int, NEW after \in 0..MaxSeq
    PROVE  LET page == ReadAfter(after, limit)
           IN  (page.first..page.last) \cup (IF page.hasMore THEN Above(page.last) ELSE {})
                 = Above(after)
<1> DEFINE page == ReadAfter(after, limit)
<1>1. /\ oldest \in Nat \ {0} /\ newest \in 0..MaxSeq /\ MaxSeq \in Nat /\ after \in Nat
      /\ Sequences = 1..MaxSeq
  BY SeqAssumption DEF CollectorTypeOK, Sequences
<1>2. /\ page.first \in Nat /\ page.last \in Int
      /\ page.first = (IF after < oldest THEN oldest ELSE after + 1)
      /\ page.last <= newest
      /\ page.hasMore => page.last \in after + 1..MaxSeq /\ page.first <= page.last
      /\ ~page.hasMore => page.last = newest
  BY OnePage
<1> HIDE DEF page
<1>3. page.first..page.last \subseteq Above(after)
  BY <1>1, <1>2 DEF Above, Buffered
<1>4. CASE page.hasMore
  <2>1. Above(page.last) \subseteq Above(after)
    BY <1>1, <1>2, <1>4 DEF Above, Buffered
  <2>2. ASSUME NEW q \in Above(after), q \notin page.first..page.last
        PROVE  q \in Above(page.last)
    BY <2>2, <1>1, <1>2, <1>4 DEF Above, Buffered
  <2> QED BY <1>3, <1>4, <2>1, <2>2 DEF page
<1>5. CASE ~page.hasMore
  <2>1. Above(after) \subseteq page.first..page.last
    BY <1>1, <1>2, <1>5 DEF Above, Buffered
  <2> QED BY <1>3, <1>5, <2>1 DEF page
<1> QED BY <1>4, <1>5

\* The recursion of Followed, for a candidate solution.
FollowedOnce(limit, rows) ==
    [a \in 0..MaxSeq |->
        LET page == ReadAfter(a, limit)
        IN  (page.first..page.last) \cup (IF page.hasMore THEN rows[page.last] ELSE {})]

LEMMA FollowedIsAbove ==
    ASSUME CollectorTypeOK, NEW limit \in Int, NEW after \in 0..MaxSeq
    PROVE  Followed(after, limit) = Above(after)
<1> DEFINE above == [a \in 0..MaxSeq |-> Above(a)]
<1>n. MaxSeq \in Nat
  BY SeqAssumption
<1>1. Followed(after, limit) =
        (CHOOSE rows : rows = FollowedOnce(limit, rows))[after]
  BY DEF Followed, FollowedOnce
<1>p. \A a \in 0..MaxSeq : ReadAfter(a, limit).hasMore =>
         ReadAfter(a, limit).last \in a + 1..MaxSeq
  BY OnePage
<1>2. above = FollowedOnce(limit, above)
  <2>1. ASSUME NEW a \in 0..MaxSeq
        PROVE  FollowedOnce(limit, above)[a] = Above(a)
    <3>1. ReadAfter(a, limit).hasMore => ReadAfter(a, limit).last \in 0..MaxSeq
      BY <1>p, <1>n
    <3>2. ReadAfter(a, limit).hasMore =>
             above[ReadAfter(a, limit).last] = Above(ReadAfter(a, limit).last)
      BY <3>1
    <3> QED BY <3>2, PageAndRest DEF FollowedOnce
  <2> QED BY <2>1 DEF FollowedOnce
<1>3. ASSUME NEW rows, rows = FollowedOnce(limit, rows)
      PROVE  \A a \in 0..MaxSeq : rows[a] = Above(a)
  <2> DEFINE wrong == {n \in Nat : MaxSeq - n \in 0..MaxSeq /\ rows[MaxSeq - n] # Above(MaxSeq - n)}
  <2>1. wrong = {}
    <3> SUFFICES ASSUME wrong # {} PROVE FALSE
      OBVIOUS
    <3>1. PICK least \in wrong : \A n \in wrong : least <= n
      BY LeastNatural
    <3> DEFINE a    == MaxSeq - least
               page == ReadAfter(a, limit)
    <3>2. a \in 0..MaxSeq /\ rows[a] # Above(a)
      BY <3>1
    <3>3. ASSUME NEW b \in a + 1..MaxSeq PROVE rows[b] = Above(b)
      <4>1. MaxSeq - b \in Nat /\ MaxSeq - b < least /\ MaxSeq - (MaxSeq - b) = b
            /\ b \in 0..MaxSeq
        BY <3>1, <1>n
      <4>2. MaxSeq - b \notin wrong
        BY <4>1, <3>1, <1>n
      <4> QED BY <4>1, <4>2
    <3> HIDE DEF wrong, a
    <3>4. rows[a] = (page.first..page.last) \cup (IF page.hasMore THEN rows[page.last] ELSE {})
      BY <1>3, <3>2 DEF FollowedOnce
    <3>5. page.hasMore => rows[page.last] = Above(page.last)
      BY <3>2, <3>3, <1>p
    <3> QED BY <3>2, <3>4, <3>5, PageAndRest
  <2> SUFFICES ASSUME NEW a \in 0..MaxSeq, rows[a] # Above(a) PROVE FALSE
    OBVIOUS
  <2>2. MaxSeq - a \in Nat /\ MaxSeq - (MaxSeq - a) = a
    BY <1>n
  <2>3. MaxSeq - a \in wrong
    BY <2>2
  <2> QED BY <2>1, <2>3
<1> DEFINE solution == CHOOSE rows : rows = FollowedOnce(limit, rows)
<1>4. solution = FollowedOnce(limit, solution)
  BY <1>2
<1> HIDE DEF solution
<1>5. solution[after] = Above(after)
  BY <1>3, <1>4
<1> QED BY <1>1, <1>5 DEF solution

\* Following has_more from any cursor delivers every buffered row above it and no other.
THEOREM PagesDeliverTheBuffer == CollectorSpec => []PagesCoverBuffer
<1>1. CollectorTypeInv => PagesCoverBuffer
  <2> SUFFICES ASSUME CollectorTypeOK, NEW after \in 0..MaxSeq,
                      NEW limit \in {0, 1, 2, 2001}
               PROVE  LET page == ReadAfter(after, limit)
                      IN  /\ Followed(after, limit) = Above(after)
                          /\ page.last - page.first < SafeLimit(limit)
    BY DEF CollectorTypeInv, PagesCoverBuffer, Above
  <2>1. limit \in Int
    OBVIOUS
  <2> QED BY <2>1, OnePage, FollowedIsAbove
<1> QED BY <1>1, LabelInvariant, PTL

-----------------------------------------------------------------------------
(* Types.                                                                  *)

\* What a coroutine's step leaves behind is well typed when its next position
\* and locals are: the other tasks have not moved.
LEMMA GoType ==
    ASSUME TypeInv, NEW t \in Tasks, NEW next \in Steps, NEW locals \in Locals,
           Control(next, locals), Go(t, next, locals)
    PROVE  /\ pc' \in [Tasks -> Steps]
           /\ local' \in [Tasks -> Locals]
           /\ \A u \in Tasks : Control(pc'[u], local'[u])
<1>1. pc \in [Tasks -> Steps] /\ local \in [Tasks -> Locals]
  BY DEF TypeInv, TypeOK, MonitorTypeOK
<1>2. pc' \in [Tasks -> Steps] /\ local' \in [Tasks -> Locals]
  BY <1>1 DEF Go
<1>3. ASSUME NEW u \in Tasks PROVE Control(pc'[u], local'[u])
  <2>1. CASE u = t
    BY <1>1, <2>1 DEF Go
  <2>2. CASE u # t
    <3>1. pc'[u] = pc[u] /\ local'[u] = local[u]
      BY <1>1, <2>2 DEF Go
    <3> QED BY <3>1 DEF TypeInv
  <2> QED BY <2>1, <2>2
<1> QED BY <1>2, <1>3

LEMMA FreshType == Fresh \in Locals /\ Control("idle", Fresh)
BY PageAssumption, SeqAssumption, StreamsAssumption
   DEF Fresh, Locals, NoPage, Pages, Control, Replaying

\* Going to rest is a well-typed step.
LEMMA RestType ==
    ASSUME TypeInv, NEW t \in Tasks, Rest(t)
    PROVE  /\ pc' \in [Tasks -> Steps]
           /\ local' \in [Tasks -> Locals]
           /\ \A u \in Tasks : Control(pc'[u], local'[u])
<1>1. "idle" \in Steps
  BY DEF Steps
<1> QED BY <1>1, FreshType, GoType DEF Rest

\* So is the start of persist_once on any snapshot.
LEMMA BeginPersistType ==
    ASSUME TypeInv, NEW t \in Tasks, NEW latest \in Snapshots \cup {NoSnapshot},
           NEW history, BeginPersist(t, latest, history)
    PROVE  /\ pc' \in [Tasks -> Steps]
           /\ local' \in [Tasks -> Locals]
           /\ \A u \in Tasks : Control(pc'[u], local'[u])
<1>1. CASE Rest(t)
  BY <1>1, RestType
<1>2. CASE ~Rest(t)
  <2> DEFINE next == IF Labelled(latest) /\ history # "no" THEN "check" ELSE "write"
             locals == [Fresh EXCEPT !.snap = latest]
  <2>1. latest \in Snapshots /\ Go(t, next, locals)
    BY <1>2 DEF BeginPersist
  <2>2. locals \in Locals /\ locals.snap = latest
    BY <2>1, FreshType DEF Locals
  <2>3. next \in Steps
    BY DEF Steps
  <2>4. Control(next, locals)
    BY <2>1, <2>2 DEF Control, Replaying
  <2> QED BY <2>1, <2>2, <2>3, <2>4, GoType
<1> QED BY <1>1, <1>2

LEMMA TypeInit == Init => TypeInv
<1> SUFFICES ASSUME Init PROVE TypeInv
  OBVIOUS
<1>1. CollectorTypeOK /\ pollerPc # "append"
  BY StreamsAssumption, SeqAssumption, PollsAssumption, ModesAssumption
     DEF Init, CollectorInit, CollectorTypeOK, Streams, Sequences, Captures
<1>2. "idle" \in Steps
  BY DEF Steps
<1>3. MonitorTypeOK
  <2>1. markers \in [Streams -> 0..MaxSeq] /\ loose \in [Captures -> 0..LooseCap]
    BY SeqAssumption, LooseAssumption DEF Init, MonitorInit
  <2>2. pc \in [Tasks -> Steps] /\ local \in [Tasks -> Locals]
    BY <1>2, FreshType DEF Init, MonitorInit
  <2> QED BY <2>1, <2>2 DEF Init, MonitorInit, MonitorTypeOK
<1>4. \A t \in Tasks : Control(pc[t], local[t])
  BY FreshType DEF Init, MonitorInit
<1> QED BY <1>1, <1>3, <1>4 DEF TypeInv, TypeOK

-----------------------------------------------------------------------------
(* The monitor.                                                            *)

\* A step that moves one task and leaves the store alone, once its memory is
\* known to be well typed.
MemoryOK ==
    /\ latestSnapshot \in Snapshots \cup {NoSnapshot}
    /\ historySupported \in {"unknown", "yes", "no"}
    /\ backfillError \in BOOLEAN

StoreOK ==
    /\ archive \subseteq Rows
    /\ loose \in [Captures -> 0..LooseCap]
    /\ markers \in [Streams -> 0..MaxSeq]
    /\ erased \subseteq Streams \X Sequences

TasksOK ==
    /\ pc \in [Tasks -> Steps]
    /\ local \in [Tasks -> Locals]
    /\ \A t \in Tasks : Control(pc[t], local[t])

\* Every task of a well-typed state.
LEMMA TaskFacts ==
    ASSUME TypeInv, NEW t \in Tasks
    PROVE  local[t] \in Locals /\ pc[t] \in Steps /\ Control(pc[t], local[t])
BY DEF TypeInv, TypeOK, MonitorTypeOK

LEMMA SameMemory == ASSUME TypeInv, UNCHANGED memoryVars PROVE MemoryOK'
BY DEF TypeInv, TypeOK, MonitorTypeOK, MemoryOK, memoryVars

LEMMA SameStore == ASSUME TypeInv, UNCHANGED storeVars PROVE StoreOK'
BY DEF TypeInv, TypeOK, MonitorTypeOK, StoreOK, storeVars

\* /api/readings serves a well-formed snapshot and history a well-formed page.
LEMMA ReadingsType == TypeInv => Readings \in Snapshots
BY StreamsAssumption
   DEF TypeInv, TypeOK, CollectorTypeOK, Readings, Snapshots, Streams

LEMMA PageType ==
    ASSUME TypeInv, NEW after \in 0..MaxSeq
    PROVE  /\ ReadAfter(after, PageSize) \in Pages
           /\ ReadAfter(after, PageSize).stream \in Streams
<1> DEFINE page == ReadAfter(after, PageSize)
<1>1. stream \in 1..MaxStreams /\ oldest \in 1..MaxSeq + 1 /\ newest \in 0..MaxSeq
  BY DEF TypeInv, TypeOK, CollectorTypeOK, Streams
<1>2. SafeLimit(PageSize) \in Nat \ {0}
  BY PageAssumption DEF SafeLimit
<1>3. /\ page.stream = stream
      /\ page.first \in 1..MaxSeq + 1
      /\ page.last \in 0..MaxSeq
      /\ page.hasMore \in BOOLEAN
  <2> DEFINE low  == IF after < oldest THEN oldest ELSE after + 1
             high == low + SafeLimit(PageSize) - 1
  <2>1. low \in 1..MaxSeq + 1
    BY <1>1, SeqAssumption
  <2> HIDE DEF low
  <2>2. high \in Nat
    BY <2>1, <1>2, SeqAssumption
  <2>3. (IF high < newest THEN high ELSE newest) \in 0..MaxSeq
    BY <2>2, <1>1, SeqAssumption
  <2> HIDE DEF high
  <2>4. /\ page.stream = stream /\ page.first = low
        /\ page.last = (IF high < newest THEN high ELSE newest)
        /\ page.hasMore = (high < newest)
    BY DEF ReadAfter, high, low
  <2> QED BY <2>1, <2>3, <2>4
<1>4. page = [stream |-> page.stream, first |-> page.first, last |-> page.last,
              hasMore |-> page.hasMore]
  BY DEF ReadAfter
<1> QED BY <1>1, <1>3, <1>4, StreamsAssumption DEF Pages, Streams

\* A page or any part of it yields well-formed rows.
LEMMA PageRowsType ==
    ASSUME TypeInv, NEW page \in Pages, page.stream \in Streams,
           NEW last \in 0..MaxSeq
    PROVE  PageRows(page, last) \subseteq Rows
BY SeqAssumption
   DEF PageRows, Rows, Pages, Sequences, TypeInv, TypeOK, CollectorTypeOK

LEMMA InsertType ==
    ASSUME TypeInv, NEW rows \in SUBSET Rows, Insert(rows)
    PROVE  archive' \subseteq Rows
BY DEF Insert, TypeInv, TypeOK, MonitorTypeOK

\* Every task's step keeps the monitor well typed.
LEMMA TaskTypeStep ==
    ASSUME TypeInv, NEW t \in Tasks, TaskStep(t), UNCHANGED collectorVars
    PROVE  MemoryOK' /\ StoreOK' /\ TasksOK'
<1> DEFINE l == local[t]
<1>l. l \in Locals /\ pc[t] \in Steps /\ Control(pc[t], l)
  BY TaskFacts
<1>m. MemoryOK
  BY DEF TypeInv, TypeOK, MonitorTypeOK, MemoryOK
<1>s. StoreOK
  BY DEF TypeInv, TypeOK, MonitorTypeOK, StoreOK
<1>r. ASSUME Rest(t) PROVE TasksOK'
  BY <1>r, RestType DEF TasksOK
<1>g. ASSUME NEW next \in Steps, NEW locals \in Locals, Control(next, locals),
             Go(t, next, locals)
      PROVE  TasksOK'
  BY <1>g, GoType DEF TasksOK
<1>p. ASSUME NEW latest \in Snapshots \cup {NoSnapshot}, NEW history,
             BeginPersist(t, latest, history)
      PROVE  TasksOK'
  BY <1>p, BeginPersistType DEF TasksOK
<1> HIDE DEF l
<1>1. CASE FetchSnapshot(t)
  <2> DEFINE locals == [Fresh EXCEPT !.snap = Readings]
  <2>1. locals \in Locals /\ Control("fetched", locals)
    BY FreshType, ReadingsType DEF Locals, Control, Replaying
  <2>2. "fetched" \in Steps /\ Go(t, "fetched", locals)
    BY <1>1 DEF Steps, FetchSnapshot
  <2>3. TasksOK'
    BY <2>1, <2>2, <1>g
  <2> QED BY <2>3, <1>1, SameMemory, SameStore DEF FetchSnapshot
<1>2. CASE Receive(t)
  <2>1. l.snap \in Snapshots
    BY <1>2, <1>l DEF Receive, Control
  <2>2. MemoryOK' /\ StoreOK'
    BY <1>2, <2>1, <1>m, SameStore DEF Receive, MemoryOK, l
  <2>3. Labelled(l.snap) => Control("marker", l)
    BY <2>1 DEF Control, Replaying
  <2>4. "marker" \in Steps
    BY DEF Steps
  <2>5. \/ \E history : BeginPersist(t, l.snap, history)
        \/ Labelled(l.snap) /\ Go(t, "marker", l)
    BY <1>2 DEF Receive, l
  <2>6. TasksOK'
    BY <2>1, <2>3, <2>4, <2>5, <1>l, <1>g, <1>p
  <2> QED BY <2>2, <2>6
<1>3. CASE ReadMarker(t)
  <2> DEFINE marker == markers[l.snap.stream]
             start  == IF marker > l.snap.seq THEN 0 ELSE marker
             locals == [l EXCEPT !.after = start, !.begun = start]
  <2>1. l.snap \in Snapshots /\ Labelled(l.snap)
    BY <1>3, <1>l DEF ReadMarker, Control, Replaying
  <2>2. start \in 0..MaxSeq
    BY <2>1, <1>s, SeqAssumption DEF StoreOK, Snapshots, Labelled, Streams
  <2>3. locals \in Locals /\ locals.snap = l.snap
    BY <2>2, <1>l DEF Locals
  <2>4. "loop" \in Steps /\ Control("loop", locals)
    BY <2>1, <2>3 DEF Steps, Control, Replaying
  <2>5. Go(t, "loop", locals)
    BY <1>3 DEF ReadMarker, l
  <2>6. TasksOK'
    BY <2>3, <2>4, <2>5, <1>g
  <2> QED BY <2>6, <1>3, SameMemory, SameStore DEF ReadMarker
<1>4. CASE FetchPage(t)
  <2> DEFINE page   == ReadAfter(l.after, PageSize)
             locals == [l EXCEPT !.page = page]
  <2>1. l.snap \in Snapshots /\ Labelled(l.snap) /\ l.after \in 0..MaxSeq
        /\ l.pages < MaxPages
    BY <1>4, <1>l DEF FetchPage, Behind, Control, Replaying, Locals, l
  <2>2. page \in Pages /\ page.stream \in Streams
    BY <2>1, PageType
  <2> HIDE DEF page
  <2>3. locals \in Locals /\ locals.snap = l.snap /\ locals.pages = l.pages
        /\ locals.page = page
    BY <2>2, <1>l DEF Locals
  <2>4. /\ "paged" \in Steps /\ Control("paged", locals)
        /\ "gone" \in Steps /\ Control("gone", l)
    BY <2>1, <2>2, <2>3 DEF Steps, Control, Replaying
  <2>5. Go(t, "paged", locals) \/ Go(t, "gone", l)
    BY <1>4 DEF FetchPage, l, page
  <2>6. TasksOK'
    BY <2>3, <2>4, <2>5, <1>l, <1>g
  <2> QED BY <2>6, <1>4, SameMemory, SameStore DEF FetchPage
<1>5. CASE HistoryGone(t)
  <2>1. TasksOK'
    BY <1>5, <1>p, <1>m DEF HistoryGone, MemoryOK
  <2> QED BY <2>1, <1>5, <1>m, SameStore DEF HistoryGone, MemoryOK
<1>6. CASE ReceivePage(t)
  <2>1. CASE l.page.first <= l.page.last
    <3>1. "insert" \in Steps /\ Control("insert", l)
      BY <2>1, <1>6, <1>l DEF Steps, ReceivePage, Control, Replaying
    <3>2. Go(t, "insert", l) /\ UNCHANGED <<backfillError, latestSnapshot>>
          /\ historySupported' = "yes" /\ UNCHANGED storeVars
      BY <2>1, <1>6 DEF ReceivePage, l
    <3> QED BY <3>1, <3>2, <1>l, <1>g, <1>m, SameStore DEF MemoryOK
  <2>2. CASE ~(l.page.first <= l.page.last)
    <3>1. BeginPersist(t, latestSnapshot, "yes") /\ backfillError' = FALSE
          /\ historySupported' = "yes" /\ UNCHANGED latestSnapshot
          /\ UNCHANGED storeVars
      BY <2>2, <1>6 DEF ReceivePage, l
    <3> QED BY <3>1, <1>p, <1>m, SameStore DEF MemoryOK
  <2> QED BY <2>1, <2>2
<1>7. CASE InsertPage(t)
  <2> DEFINE page   == l.page
             locals == [l EXCEPT !.after = page.last]
  <2>1. /\ l.snap \in Snapshots /\ Labelled(l.snap) /\ l.pages < MaxPages
        /\ page \in Pages /\ page.stream \in Streams /\ page.last \in 0..MaxSeq
    BY <1>7, <1>l DEF InsertPage, Control, Replaying, Locals, Pages
  <2>2. archive' \subseteq Rows
    BY <2>1, <1>7, PageRowsType, InsertType DEF InsertPage, l
  <2>3. locals \in Locals /\ locals.snap = l.snap /\ locals.pages = l.pages
    BY <2>1, <1>l DEF Locals
  <2>4. "mark" \in Steps /\ Control("mark", locals)
    BY <2>1, <2>3 DEF Steps, Control, Replaying
  <2>5. Go(t, "mark", locals)
    BY <1>7 DEF InsertPage, l
  <2>6. TasksOK'
    BY <2>3, <2>4, <2>5, <1>g
  <2> QED BY <2>2, <2>6, <1>7, <1>s, SameMemory DEF InsertPage, StoreOK
<1>8. CASE MarkPage(t)
  <2> DEFINE locals == [l EXCEPT !.pages = @ + 1, !.page = NoPage]
             next   == IF l.page.hasMore THEN "loop" ELSE "backfilled"
  <2>1. l.snap \in Snapshots /\ Labelled(l.snap) /\ l.pages < MaxPages
        /\ l.after \in 0..MaxSeq
    BY <1>8, <1>l DEF MarkPage, Control, Replaying, Locals
  <2>2. locals \in Locals /\ locals.snap = l.snap
    <3>1. NoPage \in Pages
      BY SeqAssumption, StreamsAssumption DEF NoPage, Pages
    <3>2. l.pages + 1 \in 0..MaxPages
      BY <2>1, <1>l, PageAssumption DEF Locals
    <3> QED BY <3>1, <3>2, <1>l DEF Locals
  <2>3. next \in Steps /\ Control(next, locals)
    BY <2>1, <2>2 DEF Steps, Control, Replaying
  <2>4. Go(t, next, locals)
    BY <1>8 DEF MarkPage, l
  <2>5. TasksOK'
    BY <2>2, <2>3, <2>4, <1>g
  <2>6. markers' \in [Streams -> 0..MaxSeq]
    BY <2>1, <1>8, <1>s DEF MarkPage, StoreOK, l
  <2> QED BY <2>5, <2>6, <1>8, <1>s, SameMemory DEF MarkPage, StoreOK
<1>9. CASE EndBackfill(t)
  <2>1. TasksOK'
    BY <1>9, <1>p, <1>m DEF EndBackfill, MemoryOK
  <2> QED BY <2>1, <1>9, <1>m, SameStore DEF EndBackfill, MemoryOK
<1>10. CASE BackfillFails(t)
  <2>1. TasksOK'
    BY <1>10, <1>p, <1>m DEF BackfillFails, MemoryOK
  <2> QED BY <2>1, <1>10, <1>m, SameStore DEF BackfillFails, MemoryOK
<1>11. CASE InsertPageFails(t)
  <2>1. TasksOK'
    BY <1>11, <1>p, <1>m DEF InsertPageFails, MemoryOK
  <2>2. /\ l.page \in Pages /\ l.page.stream \in Streams
        /\ l.page.first..l.page.last \subseteq 0..MaxSeq
    BY <1>11, <1>l, SeqAssumption DEF InsertPageFails, Control, Locals, Pages
  <2>3. PICK last \in l.page.first..l.page.last : Insert(PageRows(l.page, last))
    BY <1>11 DEF InsertPageFails, l
  <2>4. archive' \subseteq Rows
    BY <2>2, <2>3, PageRowsType, InsertType
  <2> QED BY <2>1, <2>4, <1>11, <1>m, <1>s DEF InsertPageFails, MemoryOK, StoreOK
<1>12. CASE CheckMarker(t)
  <2> DEFINE locals == [l EXCEPT !.processed = markers[l.snap.stream]]
  <2>1. l.snap \in Snapshots /\ Labelled(l.snap)
    BY <1>12, <1>l DEF CheckMarker, Control
  <2>2. markers[l.snap.stream] \in 0..MaxSeq
    BY <2>1, <1>s DEF StoreOK, Snapshots, Labelled, Streams
  <2>3. locals \in Locals /\ locals.snap = l.snap
    BY <2>2, <1>l DEF Locals
  <2>4. "decide" \in Steps /\ Control("decide", locals)
    BY <2>1, <2>3 DEF Steps, Control, Replaying
  <2>5. Go(t, "decide", locals)
    BY <1>12 DEF CheckMarker, l
  <2>6. TasksOK'
    BY <2>3, <2>4, <2>5, <1>g
  <2> QED BY <2>6, <1>12, SameMemory, SameStore DEF CheckMarker
<1>13. CASE Decide(t)
  <2> DEFINE locals == [l EXCEPT !.processed = 0]
  <2>1. l.snap \in Snapshots
    BY <1>13, <1>l DEF Decide, Control
  <2>2. locals \in Locals /\ locals.snap = l.snap
    BY <1>l, SeqAssumption DEF Locals
  <2>3. "write" \in Steps /\ Control("write", locals)
    BY <2>1, <2>2 DEF Steps, Control, Replaying
  <2>4. Rest(t) \/ Go(t, "write", locals)
    BY <1>13 DEF Decide, l
  <2>5. TasksOK'
    BY <2>2, <2>3, <2>4, <1>g, <1>r
  <2> QED BY <2>5, <1>13, SameMemory, SameStore DEF Decide
<1>i. ASSUME pc[t] = "write", InsertLive(l.snap)
      PROVE  archive' \subseteq Rows /\ loose' \in [Captures -> 0..LooseCap]
  <2>1. l.snap \in Snapshots
    BY <1>i, <1>l DEF Control
  <2>2. CASE Labelled(l.snap)
    <3>1. {l.snap} \subseteq Rows
      BY <2>1, <2>2 DEF Snapshots, Rows, Labelled, Streams, Sequences
    <3> QED BY <3>1, <2>2, <1>i, <1>s, InsertType DEF InsertLive, StoreOK
  <2>3. CASE ~Labelled(l.snap)
    BY <2>3, <1>i, <1>s, LooseAssumption DEF InsertLive, StoreOK
  <2> QED BY <2>2, <2>3
<1>14. CASE WriteLive(t)
  <2>1. l.snap \in Snapshots
    BY <1>14, <1>l DEF WriteLive, Control
  <2>2. "writeMark" \in Steps /\ (Labelled(l.snap) => Control("writeMark", l))
    BY <2>1 DEF Steps, Control, Replaying
  <2>3. Rest(t) \/ (Labelled(l.snap) /\ Go(t, "writeMark", l))
    BY <1>14 DEF WriteLive, l
  <2>4. TasksOK'
    BY <2>2, <2>3, <1>l, <1>g, <1>r
  <2>5. archive' \subseteq Rows /\ loose' \in [Captures -> 0..LooseCap]
    BY <1>14, <1>i DEF WriteLive, l
  <2> QED BY <2>4, <2>5, <1>14, <1>s, SameMemory DEF WriteLive, StoreOK
<1>15. CASE WriteLiveFails(t)
  <2>1. archive' \subseteq Rows /\ loose' \in [Captures -> 0..LooseCap]
    BY <1>15, <1>i DEF WriteLiveFails, l
  <2> QED BY <2>1, <1>15, <1>r, <1>s, SameMemory DEF WriteLiveFails, StoreOK
<1>16. CASE MarkLive(t)
  <2>1. l.snap \in Snapshots /\ Labelled(l.snap)
    BY <1>16, <1>l DEF MarkLive, Control
  <2>2. markers' \in [Streams -> 0..MaxSeq]
    BY <2>1, <1>16, <1>s DEF MarkLive, StoreOK, Snapshots, l
  <2> QED BY <2>2, <1>16, <1>r, <1>s, SameMemory DEF MarkLive, StoreOK
<1>17. CASE PersistFails(t)
  BY <1>17, <1>r, SameMemory, SameStore DEF PersistFails
<1> QED
  BY <1>1, <1>2, <1>3, <1>4, <1>5, <1>6, <1>7, <1>8, <1>9, <1>10, <1>11, <1>12,
     <1>13, <1>14, <1>15, <1>16, <1>17
     DEF TaskStep, PollTask, BackfillTask, PersistTask

\* So do the failed poll, retention, purge and restart.
LEMMA MonitorTypeStep ==
    ASSUME TypeInv, MonitorNext, UNCHANGED collectorVars
    PROVE  MemoryOK' /\ StoreOK' /\ TasksOK'
<1>m. MemoryOK
  BY DEF TypeInv, TypeOK, MonitorTypeOK, MemoryOK
<1>s. StoreOK
  BY DEF TypeInv, TypeOK, MonitorTypeOK, StoreOK
<1>t. TasksOK
  BY DEF TypeInv, TypeOK, MonitorTypeOK, TasksOK
<1>e. ASSUME NEW rows \in SUBSET Rows, Erase(rows)
      PROVE  archive' \subseteq Rows /\ erased' \subseteq Streams \X Sequences
  BY <1>e, <1>s DEF Erase, StoreOK, Rows
<1>1. CASE \E t \in Tasks : TaskStep(t)
  BY <1>1, TaskTypeStep
<1>2. CASE FetchSnapshotFails
  BY <1>2, <1>m, TasksAssumption, BeginPersistType, SameMemory, SameStore
     DEF FetchSnapshotFails, TasksOK, MemoryOK
<1>3. CASE PruneArchive
  <2>1. PICK cutoff \in 1..MaxPolls :
           /\ Erase({row \in archive : row.capture < cutoff})
           /\ loose' = [c \in Captures |-> IF c < cutoff THEN 0 ELSE loose[c]]
    BY <1>3 DEF PruneArchive
  <2>2. {row \in archive : row.capture < cutoff} \subseteq Rows
    BY <1>s DEF StoreOK
  <2>3. loose' \in [Captures -> 0..LooseCap]
    BY <2>1, <1>s, LooseAssumption DEF StoreOK
  <2>4. archive' \subseteq Rows /\ erased' \subseteq Streams \X Sequences
    BY <2>1, <2>2, <1>e
  <2> QED
    BY <2>3, <2>4, <1>3, <1>s, <1>t, SameMemory DEF PruneArchive, StoreOK, TasksOK
<1>4. CASE PurgeAll
  <2>1. archive \subseteq Rows
    BY <1>s DEF StoreOK
  <2>2. loose' \in [Captures -> 0..LooseCap]
    BY <1>4, LooseAssumption DEF PurgeAll
  <2>3. archive' \subseteq Rows /\ erased' \subseteq Streams \X Sequences
    BY <2>1, <1>4, <1>e DEF PurgeAll
  <2> QED
    BY <2>2, <2>3, <1>4, <1>s, <1>t, SameMemory DEF PurgeAll, StoreOK, TasksOK
<1>5. CASE RestartMonitor
  <2>1. TasksOK'
    BY <1>5, FreshType DEF RestartMonitor, TasksOK, Steps
  <2> QED BY <2>1, <1>5, SameStore DEF RestartMonitor, MemoryOK
<1> QED BY <1>1, <1>2, <1>3, <1>4, <1>5 DEF MonitorNext

-----------------------------------------------------------------------------
LEMMA TypeStep == TypeInv /\ [Next]_vars => TypeInv'
<1> SUFFICES ASSUME TypeInv, [Next]_vars PROVE TypeInv'
  OBVIOUS
<1>1. CASE CollectorNext /\ UNCHANGED monitorVars
  <2>1. CollectorTypeInv'
    BY <1>1, CollectorTypeStep DEF TypeInv, TypeOK, CollectorTypeInv
  <2>2. MonitorTypeOK' /\ \A t \in Tasks : Control(pc'[t], local'[t])
    BY <1>1 DEF TypeInv, TypeOK, MonitorTypeOK, monitorVars, memoryVars, storeVars
  <2> QED BY <2>1, <2>2 DEF TypeInv, TypeOK, CollectorTypeInv
<1>2. CASE MonitorNext /\ UNCHANGED collectorVars
  <2>1. CollectorTypeOK' /\ (pollerPc' = "append" => newest' < MaxSeq)
    BY <1>2 DEF TypeInv, TypeOK, CollectorTypeOK, collectorVars, bufferVars, pollerVars
  <2>2. MonitorTypeOK' /\ \A t \in Tasks : Control(pc'[t], local'[t])
    BY <1>2, MonitorTypeStep DEF MonitorTypeOK, MemoryOK, StoreOK, TasksOK
  <2> QED BY <2>1, <2>2 DEF TypeInv, TypeOK
<1>3. CASE UNCHANGED vars
  BY <1>3 DEF vars, TypeInv, TypeOK, MonitorTypeOK, monitorVars, memoryVars, storeVars,
     CollectorTypeOK, collectorVars, bufferVars, pollerVars
<1> QED BY <1>1, <1>2, <1>3 DEF Next

\* Every variable keeps its type and every task's locals fit its position,
\* however many tasks, streams, rows and polls there are.
THEOREM TypeInvariant == Spec => []TypeInv
<1> QED BY TypeInit, TypeStep, PTL DEF Spec

\* In particular the type invariant the runs check.
THEOREM TypeCorrect == Spec => []TypeOK
<1>1. TypeInv => TypeOK
  BY DEF TypeInv
<1> QED BY <1>1, TypeInvariant, PTL

-----------------------------------------------------------------------------
(* Markers.                                                                *)

\* The collector only moves on: the stream grows or a new one begins.
Grows ==
    \/ stream' = stream /\ newest <= newest' /\ latestSequence' <= newest'
    \/ stream' = stream + 1 /\ newest' = 0 /\ latestSequence' = 0

LEMMA CollectorGrows ==
    ASSUME TypeInv, BackedInv, CollectorNext
    PROVE  Grows
<1> USE DEF TypeInv, TypeOK, CollectorTypeOK, Streams, Sequences, Grows
<1>t. stream \in Nat /\ newest \in Nat /\ latestSequence \in Nat /\ latestSequence <= newest
  BY StreamsAssumption, SeqAssumption DEF BackedInv
<1>1. CASE PollThenSample
  BY <1>1, <1>t DEF PollThenSample, bufferVars
<1>2. CASE PollOnly
  BY <1>2, <1>t DEF PollOnly, bufferVars
<1>3. CASE Append
  BY <1>3, <1>t DEF Append
<1>4. CASE AppendFails
  BY <1>4, <1>t DEF AppendFails, bufferVars
<1>5. CASE AppendReturns
  BY <1>5, <1>t DEF AppendReturns, bufferVars
<1>6. CASE Prune
  BY <1>6, <1>t DEF Prune
<1>7. CASE RestartCollector
  BY <1>7, <1>t DEF RestartCollector, RestartPoller, bufferVars
<1>8. CASE ReplaceBuffer
  BY <1>8, <1>t DEF ReplaceBuffer, RestartPoller
<1> QED
  BY <1>1, <1>2, <1>3, <1>4, <1>5, <1>6, <1>7, <1>8 DEF CollectorNext, PollerStep

\* A step of the collector leaves every claim the monitor has made true.
LEMMA CollectorBackedStep ==
    ASSUME TypeInv, BackedInv, CollectorNext, UNCHANGED monitorVars
    PROVE  BackedInv'
<1>g. Grows
  BY CollectorGrows
<1>u. UNCHANGED <<latestSnapshot, pc, local, archive, erased, markers>>
  BY DEF monitorVars, memoryVars, storeVars
<1>t. /\ stream \in Streams /\ stream' \in Streams
      /\ newest \in 0..MaxSeq /\ newest' \in 0..MaxSeq
      /\ latestSequence' \in 0..MaxSeq
      /\ markers \in [Streams -> 0..MaxSeq]
      /\ archive \subseteq Rows
      /\ latestSnapshot \in Snapshots \cup {NoSnapshot}
  BY CollectorTypeStep
     DEF TypeInv, TypeOK, CollectorTypeInv, CollectorTypeOK, MonitorTypeOK
<1>n. /\ MaxSeq \in Nat /\ MaxStreams \in Nat
      /\ stream \in Nat /\ stream' \in Nat /\ newest \in Nat /\ newest' \in Nat
  BY <1>t, SeqAssumption, StreamsAssumption DEF Streams
<1>1. MarkerBacked'
  <2>1. CASE stream' = stream /\ newest <= newest'
    BY <2>1, <1>u, <1>t, <1>n DEF BackedInv, MarkerBacked, Kept, Archived
  <2>2. CASE stream' = stream + 1
    <3>1. markers[stream'] = 0
      BY <2>2, <1>t, <1>n DEF BackedInv
    <3> QED BY <3>1, <1>u DEF MarkerBacked
  <2> QED BY <2>1, <2>2, <1>g DEF Grows
<1>2. \A s \in Streams : s > stream' => markers'[s] = 0
  BY <1>g, <1>u, <1>n DEF Grows, BackedInv, Streams
<1>3. \A row \in archive' : Stored(row.stream, row.seq)'
  BY <1>g, <1>n, <1>t, <1>u DEF Grows, Stored, BackedInv, Rows, Streams, Sequences
<1>4. latestSequence' <= newest'
  BY <1>g, <1>n DEF Grows
<1>5. latestSnapshot' # NoSnapshot => Stored(latestSnapshot.stream, latestSnapshot.seq)'
  BY <1>g, <1>n, <1>t, <1>u DEF Grows, Stored, BackedInv, Snapshots
<1>6. ASSUME NEW t \in Tasks PROVE Backed(pc[t], local[t])'
  <2>1. local[t] \in Locals /\ Control(pc[t], local[t]) /\ Backed(pc[t], local[t])
    BY TaskFacts DEF BackedInv
  <2>2. pc[t] # "idle" => Stored(local[t].snap.stream, local[t].snap.seq)'
    BY <2>1, <1>g, <1>n, <1>u DEF Backed, Control, Snapshots, Grows, Stored
  <2>3. pc[t] \in {"paged", "insert"} =>
          /\ local[t].snap.stream <= local[t].page.stream
          /\ Stored(local[t].page.stream, local[t].page.last)'
    BY <2>1, <1>g, <1>n, <1>u DEF Backed, Locals, Pages, Grows, Stored
  <2>4. pc[t] \in {"mark", "writeMark"} /\ local[t].snap.stream = stream' => stream' = stream
    BY <2>1, <1>g, <1>n DEF Backed, Control, Snapshots, Grows, Stored
  <2>5. stream' = stream => newest <= newest'
    BY <1>g, <1>n DEF Grows
  <2> QED
    BY <2>1, <2>2, <2>3, <2>4, <2>5, <1>u, <1>n DEF Backed, Kept, Archived, Locals
<1> QED BY <1>1, <1>2, <1>3, <1>4, <1>5, <1>6, <1>u DEF BackedInv

-----------------------------------------------------------------------------
(* The monitor.                                                            *)

\* Kept, with the store for a parameter.
Holds(rows, gone, s, q) == (\E row \in rows : row.stream = s /\ row.seq = q) \/ <<s, q>> \in gone

\* The store has lost nothing it had kept and holds no row yet to be appended.
StoreGrows ==
    /\ \A s, q : Kept(s, q) => Holds(archive', erased', s, q)
    /\ \A row \in archive' : Stored(row.stream, row.seq)

LEMMA SameStoreGrows == ASSUME BackedInv, UNCHANGED <<archive, erased>> PROVE StoreGrows
BY DEF StoreGrows, BackedInv, Kept, Archived, Holds

LEMMA InsertGrows ==
    ASSUME BackedInv, NEW rows, Insert(rows), UNCHANGED erased,
           \A row \in rows : Stored(row.stream, row.seq)
    PROVE  /\ StoreGrows
           /\ \A row \in rows : Holds(archive', erased', row.stream, row.seq)
BY DEF StoreGrows, BackedInv, Insert, Kept, Archived, Holds

LEMMA EraseGrows ==
    ASSUME BackedInv, NEW rows \in SUBSET archive, Erase(rows)
    PROVE  StoreGrows
BY DEF StoreGrows, BackedInv, Erase, Kept, Archived, Holds

\* What a task that stands at `at` with locals l claims of the next store.
Claims(at, l, rows, gone) ==
    /\ at # "idle" => Stored(l.snap.stream, l.snap.seq)
    /\ at \in {"paged", "insert"} =>
         l.snap.stream <= l.page.stream /\ Stored(l.page.stream, l.page.last)
    /\ at = "mark" /\ l.snap.stream = stream =>
         l.after # 0 /\ l.after <= newest /\ Holds(rows, gone, stream, l.after)
    /\ at = "writeMark" /\ l.snap.stream = stream => Holds(rows, gone, stream, l.snap.seq)

\* A step of one task keeps what all tasks have claimed, once the store has
\* lost nothing and the task makes no false claim of its own.
LEMMA TaskBacked ==
    ASSUME TypeInv, BackedInv, UNCHANGED collectorVars, StoreGrows,
           NEW t \in Tasks, NEW next, NEW locals, Go(t, next, locals),
           Claims(next, locals, archive', erased')
    PROVE  \A u \in Tasks : Backed(pc[u], local[u])'
<1> SUFFICES ASSUME NEW u \in Tasks PROVE Backed(pc[u], local[u])'
  OBVIOUS
<1>1. pc \in [Tasks -> Steps] /\ local \in [Tasks -> Locals]
  BY DEF TypeInv, TypeOK, MonitorTypeOK
<1>2. stream' = stream /\ newest' = newest
  BY DEF collectorVars, bufferVars
<1>3. CASE u = t
  <2>1. pc'[u] = next /\ local'[u] = locals
    BY <1>1, <1>3 DEF Go
  <2> QED BY <2>1, <1>2 DEF Claims, Backed, Stored, Kept, Archived, Holds
<1>4. CASE u # t
  <2>1. pc'[u] = pc[u] /\ local'[u] = local[u]
    BY <1>1, <1>4 DEF Go
  <2>2. Backed(pc[u], local[u])
    BY DEF BackedInv
  <2> QED
    BY <2>1, <2>2, <1>2 DEF StoreGrows, Backed, Stored, Kept, Archived, Holds
<1> QED BY <1>3, <1>4

\* The claims of a task at rest, or about to persist the live cache.
LEMMA RestBacked ==
    ASSUME TypeInv, BackedInv, UNCHANGED collectorVars, StoreGrows,
           NEW t \in Tasks, Rest(t)
    PROVE  \A u \in Tasks : Backed(pc[u], local[u])'
<1>1. Claims("idle", Fresh, archive', erased')
  BY DEF Claims
<1> QED BY <1>1, TaskBacked DEF Rest

LEMMA BeginPersistBacked ==
    ASSUME TypeInv, BackedInv, UNCHANGED collectorVars, StoreGrows, NEW t \in Tasks,
           NEW latest, NEW history, BeginPersist(t, latest, history),
           latest # NoSnapshot => Stored(latest.stream, latest.seq)
    PROVE  \A u \in Tasks : Backed(pc[u], local[u])'
<1>1. CASE Rest(t)
  BY <1>1, RestBacked
<1>2. CASE ~Rest(t)
  <2> DEFINE next == IF Labelled(latest) /\ history # "no" THEN "check" ELSE "write"
             locals == [Fresh EXCEPT !.snap = latest]
  <2>1. latest # NoSnapshot /\ Go(t, next, locals)
    BY <1>2 DEF BeginPersist
  <2>2. locals.snap = latest
    BY DEF Fresh
  <2>3. Claims(next, locals, archive', erased')
    BY <2>1, <2>2 DEF Claims
  <2> QED BY <2>1, <2>3, TaskBacked
<1> QED BY <1>1, <1>2

\* The rows of a page, or of its beginning, have been appended.
LEMMA PageRowsStored ==
    ASSUME TypeInv, NEW page \in Pages, NEW last \in 0..MaxSeq, last <= page.last,
           page.stream \in Streams, Stored(page.stream, page.last)
    PROVE  \A row \in PageRows(page, last) : Stored(row.stream, row.seq)
<1>1. stream \in Nat /\ newest \in Nat /\ page.stream \in Nat /\ page.last \in Nat
  BY StreamsAssumption, SeqAssumption
     DEF TypeInv, TypeOK, CollectorTypeOK, Pages, Streams
<1> QED
  BY <1>1, SeqAssumption DEF PageRows, Stored, Pages

\* What a reader is served has been appended.
LEMMA ReadingsStored == TypeInv /\ BackedInv => Stored(Readings.stream, Readings.seq)
BY StreamsAssumption, SeqAssumption
   DEF Readings, Stored, BackedInv, TypeInv, TypeOK, CollectorTypeOK, Streams

LEMMA ReadAfterStored ==
    ASSUME TypeInv, NEW after \in 0..MaxSeq
    PROVE  /\ ReadAfter(after, PageSize).stream = stream
           /\ ReadAfter(after, PageSize).last <= newest
<1> DEFINE high == (IF after < oldest THEN oldest ELSE after + 1) + SafeLimit(PageSize) - 1
<1>1. newest \in Nat /\ high \in Nat
  <2>1. (IF after < oldest THEN oldest ELSE after + 1) \in Nat \ {0}
    BY SeqAssumption DEF TypeInv, TypeOK, CollectorTypeOK
  <2>2. SafeLimit(PageSize) \in Nat \ {0}
    BY PageAssumption DEF SafeLimit
  <2> QED BY <2>1, <2>2, SeqAssumption DEF TypeInv, TypeOK, CollectorTypeOK
<1> HIDE DEF high
<1>2. (IF high < newest THEN high ELSE newest) <= newest
  BY <1>1
<1> QED BY <1>2 DEF ReadAfter, high

\* Everything BackedInv says of the monitor's next state.
MonitorBacked ==
    /\ MarkerBacked
    /\ \A s \in Streams : s > stream => markers[s] = 0
    /\ \A row \in archive : Stored(row.stream, row.seq)
    /\ latestSnapshot # NoSnapshot => Stored(latestSnapshot.stream, latestSnapshot.seq)

\* While the markers stay and the store only grows, only the live cache can change it.
LEMMA SameMarkers ==
    ASSUME TypeInv, BackedInv, StoreGrows, UNCHANGED collectorVars, UNCHANGED markers,
           latestSnapshot' # NoSnapshot => Stored(latestSnapshot'.stream, latestSnapshot'.seq)
    PROVE  MonitorBacked'
<1>1. stream' = stream /\ newest' = newest
  BY DEF collectorVars, bufferVars
<1>2. MarkerBacked'
  BY <1>1 DEF BackedInv, MarkerBacked, StoreGrows, Holds, Kept, Archived
<1> QED BY <1>1, <1>2 DEF MonitorBacked, BackedInv, StoreGrows, Stored

\* A marker moves to a row that is kept, or it is not the current stream's.
LEMMA MarkerMoves ==
    ASSUME TypeInv, BackedInv, UNCHANGED collectorVars,
           UNCHANGED <<archive, erased, latestSnapshot>>,
           NEW s \in Streams, NEW n \in 0..MaxSeq, Stored(s, n),
           s = stream => n # 0 /\ Kept(s, n),
           markers' = [markers EXCEPT ![s] = n]
    PROVE  MonitorBacked'
<1>1. stream' = stream /\ newest' = newest
  BY DEF collectorVars, bufferVars
<1>2. /\ stream \in Streams /\ Streams \subseteq Nat /\ markers \in [Streams -> 0..MaxSeq]
      /\ newest \in Nat
  BY SeqAssumption DEF TypeInv, TypeOK, CollectorTypeOK, MonitorTypeOK, Streams
<1>3. MarkerBacked'
  <2>1. CASE s = stream
    <3>1. markers'[stream] = n /\ n <= newest
      BY <2>1, <1>2 DEF Stored
    <3> QED BY <2>1, <3>1, <1>1 DEF MarkerBacked, Kept, Archived
  <2>2. CASE s # stream
    <3>1. markers'[stream] = markers[stream]
      BY <2>2, <1>2
    <3> QED BY <3>1, <1>1 DEF BackedInv, MarkerBacked, Kept, Archived
  <2> QED BY <2>1, <2>2
<1>4. s <= stream
  BY <1>2 DEF Stored
<1>5. ASSUME NEW r \in Streams, r > stream PROVE markers'[r] = 0
  <2>1. r # s
    BY <1>2, <1>4, <1>5
  <2>2. markers'[r] = markers[r]
    BY <1>2, <2>1
  <2> QED BY <1>5, <2>2 DEF BackedInv
<1> QED BY <1>1, <1>3, <1>5 DEF MonitorBacked, BackedInv, Stored

\* Every task's step leaves the claims of all tasks true.
LEMMA TaskBackedStep ==
    ASSUME TypeInv, BackedInv, NEW t \in Tasks, TaskStep(t), UNCHANGED collectorVars
    PROVE  MonitorBacked' /\ \A u \in Tasks : Backed(pc[u], local[u])'
<1> DEFINE l == local[t]
           TasksBacked == \A u \in Tasks : Backed(pc[u], local[u])
<1>l. l \in Locals /\ Control(pc[t], l) /\ Backed(pc[t], l)
  BY TaskFacts DEF BackedInv
<1>c. latestSnapshot # NoSnapshot => Stored(latestSnapshot.stream, latestSnapshot.seq)
  BY DEF BackedInv
<1>k. ASSUME UNCHANGED storeVars PROVE StoreGrows
  BY <1>k, SameStoreGrows DEF storeVars
<1>m. ASSUME UNCHANGED latestSnapshot, UNCHANGED markers, StoreGrows
      PROVE  MonitorBacked'
  BY <1>m, <1>c, SameMarkers
<1>g. ASSUME NEW next, NEW locals, Go(t, next, locals), StoreGrows,
             Claims(next, locals, archive', erased')
      PROVE  TasksBacked'
  BY <1>g, TaskBacked
<1>r. ASSUME Rest(t), StoreGrows PROVE TasksBacked'
  BY <1>r, RestBacked
<1>p. ASSUME NEW history, BeginPersist(t, latestSnapshot, history), StoreGrows
      PROVE  TasksBacked'
  BY <1>p, <1>c, BeginPersistBacked
<1> HIDE DEF l, TasksBacked
<1>1. CASE FetchSnapshot(t)
  <2> DEFINE locals == [Fresh EXCEPT !.snap = Readings]
  <2>1. Go(t, "fetched", locals) /\ UNCHANGED storeVars /\ UNCHANGED latestSnapshot
    BY <1>1 DEF FetchSnapshot, memoryVars
  <2>2. locals.snap = Readings
    BY DEF Fresh
  <2>3. Claims("fetched", locals, archive', erased')
    BY <2>2, ReadingsStored DEF Claims
  <2> QED BY <2>1, <2>3, <1>g, <1>k, <1>m DEF storeVars, TasksBacked
<1>2. CASE Receive(t)
  <2>1. pc[t] = "fetched" /\ latestSnapshot' = l.snap /\ UNCHANGED storeVars
    BY <1>2 DEF Receive, l
  <2>2. Stored(l.snap.stream, l.snap.seq)
    BY <2>1, <1>l DEF Backed
  <2>3. StoreGrows /\ UNCHANGED markers
    BY <2>1, <1>k DEF storeVars
  <2>4. MonitorBacked'
    BY <2>1, <2>2, <2>3, SameMarkers
  <2>5. \/ \E history : BeginPersist(t, l.snap, history)
        \/ Go(t, "marker", l)
    BY <1>2 DEF Receive, l
  <2>6. Claims("marker", l, archive', erased')
    BY <2>2 DEF Claims
  <2>7. TasksBacked'
    BY <2>2, <2>3, <2>5, <2>6, <1>g, BeginPersistBacked DEF TasksBacked
  <2> QED BY <2>4, <2>7 DEF TasksBacked
<1>3. CASE ReadMarker(t)
  <2> DEFINE marker == markers[l.snap.stream]
             start  == IF marker > l.snap.seq THEN 0 ELSE marker
             locals == [l EXCEPT !.after = start, !.begun = start]
  <2>1. pc[t] = "marker" /\ Go(t, "loop", locals) /\ UNCHANGED storeVars
        /\ UNCHANGED latestSnapshot
    BY <1>3 DEF ReadMarker, l, memoryVars
  <2>2. locals.snap = l.snap
    BY <1>l DEF Locals
  <2>3. Claims("loop", locals, archive', erased')
    BY <2>1, <2>2, <1>l DEF Claims, Backed
  <2> QED BY <2>1, <2>3, <1>g, <1>k, <1>m DEF storeVars, TasksBacked
<1>4. CASE FetchPage(t)
  <2> DEFINE page   == ReadAfter(l.after, PageSize)
             locals == [l EXCEPT !.page = page]
  <2>1. /\ pc[t] = "loop" /\ UNCHANGED storeVars /\ UNCHANGED latestSnapshot
        /\ Go(t, "paged", locals) \/ Go(t, "gone", l)
    BY <1>4 DEF FetchPage, l, memoryVars
  <2>2. Stored(l.snap.stream, l.snap.seq) /\ l.after \in 0..MaxSeq /\ l.snap \in Snapshots
    BY <2>1, <1>l DEF Backed, Locals, Control
  <2>3. page.stream = stream /\ page.last <= newest
    BY <2>2, ReadAfterStored
  <2> HIDE DEF page
  <2>4. locals.snap = l.snap /\ locals.page = page
    BY <1>l DEF Locals
  <2>5. l.snap.stream <= stream
    BY <2>2, StreamsAssumption
       DEF Stored, Snapshots, TypeInv, TypeOK, CollectorTypeOK, Streams
  <2>6. Stored(page.stream, page.last)
    BY <2>3 DEF Stored
  <2>7. Claims("paged", locals, archive', erased') /\ Claims("gone", l, archive', erased')
    BY <2>2, <2>3, <2>4, <2>5, <2>6 DEF Claims
  <2> QED BY <2>1, <2>7, <1>g, <1>k, <1>m DEF storeVars, TasksBacked
<1>5. CASE HistoryGone(t)
  <2>1. /\ BeginPersist(t, latestSnapshot, "no")
        /\ UNCHANGED latestSnapshot /\ UNCHANGED storeVars
    BY <1>5 DEF HistoryGone
  <2> QED BY <2>1, <1>p, <1>k, <1>m DEF storeVars, TasksBacked
<1>6. CASE ReceivePage(t)
  <2>1. /\ pc[t] = "paged" /\ UNCHANGED latestSnapshot /\ UNCHANGED storeVars
        /\ Go(t, "insert", l) \/ BeginPersist(t, latestSnapshot, "yes")
    BY <1>6 DEF ReceivePage, l
  <2>2. Claims("insert", l, archive', erased')
    BY <2>1, <1>l DEF Claims, Backed
  <2> QED BY <2>1, <2>2, <1>g, <1>p, <1>k, <1>m DEF storeVars, TasksBacked
<1>7. CASE InsertPage(t)
  <2> DEFINE page   == l.page
             locals == [l EXCEPT !.after = page.last]
  <2>1. /\ pc[t] = "insert" /\ Insert(PageRows(page, page.last)) /\ Go(t, "mark", locals)
        /\ UNCHANGED <<latestSnapshot, markers, erased>>
    BY <1>7 DEF InsertPage, l, memoryVars
  <2>2. /\ page \in Pages /\ page.stream \in Streams /\ page.last \in 0..MaxSeq
        /\ page.first \in 1..MaxSeq + 1 /\ page.first <= page.last
        /\ l.snap.stream <= page.stream /\ Stored(page.stream, page.last)
        /\ Stored(l.snap.stream, l.snap.seq) /\ l.snap \in Snapshots
    BY <2>1, <1>l DEF Control, Locals, Pages, Backed
  <2>3. /\ MaxSeq \in Nat /\ stream \in Nat /\ newest \in Nat
        /\ l.snap.stream \in Nat /\ page.stream \in Nat
    BY <2>2, StreamsAssumption, SeqAssumption
       DEF TypeInv, TypeOK, CollectorTypeOK, Streams, Snapshots
  <2>4. /\ StoreGrows
        /\ \A row \in PageRows(page, page.last) : Holds(archive', erased', row.stream, row.seq)
    BY <2>1, <2>2, <2>3, PageRowsStored, InsertGrows
  <2>5. Holds(archive', erased', page.stream, page.last)
    <3>1. page.last \in page.first..page.last
      BY <2>2, <2>3
    <3> DEFINE row == [stream |-> page.stream, seq |-> page.last,
                       capture |-> captureOf[page.stream][page.last]]
    <3>2. row \in PageRows(page, page.last)
      BY <3>1 DEF PageRows
    <3>3. Holds(archive', erased', row.stream, row.seq)
      BY <3>2, <2>4
    <3> QED BY <3>3
  <2>6. l.snap.stream = stream => page.stream = stream /\ page.last <= newest
    BY <2>2, <2>3 DEF Stored
  <2>7. locals.snap = l.snap /\ locals.after = page.last
    BY <1>l DEF Locals
  <2>8. page.last # 0
    BY <2>2, <2>3
  <2> HIDE DEF locals, page
  <2>9. Claims("mark", locals, archive', erased')
    BY <2>2, <2>5, <2>6, <2>7, <2>8 DEF Claims
  <2> QED BY <2>1, <2>4, <2>9, <1>g, <1>m DEF TasksBacked
<1>8. CASE MarkPage(t)
  <2> DEFINE locals == [l EXCEPT !.pages = @ + 1, !.page = NoPage]
             next   == IF l.page.hasMore THEN "loop" ELSE "backfilled"
  <2>1. /\ pc[t] = "mark" /\ Go(t, next, locals)
        /\ markers' = [markers EXCEPT ![l.snap.stream] = l.after]
        /\ UNCHANGED <<latestSnapshot, archive, erased>>
    BY <1>8 DEF MarkPage, l, memoryVars
  <2>2. /\ l.snap \in Snapshots /\ Labelled(l.snap) /\ l.snap.stream \in Streams
        /\ Stored(l.snap.stream, l.snap.seq) /\ l.after \in 0..MaxSeq
        /\ l.snap.stream = stream => l.after # 0 /\ l.after <= newest /\ Kept(stream, l.after)
    BY <2>1, <1>l DEF Control, Replaying, Locals, Backed, Snapshots, Labelled, Streams
  <2>3. Stored(l.snap.stream, l.after)
    BY <2>2 DEF Stored
  <2>4. MonitorBacked'
    BY <2>1, <2>2, <2>3, MarkerMoves
  <2>5. locals.snap = l.snap
    BY <1>l DEF Locals
  <2> HIDE DEF locals
  <2>6. Claims(next, locals, archive', erased')
    BY <2>2, <2>5 DEF Claims
  <2>7. StoreGrows
    BY <2>1, SameStoreGrows
  <2> QED BY <2>1, <2>4, <2>6, <2>7, <1>g DEF TasksBacked
<1>9. CASE EndBackfill(t)
  <2>1. /\ BeginPersist(t, latestSnapshot, historySupported)
        /\ UNCHANGED latestSnapshot /\ UNCHANGED storeVars
    BY <1>9 DEF EndBackfill
  <2> QED BY <2>1, <1>p, <1>k, <1>m DEF storeVars, TasksBacked
<1>10. CASE BackfillFails(t)
  <2>1. /\ BeginPersist(t, latestSnapshot, historySupported)
        /\ UNCHANGED latestSnapshot /\ UNCHANGED storeVars
    BY <1>10 DEF BackfillFails
  <2> QED BY <2>1, <1>p, <1>k, <1>m DEF storeVars, TasksBacked
<1>11. CASE InsertPageFails(t)
  <2> DEFINE page == l.page
  <2>1. /\ pc[t] = "insert" /\ BeginPersist(t, latestSnapshot, historySupported)
        /\ UNCHANGED <<latestSnapshot, markers, erased>>
    BY <1>11 DEF InsertPageFails
  <2>2. PICK last \in page.first..page.last : Insert(PageRows(page, last))
    BY <1>11 DEF InsertPageFails, l
  <2>3. /\ page \in Pages /\ page.stream \in Streams /\ Stored(page.stream, page.last)
        /\ page.first \in 1..MaxSeq + 1 /\ page.last \in 0..MaxSeq
    BY <2>1, <1>l DEF Control, Locals, Pages, Backed
  <2>4. last \in 0..MaxSeq /\ last <= page.last
    BY <2>3, SeqAssumption
  <2>5. StoreGrows
    BY <2>1, <2>2, <2>3, <2>4, PageRowsStored, InsertGrows
  <2> QED BY <2>1, <2>5, <1>p, <1>m DEF TasksBacked
<1>12. CASE CheckMarker(t)
  <2> DEFINE locals == [l EXCEPT !.processed = markers[l.snap.stream]]
  <2>1. pc[t] = "check" /\ Go(t, "decide", locals) /\ UNCHANGED storeVars
        /\ UNCHANGED latestSnapshot
    BY <1>12 DEF CheckMarker, l, memoryVars
  <2>2. locals.snap = l.snap
    BY <1>l DEF Locals
  <2>3. Claims("decide", locals, archive', erased')
    BY <2>1, <2>2, <1>l DEF Claims, Backed
  <2> QED BY <2>1, <2>3, <1>g, <1>k, <1>m DEF storeVars, TasksBacked
<1>13. CASE Decide(t)
  <2> DEFINE locals == [l EXCEPT !.processed = 0]
  <2>1. /\ pc[t] = "decide"
        /\ Rest(t) \/ Go(t, "write", locals)
        /\ UNCHANGED storeVars /\ UNCHANGED latestSnapshot
    BY <1>13 DEF Decide, l, memoryVars
  <2>2. locals.snap = l.snap
    BY <1>l DEF Locals
  <2>3. Claims("write", locals, archive', erased')
    BY <2>1, <2>2, <1>l DEF Claims, Backed
  <2> QED BY <2>1, <2>3, <1>g, <1>r, <1>k, <1>m DEF storeVars, TasksBacked
<1>i. ASSUME pc[t] = "write", InsertLive(l.snap), UNCHANGED erased
      PROVE  /\ StoreGrows
             /\ Labelled(l.snap) => Holds(archive', erased', l.snap.stream, l.snap.seq)
  <2>1. Stored(l.snap.stream, l.snap.seq)
    BY <1>i, <1>l DEF Backed
  <2>2. CASE Labelled(l.snap)
    BY <2>1, <2>2, <1>i, InsertGrows DEF InsertLive
  <2>3. CASE ~Labelled(l.snap)
    BY <2>3, <1>i, SameStoreGrows DEF InsertLive
  <2> QED BY <2>2, <2>3
<1>14. CASE WriteLive(t)
  <2>1. /\ pc[t] = "write" /\ InsertLive(l.snap)
        /\ Rest(t) \/ (Labelled(l.snap) /\ Go(t, "writeMark", l))
        /\ UNCHANGED <<latestSnapshot, markers, erased>>
    BY <1>14 DEF WriteLive, l, memoryVars
  <2>2. StoreGrows
    BY <2>1, <1>i
  <2>3. Labelled(l.snap) => Claims("writeMark", l, archive', erased')
    BY <2>1, <1>i, <1>l DEF Claims, Backed
  <2> QED BY <2>1, <2>2, <2>3, <1>g, <1>r, <1>m DEF TasksBacked
<1>15. CASE WriteLiveFails(t)
  <2>1. /\ pc[t] = "write" /\ InsertLive(l.snap) /\ Rest(t)
        /\ UNCHANGED <<latestSnapshot, markers, erased>>
    BY <1>15 DEF WriteLiveFails, l, memoryVars
  <2> QED BY <2>1, <1>i, <1>r, <1>m DEF TasksBacked
<1>16. CASE MarkLive(t)
  <2>1. /\ pc[t] = "writeMark" /\ Rest(t)
        /\ markers' = [markers EXCEPT ![l.snap.stream] = l.snap.seq]
        /\ UNCHANGED <<latestSnapshot, archive, erased>>
    BY <1>16 DEF MarkLive, l, memoryVars
  <2>2. /\ Labelled(l.snap) /\ l.snap.stream \in Streams /\ l.snap.seq \in 0..MaxSeq
        /\ l.snap.seq # 0 /\ Stored(l.snap.stream, l.snap.seq)
        /\ l.snap.stream = stream => Kept(stream, l.snap.seq)
    BY <2>1, <1>l DEF Control, Backed, Snapshots, Labelled, Streams
  <2>3. MonitorBacked'
    BY <2>1, <2>2, MarkerMoves
  <2>4. StoreGrows
    BY <2>1, SameStoreGrows
  <2> QED BY <2>1, <2>3, <2>4, <1>r DEF TasksBacked
<1>17. CASE PersistFails(t)
  BY <1>17, <1>r, <1>k, <1>m DEF PersistFails, memoryVars, storeVars, TasksBacked
<1> QED
  BY <1>1, <1>2, <1>3, <1>4, <1>5, <1>6, <1>7, <1>8, <1>9, <1>10, <1>11, <1>12,
     <1>13, <1>14, <1>15, <1>16, <1>17
     DEF TaskStep, PollTask, BackfillTask, PersistTask, TasksBacked

\* So do the failed poll, retention, purge and restart.
LEMMA MonitorBackedStep ==
    ASSUME TypeInv, BackedInv, MonitorNext, UNCHANGED collectorVars
    PROVE  MonitorBacked' /\ \A t \in Tasks : Backed(pc[t], local[t])'
<1>c. latestSnapshot # NoSnapshot => Stored(latestSnapshot.stream, latestSnapshot.seq)
  BY DEF BackedInv
<1>e. ASSUME UNCHANGED <<latestSnapshot, pc, local, markers>>, StoreGrows
      PROVE  MonitorBacked' /\ \A t \in Tasks : Backed(pc[t], local[t])'
  <2>1. MonitorBacked'
    BY <1>e, <1>c, SameMarkers
  <2>2. ASSUME NEW t \in Tasks PROVE Backed(pc[t], local[t])'
    BY <1>e DEF BackedInv, Backed, Stored, StoreGrows, Kept, Archived, Holds,
       collectorVars, bufferVars
  <2> QED BY <2>1, <2>2
<1>1. CASE \E t \in Tasks : TaskStep(t)
  BY <1>1, TaskBackedStep
<1>2. CASE FetchSnapshotFails
  <2>1. /\ BeginPersist(Loop, latestSnapshot, historySupported) /\ StoreGrows
        /\ UNCHANGED <<latestSnapshot, markers>>
    BY <1>2, SameStoreGrows DEF FetchSnapshotFails, memoryVars, storeVars
  <2> QED BY <2>1, <1>c, TasksAssumption, BeginPersistBacked, SameMarkers
<1>3. CASE PruneArchive
  <2>1. PICK cutoff \in 1..MaxPolls : Erase({row \in archive : row.capture < cutoff})
    BY <1>3 DEF PruneArchive
  <2>2. StoreGrows
    BY <2>1, EraseGrows
  <2> QED BY <2>2, <1>3, <1>e DEF PruneArchive, memoryVars
<1>4. CASE PurgeAll
  <2>1. StoreGrows
    BY <1>4, EraseGrows DEF PurgeAll
  <2> QED BY <2>1, <1>4, <1>e DEF PurgeAll, memoryVars
<1>5. CASE RestartMonitor
  <2>1. StoreGrows /\ UNCHANGED markers /\ latestSnapshot' = NoSnapshot
    BY <1>5, SameStoreGrows DEF RestartMonitor, storeVars
  <2>2. MonitorBacked'
    BY <2>1, SameMarkers
  <2>3. ASSUME NEW t \in Tasks PROVE Backed(pc[t], local[t])'
    <3>1. pc'[t] = "idle"
      BY <1>5 DEF RestartMonitor
    <3> QED BY <3>1 DEF Backed
  <2> QED BY <2>2, <2>3
<1> QED BY <1>1, <1>2, <1>3, <1>4, <1>5 DEF MonitorNext

-----------------------------------------------------------------------------
LEMMA BackedInit == Init => BackedInv
<1> SUFFICES ASSUME Init PROVE BackedInv
  OBVIOUS
<1>1. stream \in Streams
  BY TypeInit DEF TypeInv, TypeOK, CollectorTypeOK
<1> QED
  BY <1>1 DEF Init, CollectorInit, MonitorInit, BackedInv, MarkerBacked, Backed

LEMMA BackedStep == TypeInv /\ BackedInv /\ [Next]_vars => BackedInv'
<1> SUFFICES ASSUME TypeInv, BackedInv, [Next]_vars PROVE BackedInv'
  OBVIOUS
<1>1. CASE CollectorNext /\ UNCHANGED monitorVars
  BY <1>1, CollectorBackedStep
<1>2. CASE MonitorNext /\ UNCHANGED collectorVars
  <2>1. MonitorBacked' /\ \A t \in Tasks : Backed(pc[t], local[t])'
    BY <1>2, MonitorBackedStep
  <2>2. (latestSequence <= newest)'
    BY <1>2 DEF BackedInv, collectorVars, bufferVars, pollerVars
  <2> QED BY <2>1, <2>2 DEF MonitorBacked, BackedInv
<1>3. CASE UNCHANGED vars
  BY <1>3 DEF vars, collectorVars, bufferVars, pollerVars, monitorVars, memoryVars,
     storeVars, BackedInv, MarkerBacked, Kept, Archived, Backed, Stored
<1> QED BY <1>1, <1>2, <1>3 DEF Next

\* No marker, label or cursor anywhere in the monitor is ahead of the rows
\* that have been appended, whatever the tasks, restarts and failures.
THEOREM BackedInvariant == Spec => []BackedInv
<1> QED BY TypeInvariant, BackedInit, BackedStep, PTL DEF Spec

\* A marker is 0 or names a row that has been taken and archived.
THEOREM MarkersBacked == Spec => []MarkerBacked
<1>1. BackedInv => MarkerBacked
  BY DEF BackedInv
<1> QED BY <1>1, BackedInvariant, PTL


-----------------------------------------------------------------------------
(* The pages of a backfill, for any tasks and buffer modes.                *)

\* What a step of task t may do to its page, its cursor and its count of pages.
PageMoves(t) ==
    LET l == local[t]  m == local'[t]  at == pc[t]  to == pc'[t] IN
    \/ to \notin {"fetched", "marker", "loop", "paged", "insert", "mark"}
    \/ to = "fetched" /\ m.pages = 0
    \/ /\ m.snap = l.snap
       /\ \/ at = "fetched" /\ to = "marker" /\ m.pages = l.pages
          \/ /\ at = "marker" /\ to = "loop" /\ m.pages = l.pages
             /\ m.after \in Nat /\ m.begun = m.after
          \/ /\ m.begun = l.begun
             /\ \/ /\ at = "loop" /\ to = "paged" /\ m.pages = l.pages /\ l.after < l.snap.seq
                   /\ l.pages < MaxPages /\ m.page = ReadAfter(l.after, PageSize)
                \/ at = "paged" /\ to = "insert" /\ m.pages = l.pages /\ m.page = l.page
                \/ /\ at = "insert" /\ to = "mark" /\ m.pages = l.pages /\ m.page = l.page
                   /\ m.after = l.page.last
                \/ /\ at = "mark" /\ to = "loop" /\ l.page.hasMore /\ m.pages = l.pages + 1
                   /\ m.after = l.after

LEMMA TaskPageMoves ==
    ASSUME TypeInv, NEW t \in Tasks, TaskStep(t)
    PROVE  /\ PageMoves(t)
           /\ \A u \in Tasks \ {t} : pc'[u] = pc[u] /\ local'[u] = local[u]
<1> DEFINE l == local[t]
<1>t. pc \in [Tasks -> Steps] /\ local \in [Tasks -> Locals]
  BY DEF TypeInv, TypeOK, MonitorTypeOK
<1>l. l \in Locals /\ Control(pc[t], l)
  BY TaskFacts
<1>g. ASSUME NEW next, NEW locals, Go(t, next, locals)
      PROVE  /\ pc'[t] = next /\ local'[t] = locals
             /\ \A u \in Tasks \ {t} : pc'[u] = pc[u] /\ local'[u] = local[u]
  BY <1>t, <1>g DEF Go
<1>r. ASSUME NEW locals, NEW next \in {"idle", "gone", "backfilled", "check", "decide",
                                       "write", "writeMark"}, Go(t, next, locals)
      PROVE  /\ PageMoves(t)
             /\ \A u \in Tasks \ {t} : pc'[u] = pc[u] /\ local'[u] = local[u]
  BY <1>r, <1>g DEF PageMoves
<1>p. ASSUME NEW latest, NEW history, BeginPersist(t, latest, history)
      PROVE  /\ PageMoves(t)
             /\ \A u \in Tasks \ {t} : pc'[u] = pc[u] /\ local'[u] = local[u]
  BY <1>p, <1>r DEF BeginPersist, Rest
<1> HIDE DEF l
<1>1. CASE FetchSnapshot(t)
  <2>1. Go(t, "fetched", [Fresh EXCEPT !.snap = Readings])
    BY <1>1 DEF FetchSnapshot
  <2> QED BY <2>1, <1>g DEF PageMoves, Fresh
<1>2. CASE Receive(t)
  <2>1. pc[t] = "fetched"
    BY <1>2 DEF Receive
  <2>2. \/ Go(t, "marker", l)
        \/ \E history : BeginPersist(t, l.snap, history)
    BY <1>2 DEF Receive, l
  <2>3. CASE Go(t, "marker", l)
    BY <2>1, <2>3, <1>g DEF PageMoves, l
  <2> QED BY <2>2, <2>3, <1>p
<1>3. CASE ReadMarker(t)
  <2> DEFINE marker == markers[l.snap.stream]
             start  == IF marker > l.snap.seq THEN 0 ELSE marker
             locals == [l EXCEPT !.after = start, !.begun = start]
  <2>1. pc[t] = "marker" /\ Go(t, "loop", locals)
    BY <1>3 DEF ReadMarker, l
  <2>2. l.snap \in Snapshots /\ Labelled(l.snap)
    BY <2>1, <1>l DEF Control, Replaying
  <2>3. marker \in Nat
    BY <2>2, SeqAssumption
       DEF TypeInv, TypeOK, MonitorTypeOK, Snapshots, Labelled, Streams
  <2>4. /\ locals.snap = l.snap /\ locals.pages = l.pages
        /\ locals.after \in Nat /\ locals.begun = locals.after
    BY <2>3, <1>l DEF Locals
  <2> HIDE DEF locals
  <2> QED BY <2>1, <2>4, <1>g DEF PageMoves, l
<1>4. CASE FetchPage(t)
  <2> DEFINE locals == [l EXCEPT !.page = ReadAfter(l.after, PageSize)]
  <2>1. /\ pc[t] = "loop" /\ l.after < l.snap.seq /\ l.pages < MaxPages
        /\ Go(t, "paged", locals) \/ Go(t, "gone", l)
    BY <1>4 DEF FetchPage, Behind, l
  <2>2. /\ locals.snap = l.snap /\ locals.pages = l.pages
        /\ locals.page = ReadAfter(l.after, PageSize) /\ locals.begun = l.begun
    BY <1>l DEF Locals
  <2> HIDE DEF locals
  <2>3. CASE Go(t, "paged", locals)
    BY <2>1, <2>2, <2>3, <1>g DEF PageMoves, l
  <2> QED BY <2>1, <2>3, <1>r
<1>5. CASE HistoryGone(t)
  BY <1>5, <1>p DEF HistoryGone
<1>6. CASE ReceivePage(t)
  <2>1. pc[t] = "paged"
    BY <1>6 DEF ReceivePage
  <2>2. Go(t, "insert", l) \/ BeginPersist(t, latestSnapshot, "yes")
    BY <1>6 DEF ReceivePage, l
  <2>3. CASE Go(t, "insert", l)
    BY <2>1, <2>3, <1>g DEF PageMoves, l
  <2> QED BY <2>2, <2>3, <1>p
<1>7. CASE InsertPage(t)
  <2> DEFINE locals == [l EXCEPT !.after = l.page.last]
  <2>1. pc[t] = "insert" /\ Go(t, "mark", locals)
    BY <1>7 DEF InsertPage, l
  <2>2. /\ locals.snap = l.snap /\ locals.pages = l.pages /\ locals.page = l.page
        /\ locals.after = l.page.last /\ locals.begun = l.begun
    BY <1>l DEF Locals
  <2> HIDE DEF locals
  <2> QED BY <2>1, <2>2, <1>g DEF PageMoves, l
<1>8. CASE MarkPage(t)
  <2> DEFINE locals == [l EXCEPT !.pages = @ + 1, !.page = NoPage]
  <2>1. /\ pc[t] = "mark"
        /\ (l.page.hasMore /\ Go(t, "loop", locals)) \/ Go(t, "backfilled", locals)
    BY <1>8 DEF MarkPage, l
  <2>2. /\ locals.snap = l.snap /\ locals.pages = l.pages + 1 /\ locals.after = l.after
        /\ locals.begun = l.begun
    BY <1>l DEF Locals
  <2> HIDE DEF locals
  <2>3. CASE l.page.hasMore /\ Go(t, "loop", locals)
    BY <2>1, <2>2, <2>3, <1>g DEF PageMoves, l
  <2> QED BY <2>1, <2>3, <1>r
<1>9. CASE EndBackfill(t) \/ BackfillFails(t) \/ InsertPageFails(t)
  BY <1>9, <1>p DEF EndBackfill, BackfillFails, InsertPageFails
<1>10. CASE CheckMarker(t)
  BY <1>10, <1>r DEF CheckMarker
<1>11. CASE Decide(t) \/ PersistFails(t)
  BY <1>11, <1>r DEF Decide, PersistFails, Rest
<1>12. CASE WriteLive(t) \/ WriteLiveFails(t) \/ MarkLive(t)
  BY <1>12, <1>r DEF WriteLive, WriteLiveFails, MarkLive, Rest
<1> QED
  BY <1>1, <1>2, <1>3, <1>4, <1>5, <1>6, <1>7, <1>8, <1>9, <1>10, <1>11, <1>12
     DEF TaskStep, PollTask, BackfillTask, PersistTask

\* Restart apart, the monitor moves the tasks as TaskPageMoves says, or lets them rest.
LEMMA MonitorPageMoves ==
    ASSUME TypeInv, MonitorNext, NEW t \in Tasks
    PROVE  PageMoves(t) \/ (pc'[t] = pc[t] /\ local'[t] = local[t])
<1>1. CASE \E u \in Tasks : TaskStep(u)
  BY <1>1, TaskPageMoves
<1>2. CASE FetchSnapshotFails
  <2>1. \A u \in Tasks : u # Loop => pc'[u] = pc[u] /\ local'[u] = local[u]
    BY <1>2, TasksAssumption
       DEF FetchSnapshotFails, BeginPersist, Rest, Go, TypeInv, TypeOK, MonitorTypeOK
  <2>2. pc'[Loop] \in {"idle", "check", "write"}
    BY <1>2, TasksAssumption
       DEF FetchSnapshotFails, BeginPersist, Rest, Go, TypeInv, TypeOK, MonitorTypeOK
  <2> QED BY <2>1, <2>2 DEF PageMoves
<1>3. CASE PruneArchive \/ PurgeAll
  BY <1>3 DEF PruneArchive, PurgeAll
<1>4. CASE RestartMonitor
  BY <1>4 DEF RestartMonitor, PageMoves
<1> QED BY <1>1, <1>2, <1>3, <1>4 DEF MonitorNext

LEMMA FullPageType == FullPage \in Nat /\ FullPage >= 1
BY PageAssumption DEF FullPage, SafeLimit

\* The last row of a page that has a successor.
LEMMA FullPageReaches ==
    ASSUME TypeInv, NEW after \in Nat, ReadAfter(after, PageSize).hasMore
    PROVE  LET last == ReadAfter(after, PageSize).last
           IN  last \in Nat /\ after + FullPage <= last /\ oldest - 1 + FullPage <= last
<1> DEFINE low == IF after < oldest THEN oldest ELSE after + 1
<1>1. oldest \in Nat /\ newest \in Nat
  BY SeqAssumption DEF TypeInv, TypeOK, CollectorTypeOK
<1>2. low \in Nat /\ low >= after + 1 /\ low >= oldest
  BY <1>1
<1> HIDE DEF low
<1>3. ReadAfter(after, PageSize).last = low + FullPage - 1
  BY DEF ReadAfter, FullPage, low
<1> QED BY <1>1, <1>2, <1>3, FullPageType

LEMMA NextMultiple ==
    ASSUME NEW k \in Nat, NEW size \in Nat PROVE (k + 1) * size = k * size + size
OBVIOUS

LEMMA PagesReadStep ==
    TypeInv /\ PagesReadInv /\ [Next]_vars => PagesReadInv'
<1> SUFFICES ASSUME TypeInv, PagesReadInv, [Next]_vars, NEW t \in Tasks
             PROVE  PagesRead(pc[t], local[t])'
  BY DEF PagesReadInv
<1> DEFINE l == local[t]
           m == local'[t]
<1>l. l \in Locals /\ PagesRead(pc[t], l)
  BY TaskFacts DEF PagesReadInv
<1>1. CASE UNCHANGED <<pc, local>>
  BY <1>1, <1>l DEF PagesRead
<1>2. CASE pc'[t] = pc[t] /\ local'[t] = local[t]
  BY <1>2, <1>l DEF PagesRead
<1>3. CASE PageMoves(t)
  <2>1. l.pages \in Nat /\ l.after \in Nat /\ l.begun \in Nat
    BY <1>l, PageAssumption, SeqAssumption DEF Locals
  <2>2. CASE pc'[t] \notin {"fetched", "marker", "loop", "paged", "insert", "mark"}
    BY <2>2 DEF PagesRead
  <2>3. CASE pc'[t] = "fetched" /\ m.pages = 0
    BY <2>3 DEF PagesRead
  <2>4. CASE pc[t] = "fetched" /\ pc'[t] = "marker" /\ m.pages = l.pages
    BY <2>4, <1>l DEF PagesRead
  <2>5. CASE /\ pc[t] = "marker" /\ pc'[t] = "loop" /\ m.pages = l.pages
             /\ m.after \in Nat /\ m.begun = m.after
    BY <2>5, <1>l, FullPageType DEF PagesRead
  <2>6. CASE /\ pc[t] = "loop" /\ pc'[t] = "paged" /\ m.pages = l.pages
             /\ m.page = ReadAfter(l.after, PageSize) /\ m.begun = l.begun
    <3>1. l.begun + l.pages * FullPage <= l.after
      BY <2>6, <1>l DEF PagesRead
    <3>2. m.page.hasMore => m.page.last \in Nat /\ l.after + FullPage <= m.page.last
      BY <2>1, <2>6, FullPageReaches
    <3>3. (l.pages + 1) * FullPage = l.pages * FullPage + FullPage
      BY <2>1, FullPageType, NextMultiple
    <3>4. l.pages * FullPage \in Nat /\ (l.pages + 1) * FullPage \in Nat
      BY <2>1, FullPageType
    <3> HIDE DEF l, m
    <3>5. m.page.hasMore => l.begun + (l.pages + 1) * FullPage <= m.page.last
      BY <3>1, <3>2, <3>3, <3>4, <2>1, FullPageType
    <3> QED BY <2>6, <3>5 DEF PagesRead, m
  <2>7. CASE /\ pc[t] = "paged" /\ pc'[t] = "insert" /\ m.pages = l.pages
             /\ m.page = l.page /\ m.begun = l.begun
    BY <2>7, <1>l DEF PagesRead
  <2>8. CASE /\ pc[t] = "insert" /\ pc'[t] = "mark" /\ m.pages = l.pages /\ m.page = l.page
             /\ m.after = l.page.last /\ m.begun = l.begun
    BY <2>8, <1>l DEF PagesRead
  <2>9. CASE /\ pc[t] = "mark" /\ pc'[t] = "loop" /\ l.page.hasMore /\ m.pages = l.pages + 1
             /\ m.after = l.after /\ m.begun = l.begun
    BY <2>9, <1>l DEF PagesRead
  <2> HIDE DEF l, m
  <2> QED
    BY <1>3, <2>2, <2>3, <2>4, <2>5, <2>6, <2>7, <2>8, <2>9 DEF PageMoves, l, m
<1> QED
  BY <1>1, <1>2, <1>3, MonitorPageMoves DEF Next, vars, monitorVars

THEOREM PagesReadInvariant == Spec => []PagesReadInv
<1>1. Init => PagesReadInv
  BY DEF Init, MonitorInit, PagesReadInv, PagesRead
<1> QED BY <1>1, PagesReadStep, TypeInvariant, PTL DEF Spec

\* A backfill of whatever stream, begun at whatever marker, that its limit of pages ends
\* short of the live sequence has fetched MaxPages full pages: what it leaves is beyond
\* them, whatever the tasks, restarts, prunes and replacements.
THEOREM OnlyTheExcessIsLeft == Spec => []LimitIsForExcess
<1>1. TypeInv /\ PagesReadInv => LimitIsForExcess
  <2> SUFFICES ASSUME TypeInv, PagesReadInv, NEW t \in Tasks, pc[t] = "loop",
                      local[t].after < local[t].snap.seq, ~Behind(t)
               PROVE  local[t].after >= local[t].begun + MaxPages * FullPage
    BY DEF LimitIsForExcess, FullPage
  <2>1. local[t].pages \in 0..MaxPages /\ ~(local[t].pages < MaxPages)
    BY TaskFacts DEF Locals, Behind
  <2>2. local[t].pages = MaxPages
    BY <2>1, PageAssumption
  <2>3. local[t].begun + MaxPages * FullPage <= local[t].after
    BY <2>2 DEF PagesReadInv, PagesRead
  <2> QED BY <2>3
<1> QED BY <1>1, PagesReadInvariant, TypeInvariant, PTL

\* One page fewer to go, and a full one read.
LEMMA PagesToGo ==
    ASSUME NEW k \in Nat, NEW size \in Nat, NEW pages \in Nat, k < pages
    PROVE  /\ (pages - k) * size = (pages - (k + 1)) * size + size
           /\ (pages - (k + 1)) * size \in Nat
<1>1. pages - (k + 1) \in Nat
  OBVIOUS
<1>2. ((pages - (k + 1)) + 1) * size = (pages - (k + 1)) * size + size
  BY <1>1, NextMultiple
<1>3. (pages - (k + 1)) + 1 = pages - k
  OBVIOUS
<1>4. ASSUME NEW m \in Nat PROVE m * size \in Nat
  OBVIOUS
<1> QED BY <1>1, <1>2, <1>3, <1>4

LEMMA PagesLeftStep ==
    ASSUME TypeInv, BackedInv, BufferFits, PagesReadInv, PagesLeftInv, [Next]_vars
    PROVE  PagesLeftInv'
<1> SUFFICES ASSUME NEW t \in Tasks, pc'[t] # "idle"
             PROVE  PagesLeft(pc[t], local[t])'
  BY DEF PagesLeftInv
<1> DEFINE l == local[t]
           m == local'[t]
<1>l. /\ l \in Locals /\ PagesRead(pc[t], l) /\ Control(pc[t], l) /\ Backed(pc[t], l)
      /\ pc[t] # "idle" => PagesLeft(pc[t], l)
  BY TaskFacts DEF PagesReadInv, PagesLeftInv, BackedInv
<1>n. /\ stream \in Nat /\ newest \in Nat /\ oldest \in Nat
      /\ l.pages \in 0..MaxPages /\ l.after \in Nat /\ MaxPages \in Nat \ {0}
      /\ FullPage \in Nat
  BY <1>l, PageAssumption, SeqAssumption, StreamsAssumption, FullPageType
     DEF Locals, TypeInv, TypeOK, CollectorTypeOK, Streams
<1>s. l.snap \in Snapshots => l.snap.seq \in Nat /\ l.snap.stream \in Nat
  BY SeqAssumption, StreamsAssumption DEF Snapshots
<1>1. ASSUME UNCHANGED <<pc, local>>, stream' = stream \/ stream' = stream + 1
      PROVE  PagesLeft(pc[t], local[t])'
  <2>1. l.snap \in Snapshots /\ Stored(l.snap.stream, l.snap.seq)
    BY <1>1, <1>l DEF Control, Backed
  <2>2. l.snap.stream = stream' => stream' = stream
    BY <2>1, <1>1, <1>n, <1>s DEF Stored
  <2> QED BY <2>2, <1>1, <1>l DEF PagesLeft
<1>2. ASSUME pc'[t] = pc[t], local'[t] = local[t], UNCHANGED stream
      PROVE  PagesLeft(pc[t], local[t])'
  BY <1>2, <1>l DEF PagesLeft
<1>3. ASSUME PageMoves(t), UNCHANGED <<stream, oldest, newest>>
      PROVE  PagesLeft(pc[t], local[t])'
  <2> SUFFICES ASSUME m.snap.stream = stream
               PROVE  PagesLeft(pc'[t], m)
    BY <1>3 DEF PagesLeft
  <2>2. CASE pc'[t] \notin {"loop", "paged", "insert", "mark"}
    BY <2>2 DEF PagesLeft
  <2>5. CASE pc[t] = "marker" /\ pc'[t] = "loop" /\ m.pages = l.pages /\ m.snap = l.snap
    BY <2>5, <1>l DEF PagesRead, PagesLeft
  <2>6. CASE /\ pc[t] = "loop" /\ pc'[t] = "paged" /\ m.pages = l.pages /\ m.snap = l.snap
             /\ l.pages < MaxPages /\ m.page = ReadAfter(l.after, PageSize)
    <3> SUFFICES ASSUME m.page.hasMore
                 PROVE  l.snap.seq <= m.page.last + (MaxPages - (l.pages + 1)) * FullPage
      BY <2>6 DEF PagesLeft
    <3>1. /\ m.page.last \in Nat /\ l.after + FullPage <= m.page.last
          /\ oldest - 1 + FullPage <= m.page.last
      BY <2>6, <1>n, FullPageReaches
    <3>2. l.snap \in Snapshots /\ l.snap.seq <= newest
      BY <2>6, <1>l, <1>n, <1>s DEF Control, Backed, Stored
    <3> DEFINE left == (MaxPages - (l.pages + 1)) * FullPage
    <3>3. (MaxPages - l.pages) * FullPage = left + FullPage /\ left \in Nat
      BY <2>6, <1>n, PagesToGo
    <3> HIDE DEF left
    <3>4. l.snap.seq <= l.after + (left + FullPage) \/ l.pages = 0
      BY <2>6, <3>3, <1>l DEF PagesLeft
    <3>5. CASE l.pages = 0
      <4>1. newest - oldest < left + FullPage
        <5>1. MaxPages - l.pages = MaxPages
          BY <3>5, <1>n
        <5> QED BY <5>1, <3>3 DEF BufferFits
      <4> HIDE DEF l, m
      <4>2. l.snap.seq <= m.page.last + left
        BY <3>1, <3>2, <3>3, <4>1, <1>n, <1>s
      <4> QED BY <4>2 DEF left, l, m
    <3>6. CASE l.pages # 0
      <4> HIDE DEF l, m
      <4>1. l.snap.seq <= m.page.last + left
        BY <3>1, <3>2, <3>3, <3>4, <3>6, <1>n, <1>s
      <4> QED BY <4>1 DEF left, l, m
    <3> QED BY <3>5, <3>6
  <2>7. CASE /\ pc[t] = "paged" /\ pc'[t] = "insert" /\ m.pages = l.pages
             /\ m.page = l.page /\ m.snap = l.snap
    BY <2>7, <1>l DEF PagesLeft
  <2>8. CASE /\ pc[t] = "insert" /\ pc'[t] = "mark" /\ m.pages = l.pages
             /\ m.page = l.page /\ m.after = l.page.last /\ m.snap = l.snap
    BY <2>8, <1>l DEF PagesLeft
  <2>9. CASE /\ pc[t] = "mark" /\ pc'[t] = "loop" /\ l.page.hasMore
             /\ m.pages = l.pages + 1 /\ m.after = l.after /\ m.snap = l.snap
    BY <2>9, <1>l DEF PagesLeft
  <2> HIDE DEF l, m
  <2> QED
    BY <1>3, <2>2, <2>5, <2>6, <2>7, <2>8, <2>9 DEF PageMoves, l, m
<1>4. CASE CollectorNext /\ UNCHANGED monitorVars
  <2>1. stream' = stream \/ stream' = stream + 1
    BY <1>4, CollectorGrows DEF Grows
  <2> QED BY <2>1, <1>4, <1>1 DEF monitorVars
<1>5. CASE MonitorNext /\ UNCHANGED collectorVars
  <2>1. UNCHANGED <<stream, oldest, newest>>
    BY <1>5 DEF collectorVars, bufferVars
  <2> QED BY <2>1, <1>5, <1>2, <1>3, MonitorPageMoves
<1>6. CASE UNCHANGED vars
  BY <1>6, <1>2 DEF vars, collectorVars, bufferVars, monitorVars
<1> QED BY <1>4, <1>5, <1>6 DEF Next

\* As long as the buffer holds no more rows than a backfill may fetch, every backfill
\* of the stream that is sampled into reaches the live sequence it set out for.
THEOREM PagesReachTheLiveSequence == Spec /\ []BufferFits => []PagesReach
<1>1. Init => PagesLeftInv
  BY DEF Init, MonitorInit, PagesLeftInv
<1>2. TypeInv /\ BackedInv /\ BufferFits /\ PagesReadInv /\ PagesLeftInv /\ [Next]_vars
        => PagesLeftInv'
  BY PagesLeftStep
<1>3. TypeInv /\ PagesLeftInv => PagesReach
  <2> SUFFICES ASSUME TypeInv, PagesLeftInv, NEW t \in Tasks, pc[t] = "loop",
                      local[t].pages = MaxPages, local[t].snap.stream = stream
               PROVE  local[t].after >= local[t].snap.seq
    BY DEF PagesReach
  <2>1. local[t] \in Locals /\ local[t].snap \in Snapshots
    BY TaskFacts DEF Control
  <2>2. local[t].snap.seq <= local[t].after + (MaxPages - MaxPages) * FullPage
    BY PageAssumption DEF PagesLeftInv, PagesLeft
  <2>3. (MaxPages - MaxPages) * FullPage = 0
    BY FullPageType, PageAssumption
  <2> QED BY <2>1, <2>2, <2>3, SeqAssumption DEF Locals, Snapshots
<1> QED
  BY <1>1, <1>2, <1>3, TypeInvariant, BackedInvariant, PagesReadInvariant, PTL DEF Spec

\* The loop runs alone against a collector that always buffers.
Alone == Tasks = {Loop} /\ BufferModes = {TRUE}

LEMMA LoopInit == Alone /\ Init => LoopInv
<1> SUFFICES ASSUME Alone, Init PROVE LoopInv
  OBVIOUS
<1>1. enabled /\ historySupported # "no" /\ oldest = 1 /\ newest = 0 /\ archive = {}
  BY DEF Alone, Init, CollectorInit, MonitorInit
<1>2. \A q \in Sequences : ~Buffered(q)
  BY <1>1, SeqAssumption DEF Buffered, Sequences
<1>3. pc[Loop] = "idle" /\ latestSnapshot = NoSnapshot
  BY TasksAssumption DEF Init, MonitorInit
<1>4. LoopControl(pc[Loop], local[Loop])
  BY <1>3 DEF LoopControl, Settled, Replaying
<1> QED BY <1>1, <1>2, <1>4 DEF LoopInv, NoGap, Faithful

-----------------------------------------------------------------------------
\* What a step of the collector may do to the buffer.
BufferGrows ==
    /\ oldest <= newest \/ (oldest = 1 /\ newest = 0)
    /\ oldest' <= newest' \/ (oldest' = 1 /\ newest' = 0)
    /\ \/ stream' = stream /\ oldest <= oldest' /\ newest <= newest'
       \/ stream' = stream + 1 /\ oldest' = 1 /\ newest' = 0
    /\ \A s \in Streams, q \in Sequences :
          s # stream \/ q <= newest => captureOf'[s][q] = captureOf[s][q]

LEMMA BufferStep ==
    ASSUME Alone, TypeInv, LoopInv, CollectorNext
    PROVE  BufferGrows /\ enabled'
<1> USE DEF BufferGrows
<1>t. /\ stream \in Nat /\ oldest \in Nat /\ newest \in Nat /\ enabled
      /\ oldest <= newest \/ (oldest = 1 /\ newest = 0)
      /\ Sequences \subseteq Nat
      /\ captureOf \in [Streams -> [Sequences -> Captures]] /\ stream \in Streams
      /\ newest < MaxSeq => newest + 1 \in Sequences
  BY StreamsAssumption, SeqAssumption
     DEF TypeInv, TypeOK, CollectorTypeOK, Streams, Sequences, LoopInv
<1>r. ASSUME NEW mode \in BufferModes, RestartPoller(mode) PROVE enabled'
  BY <1>r DEF Alone, RestartPoller
<1>1. CASE PollThenSample
  BY <1>1, <1>t DEF PollThenSample, bufferVars
<1>2. CASE PollOnly
  BY <1>2, <1>t DEF PollOnly, bufferVars
<1>3. CASE Append
  <2>1. /\ stream' = stream /\ oldest' = oldest /\ newest' = newest + 1 /\ enabled'
        /\ captureOf' = [captureOf EXCEPT ![stream][newest + 1] = captured]
    BY <1>3, <1>t DEF Append
  <2>2. \A s \in Streams, q \in Sequences :
           s # stream \/ q <= newest => captureOf'[s][q] = captureOf[s][q]
    BY <2>1, <1>t
  <2> QED BY <2>1, <2>2, <1>t
<1>4. CASE AppendFails
  BY <1>4, <1>t DEF AppendFails, bufferVars
<1>5. CASE AppendReturns
  BY <1>5, <1>t DEF AppendReturns, bufferVars
<1>6. CASE Prune
  BY <1>6, <1>t DEF Prune
<1>7. CASE RestartCollector
  BY <1>7, <1>t, <1>r DEF RestartCollector, bufferVars
<1>8. CASE ReplaceBuffer
  BY <1>8, <1>t, <1>r DEF ReplaceBuffer
<1> QED
  BY <1>1, <1>2, <1>3, <1>4, <1>5, <1>6, <1>7, <1>8 DEF CollectorNext, PollerStep

\* A step of the collector neither opens a gap nor moves a cursor ahead.
LEMMA CollectorLoopStep ==
    ASSUME Alone, TypeInv, BackedInv, LoopInv, CollectorNext, UNCHANGED monitorVars
    PROVE  LoopInv'
<1> DEFINE at == pc[Loop]
           l  == local[Loop]
<1>g. BufferGrows /\ enabled'
  BY BufferStep
<1>u. UNCHANGED <<latestSnapshot, historySupported, backfillError, pc, local, archive,
                  erased, markers>>
  BY DEF monitorVars, memoryVars, storeVars
<1>s. MaxSeq \in Nat /\ Sequences \subseteq Nat /\ Streams \subseteq Nat
  BY StreamsAssumption, SeqAssumption DEF Streams, Sequences
<1>v. /\ stream \in Streams /\ newest \in Nat /\ oldest \in Nat
      /\ markers \in [Streams -> 0..MaxSeq]
  BY <1>s DEF TypeInv, TypeOK, CollectorTypeOK, MonitorTypeOK
<1>w. stream' \in Streams /\ newest' \in Nat /\ oldest' \in Nat
  <2>1. CollectorTypeOK'
    BY CollectorTypeStep DEF TypeInv, TypeOK, CollectorTypeInv
  <2> QED BY <2>1, <1>s DEF CollectorTypeOK
<1>t. /\ stream \in Nat /\ stream' \in Nat
      /\ stream' = stream => oldest <= oldest' /\ newest <= newest'
      /\ stream' = stream \/ (stream' = stream + 1 /\ oldest' = 1 /\ newest' = 0)
  BY <1>s, <1>v, <1>w, <1>g DEF BufferGrows
<1>l. l \in Locals /\ Control(at, l) /\ Backed(at, l)
  BY TaskFacts, TasksAssumption DEF BackedInv
<1>k. \A s, q : Kept(s, q)' <=> Kept(s, q)
  BY <1>u DEF Kept, Archived
<1>a. ASSUME stream' = stream, NEW n \in Nat, n <= newest, Accounted(n)
      PROVE  \A q \in Sequences : oldest' <= q /\ q <= newest' /\ q <= n => Kept(stream, q)
  BY <1>a, <1>s, <1>v, <1>w, <1>t DEF Accounted, Buffered
<1>1. NoGap'
  <2>1. CASE stream' = stream
    <3>1. markers[stream] \in Nat /\ markers[stream] <= newest
      BY <1>s, <1>v, <1>t DEF BackedInv, MarkerBacked
    <3>2. Accounted(markers[stream])
      BY DEF LoopInv, NoGap, Accounted
    <3> QED BY <2>1, <3>1, <3>2, <1>a, <1>u DEF NoGap, Buffered, Kept, Archived
  <2>2. CASE stream' = stream + 1 /\ newest' = 0 /\ oldest' = 1
    BY <2>2, <1>s DEF NoGap, Buffered
  <2> QED BY <2>1, <2>2, <1>t
<1>2. Faithful'
  <2> SUFFICES ASSUME NEW row \in archive, row.stream = stream'
               PROVE  row.capture = captureOf'[stream'][row.seq]
    BY <1>u DEF Faithful
  <2>1. row.stream \in Streams /\ row.seq \in Sequences
    BY DEF TypeInv, TypeOK, MonitorTypeOK, Rows
  <2>2. Stored(row.stream, row.seq)
    BY DEF BackedInv
  <2>3. stream' = stream /\ row.seq <= newest
    BY <2>1, <2>2, <1>s, <1>v, <1>w, <1>t DEF Stored
  <2>4. captureOf'[stream][row.seq] = captureOf[stream][row.seq]
    BY <2>1, <2>3, <1>v, <1>g DEF BufferGrows
  <2> QED BY <2>3, <2>4 DEF LoopInv, Faithful
<1>3. l.snap.stream = stream' /\ at # "idle" => stream' = stream
  BY <1>l, <1>s, <1>v, <1>w, <1>t DEF Backed, Control, Snapshots, Stored
<1>4. Settled => Settled'
  <2>1. latestSnapshot # NoSnapshot /\ latestSnapshot.stream = stream' => stream' = stream
    BY <1>s, <1>v, <1>w, <1>t DEF BackedInv, Stored, TypeInv, TypeOK, MonitorTypeOK,
       Snapshots
  <2> QED BY <2>1, <1>u DEF Settled, Labelled
<1>5. stream' = stream /\ Cursor(at, l) => Cursor(at, l)'
  <2> SUFFICES ASSUME stream' = stream, Cursor(at, l) PROVE Cursor(at, l)'
    OBVIOUS
  <2>1. l.after \in Nat /\ l.page.first \in Nat
    BY <1>l, <1>s DEF Locals, Pages
  <2>2. at \in {"loop", "paged", "insert", "mark", "backfilled"} =>
          /\ l.after <= newest'
          /\ \A q \in Sequences :
                oldest' <= q /\ q <= newest' /\ q <= l.after => Kept(stream, q)
    <3> SUFFICES ASSUME at \in {"loop", "paged", "insert", "mark", "backfilled"}
                 PROVE  /\ l.after <= newest'
                        /\ \A q \in Sequences : oldest' <= q /\ q <= newest' /\ q <= l.after
                                                 => Kept(stream, q)
      OBVIOUS
    <3>1. l.after <= newest /\ Accounted(l.after)
      BY DEF Cursor
    <3>2. l.after <= newest'
      BY <2>1, <3>1, <1>v, <1>w, <1>t
    <3> HIDE DEF l
    <3>3. \A q \in Sequences : oldest' <= q /\ q <= newest' /\ q <= l.after
                               => Kept(stream, q)
      BY <2>1, <3>1, <1>a
    <3> QED BY <3>2, <3>3
  <2>3. at \in {"paged", "insert"} =>
          l.page.first <= l.after + 1 \/ l.page.first <= oldest'
    BY <2>1, <1>s, <1>v, <1>w, <1>t DEF Cursor
  <2> QED
    BY <2>2, <2>3, <1>u DEF Cursor, Accounted, Buffered, Kept, Archived
<1>6. LoopControl(at, l)'
  BY <1>3, <1>4, <1>5, <1>u DEF LoopInv, LoopControl, Labelled, Replaying
<1> QED
  BY <1>1, <1>2, <1>6, <1>g, <1>u DEF LoopInv, BufferGrows

-----------------------------------------------------------------------------
(* The monitor.                                                            *)

\* All that is buffered up to n is in the next store.
AccountedNext(n) ==
    \A q \in Sequences : Buffered(q) /\ q <= n => Holds(archive', erased', stream, q)

LEMMA StillAccounted ==
    ASSUME StoreGrows, NEW n, Accounted(n)
    PROVE  AccountedNext(n)
BY DEF StoreGrows, Accounted, AccountedNext

\* With the current stream's marker where it was, or on an accounted row.
LEMMA NoGapStep ==
    ASSUME UNCHANGED collectorVars, AccountedNext(markers'[stream])
    PROVE  NoGap'
BY DEF collectorVars, bufferVars, AccountedNext, NoGap, Buffered, Holds, Kept, Archived

LEMMA NoGapKept ==
    ASSUME LoopInv, StoreGrows, UNCHANGED collectorVars,
           markers'[stream] = markers[stream]
    PROVE  NoGap'
<1>1. Accounted(markers[stream])
  BY DEF LoopInv, NoGap, Accounted
<1> QED BY <1>1, StillAccounted, NoGapStep

\* Rows inserted for the current stream are those of the buffer.
LEMMA FaithfulInsert ==
    ASSUME LoopInv, UNCHANGED collectorVars, NEW rows, Insert(rows),
           \A row \in rows : row.stream = stream => row.capture = captureOf[stream][row.seq]
    PROVE  Faithful'
BY DEF LoopInv, Faithful, Insert, collectorVars, bufferVars

LEMMA FaithfulShrink ==
    ASSUME LoopInv, UNCHANGED collectorVars, archive' \subseteq archive
    PROVE  Faithful'
BY DEF LoopInv, Faithful, collectorVars, bufferVars

LEMMA PageRowsFaithful ==
    ASSUME NEW page, NEW last
    PROVE  \A row \in PageRows(page, last) :
              row.stream = stream => row.capture = captureOf[stream][row.seq]
BY DEF PageRows

\* Where the loop is after a step of its own.
LEMMA Moved ==
    ASSUME TypeInv, NEW next, NEW locals, Go(Loop, next, locals)
    PROVE  pc'[Loop] = next /\ local'[Loop] = locals
BY TasksAssumption DEF TypeInv, TypeOK, MonitorTypeOK, Go

LEMMA RestLoop ==
    ASSUME TypeInv, Rest(Loop), ~backfillError' => Settled'
    PROVE  LoopControl(pc[Loop], local[Loop])'
<1>1. pc'[Loop] = "idle"
  BY Moved DEF Rest
<1> QED BY <1>1 DEF LoopControl, Replaying

LEMMA BeginPersistLoop ==
    ASSUME TypeInv, NEW history, BeginPersist(Loop, latestSnapshot', history),
           history # "no", ~backfillError' => Settled'
    PROVE  LoopControl(pc[Loop], local[Loop])'
<1>1. CASE Rest(Loop)
  BY <1>1, RestLoop
<1>2. CASE ~Rest(Loop)
  <2> DEFINE latest == latestSnapshot'
             next   == IF Labelled(latest) /\ history # "no" THEN "check" ELSE "write"
             locals == [Fresh EXCEPT !.snap = latest]
  <2>1. Go(Loop, next, locals)
    BY <1>2 DEF BeginPersist
  <2>2. pc'[Loop] = next /\ local'[Loop] = locals
    BY <2>1, Moved
  <2>3. local'[Loop].snap = latestSnapshot'
    BY <2>2 DEF Fresh
  <2>4. \/ pc'[Loop] = "check"
        \/ pc'[Loop] = "write" /\ ~Labelled(latestSnapshot')
    BY <2>2
  <2>5. LoopControl(pc[Loop], local[Loop])'
    BY <2>3, <2>4 DEF LoopControl, Replaying, Labelled
  <2> QED BY <2>5
<1> QED BY <1>1, <1>2

\* What was settled stays so while the live cache and its marker stay.
LEMMA StaySettled ==
    ASSUME Settled, UNCHANGED collectorVars, UNCHANGED latestSnapshot,
           markers'[stream] = markers[stream]
    PROVE  Settled'
BY DEF Settled, Labelled, collectorVars, bufferVars

\* Every step of the loop keeps the archive complete and its cursor honest.
LEMMA LoopTaskStep ==
    ASSUME Alone, TypeInv, BackedInv, LoopInv, PagesReach, TaskStep(Loop),
           UNCHANGED collectorVars
    PROVE  /\ NoGap' /\ Faithful' /\ historySupported' # "no"
           /\ LoopControl(pc[Loop], local[Loop])'
<1> DEFINE at == pc[Loop]
           l  == local[Loop]
           Good == /\ NoGap /\ Faithful /\ historySupported # "no"
                   /\ LoopControl(pc[Loop], local[Loop])
<1>l. l \in Locals /\ Control(at, l) /\ Backed(at, l) /\ LoopControl(at, l)
  BY TaskFacts, TasksAssumption DEF BackedInv, LoopInv
<1>s. MaxSeq \in Nat /\ Sequences \subseteq Nat /\ Streams \subseteq Nat
  BY StreamsAssumption, SeqAssumption DEF Streams, Sequences
<1>v. /\ stream \in Streams /\ newest \in Nat /\ oldest \in Nat
      /\ markers \in [Streams -> 0..MaxSeq]
      /\ oldest <= newest \/ (oldest = 1 /\ newest = 0)
  BY <1>s DEF TypeInv, TypeOK, CollectorTypeOK, MonitorTypeOK, LoopInv
<1>e. enabled /\ historySupported # "no"
  BY DEF LoopInv
<1>u. stream' = stream /\ oldest' = oldest /\ newest' = newest
  BY DEF collectorVars, bufferVars
<1>n. l.after \in Nat /\ l.page.first \in Nat /\ l.page.last \in Nat
  BY <1>l, <1>s DEF Locals, Pages
<1>k. ASSUME UNCHANGED storeVars
      PROVE  NoGap' /\ Faithful' /\ StoreGrows /\ markers' = markers
  BY <1>k, SameStoreGrows, NoGapKept, FaithfulShrink DEF storeVars
<1>p. ASSUME NEW history, history # "no", UNCHANGED latestSnapshot,
             BeginPersist(Loop, latestSnapshot, history), ~backfillError' => Settled'
      PROVE  LoopControl(pc[Loop], local[Loop])'
  BY <1>p, BeginPersistLoop
<1>y. ASSUME at \in Replaying, UNCHANGED latestSnapshot,
             l.snap.stream = stream => l.snap.seq <= markers'[stream]
      PROVE  Settled'
  <2>1. latestSnapshot' = l.snap
    BY <1>y, <1>l DEF LoopControl
  <2> QED BY <2>1, <1>y, <1>u DEF Settled
<1> HIDE DEF at, l
<1>1. CASE FetchSnapshot(Loop)
  <2>1. /\ at = "idle" /\ UNCHANGED memoryVars /\ UNCHANGED storeVars
        /\ pc'[Loop] = "fetched"
    BY <1>1, Moved DEF FetchSnapshot, at
  <2>2. ~backfillError => Settled
    BY <2>1, <1>l DEF LoopControl, Replaying
  <2>3. ~backfillError' => Settled'
    BY <2>1, <2>2, <1>k, StaySettled DEF memoryVars
  <2>4. LoopControl(pc[Loop], local[Loop])'
    BY <2>1, <2>3 DEF LoopControl, Replaying
  <2> QED BY <2>1, <2>4, <1>k, <1>e DEF memoryVars
<1>2. CASE Receive(Loop)
  <2>1. /\ at = "fetched" /\ latestSnapshot' = l.snap /\ UNCHANGED storeVars
        /\ historySupported' = historySupported
        /\ IF Labelled(l.snap) THEN Go(Loop, "marker", l)
                               ELSE BeginPersist(Loop, l.snap, historySupported')
    BY <1>2, <1>e DEF Receive, at, l
  <2>2. CASE Labelled(l.snap)
    <3>1. pc'[Loop] = "marker" /\ local'[Loop] = l
      BY <2>1, <2>2, Moved
    <3>2. LoopControl(pc[Loop], local[Loop])'
      BY <3>1, <2>1 DEF LoopControl, Cursor, Replaying
    <3> QED BY <3>2, <2>1, <1>k, <1>e
  <2>3. CASE ~Labelled(l.snap)
    <3>1. Settled'
      BY <2>1, <2>3 DEF Settled, Labelled
    <3>2. LoopControl(pc[Loop], local[Loop])'
      BY <3>1, <2>1, <2>3, <1>e, BeginPersistLoop
    <3> QED BY <3>2, <2>1, <1>k, <1>e
  <2> QED BY <2>2, <2>3
<1>3. CASE ReadMarker(Loop)
  <2> DEFINE marker == markers[l.snap.stream]
             start  == IF marker > l.snap.seq THEN 0 ELSE marker
             locals == [l EXCEPT !.after = start, !.begun = start]
  <2>1. /\ at = "marker" /\ UNCHANGED memoryVars /\ UNCHANGED storeVars
        /\ Go(Loop, "loop", locals)
    BY <1>3 DEF ReadMarker, at, l
  <2>2. /\ pc'[Loop] = "loop" /\ local'[Loop].after = start
        /\ local'[Loop].snap = l.snap
    <3>1. locals.after = start /\ locals.snap = l.snap
      BY <1>l DEF Locals
    <3> HIDE DEF locals
    <3> QED BY <2>1, <3>1, Moved
  <2>3. l.snap = latestSnapshot /\ l.snap \in Snapshots /\ Stored(l.snap.stream, l.snap.seq)
    BY <2>1, <1>l DEF LoopControl, Control, Backed, Replaying
  <2>4. ASSUME l.snap.stream = stream
        PROVE  start <= newest /\ start <= markers[stream] /\ AccountedNext(start)
    <3>1. l.snap.seq \in Nat /\ l.snap.seq <= newest /\ marker \in Nat
      BY <2>3, <2>4, <1>s, <1>v DEF Snapshots, Stored
    <3>2. Accounted(markers[stream]) /\ Accounted(0)
      BY <1>s DEF LoopInv, NoGap, Accounted, Sequences
    <3>3. AccountedNext(start)
      BY <3>2, <2>1, <2>4, <1>k, StillAccounted
    <3> QED BY <3>1, <3>3, <2>4, <1>v
  <2>5. LoopControl(pc[Loop], local[Loop])'
    BY <2>1, <2>2, <2>3, <2>4, <1>u, <1>k
       DEF LoopControl, Replaying, memoryVars, Cursor, Accounted, AccountedNext, Holds,
           Kept, Archived, Buffered
  <2> QED BY <2>5, <2>1, <1>k, <1>e DEF memoryVars
<1>4. CASE FetchPage(Loop)
  <2> DEFINE page == ReadAfter(l.after, PageSize)
  <2>1. /\ at = "loop" /\ Behind(Loop) /\ UNCHANGED memoryVars /\ UNCHANGED storeVars
        /\ Go(Loop, "paged", [l EXCEPT !.page = page])
    BY <1>4, <1>e DEF FetchPage, at, l
  <2>2. /\ l.snap = latestSnapshot /\ l.snap \in Snapshots
        /\ Stored(l.snap.stream, l.snap.seq) /\ l.after < l.snap.seq
        /\ l.snap.stream = stream => Cursor("loop", l)
    BY <2>1, <1>l DEF LoopControl, Control, Backed, Replaying, Behind, l
  <2>3. ASSUME l.snap.stream = stream
        PROVE  /\ page.stream = stream /\ page.first <= page.last
               /\ page.first <= l.after + 1 \/ page.first <= oldest
               /\ ~page.hasMore => l.snap.seq <= page.last
    <3> DEFINE low  == IF l.after < oldest THEN oldest ELSE l.after + 1
               size == SafeLimit(PageSize)
    <3>1. l.snap.seq \in Nat /\ l.snap.seq <= newest
      BY <2>2, <2>3, <1>s, <1>v DEF Snapshots, Stored
    <3>2. /\ low \in Nat /\ low <= newest
          /\ low <= l.after + 1 \/ low <= oldest
      BY <3>1, <2>2, <1>n, <1>v
    <3>3. size \in Nat \ {0}
      BY PageAssumption DEF SafeLimit
    <3> HIDE DEF low, size
    <3>4. /\ page.stream = stream /\ page.first = low
          /\ page.last = (IF low + size - 1 < newest THEN low + size - 1 ELSE newest)
          /\ page.hasMore \/ page.last = newest
      BY DEF ReadAfter, low, size
    <3> HIDE DEF page
    <3> QED BY <3>1, <3>2, <3>3, <3>4, <1>v
  <2> HIDE DEF page
  <2>4. /\ pc'[Loop] = "paged" /\ local'[Loop].after = l.after
        /\ local'[Loop].snap = l.snap /\ local'[Loop].page = page
    BY <2>1, <1>l, Moved DEF Locals
  <2>5. l.snap.stream = stream => l.after <= newest /\ AccountedNext(l.after)
    BY <2>1, <2>2, <1>k, StillAccounted DEF Cursor
  <2>6. LoopControl(pc[Loop], local[Loop])'
    BY <2>1, <2>2, <2>3, <2>4, <2>5, <1>u
       DEF LoopControl, Replaying, memoryVars, Cursor, Accounted, AccountedNext, Holds,
           Kept, Archived, Buffered
  <2> QED BY <2>6, <2>1, <1>k, <1>e DEF memoryVars
<1>5. CASE HistoryGone(Loop)
  BY <1>5, <1>l DEF HistoryGone, LoopControl, at
<1>6. CASE ReceivePage(Loop)
  <2>1. /\ at = "paged" /\ historySupported' = "yes" /\ UNCHANGED latestSnapshot
        /\ UNCHANGED storeVars
    BY <1>6 DEF ReceivePage, at
  <2>2. CASE l.page.first <= l.page.last
    <3>1. pc'[Loop] = "insert" /\ local'[Loop] = l
      BY <2>2, <1>6, Moved DEF ReceivePage, l
    <3>2. l.snap.stream = stream => AccountedNext(l.after)
      BY <2>1, <1>l, <1>k, StillAccounted DEF LoopControl, Cursor, Replaying
    <3>3. LoopControl(pc[Loop], local[Loop])'
      BY <3>1, <3>2, <2>1, <1>l, <1>u
         DEF LoopControl, Replaying, Cursor, Accounted, AccountedNext, Holds,
             Kept, Archived, Buffered
    <3> QED BY <3>3, <2>1, <1>k
  <2>3. CASE ~(l.page.first <= l.page.last)
    <3>1. BeginPersist(Loop, latestSnapshot, "yes")
      BY <2>3, <1>6 DEF ReceivePage, l
    <3>2. l.snap.stream # stream
      BY <2>1, <2>3, <1>l DEF LoopControl, Cursor, Replaying
    <3>3. Settled'
      BY <3>2, <2>1, <1>y DEF Replaying
    <3> QED BY <3>1, <3>3, <2>1, <1>k, <1>p
  <2> QED BY <2>2, <2>3
<1>7. CASE InsertPage(Loop)
  <2> DEFINE page == l.page
  <2>1. /\ at = "insert" /\ Insert(PageRows(page, page.last))
        /\ Go(Loop, "mark", [l EXCEPT !.after = page.last])
        /\ UNCHANGED memoryVars /\ UNCHANGED <<markers, erased>>
    BY <1>7 DEF InsertPage, at, l
  <2>2. /\ l.snap = latestSnapshot
        /\ l.snap.stream = stream => Cursor("insert", l)
        /\ page \in Pages /\ page.stream \in Streams /\ page.last \in 0..MaxSeq
        /\ Stored(page.stream, page.last)
    BY <2>1, <1>l DEF LoopControl, Control, Backed, Replaying, Locals, Pages
  <2>3. /\ StoreGrows
        /\ \A row \in PageRows(page, page.last) : Holds(archive', erased', row.stream, row.seq)
    BY <2>1, <2>2, <1>n, PageRowsStored, InsertGrows
  <2>4. NoGap' /\ Faithful'
    BY <2>1, <2>3, NoGapKept, PageRowsFaithful, FaithfulInsert
  <2>5. /\ pc'[Loop] = "mark" /\ local'[Loop].after = page.last
        /\ local'[Loop].snap = l.snap /\ local'[Loop].page = page
    BY <2>1, <1>l, Moved DEF Locals
  <2>6. ASSUME l.snap.stream = stream
        PROVE  page.last <= newest /\ AccountedNext(page.last)
    <3>1. page.stream = stream /\ page.last <= newest
      <4>1. page.stream = stream
        BY <2>2, <2>6 DEF Cursor
      <4>2. stream \in Nat
        BY <1>s, <1>v
      <4> QED BY <4>1, <4>2, <2>2 DEF Stored
    <3>2. ASSUME NEW q \in Sequences, Buffered(q), q <= page.last
          PROVE  Holds(archive', erased', stream, q)
      <4>1. CASE q <= l.after
        BY <3>2, <4>1, <2>2, <2>3, <2>6 DEF Cursor, Accounted, StoreGrows
      <4>2. CASE ~(q <= l.after)
        <5>1. q \in page.first..page.last
          BY <3>2, <4>2, <2>2, <2>6, <1>n, <1>s, <1>v DEF Cursor, Buffered
        <5> DEFINE row == [stream |-> page.stream, seq |-> q,
                           capture |-> captureOf[page.stream][q]]
        <5>2. row \in PageRows(page, page.last)
          BY <5>1 DEF PageRows
        <5>3. Holds(archive', erased', row.stream, row.seq)
          BY <5>2, <2>3
        <5> QED BY <5>3, <3>1
      <4> QED BY <4>1, <4>2
    <3> QED BY <3>1, <3>2 DEF AccountedNext
  <2>7. LoopControl(pc[Loop], local[Loop])'
    BY <2>1, <2>2, <2>5, <2>6, <1>u
       DEF LoopControl, Replaying, memoryVars, Cursor, Accounted, AccountedNext, Holds,
           Kept, Archived, Buffered
  <2> QED BY <2>4, <2>7, <2>1, <1>e DEF memoryVars
<1>8. CASE MarkPage(Loop)
  <2> DEFINE next   == IF l.page.hasMore THEN "loop" ELSE "backfilled"
             locals == [l EXCEPT !.pages = @ + 1, !.page = NoPage]
  <2>1. /\ at = "mark" /\ UNCHANGED memoryVars /\ UNCHANGED <<archive, erased>>
        /\ markers' = [markers EXCEPT ![l.snap.stream] = l.after]
        /\ Go(Loop, next, locals)
    BY <1>8 DEF MarkPage, at, l
  <2>2. /\ l.snap = latestSnapshot
        /\ l.snap.stream = stream => Cursor("mark", l)
    BY <2>1, <1>l DEF LoopControl, Replaying
  <2>3. StoreGrows
    BY <2>1, SameStoreGrows
  <2>4. /\ l.snap.stream = stream => markers'[stream] = l.after /\ AccountedNext(l.after)
        /\ l.snap.stream # stream => markers'[stream] = markers[stream]
    BY <2>1, <2>2, <2>3, <1>v, StillAccounted DEF Cursor
  <2>5. NoGap'
    BY <2>3, <2>4, NoGapKept, NoGapStep
  <2>6. Faithful'
    BY <2>1, FaithfulShrink
  <2>7. /\ pc'[Loop] = "loop" \/ (pc'[Loop] = "backfilled" /\ ~l.page.hasMore)
        /\ local'[Loop].after = l.after /\ local'[Loop].snap = l.snap
    <3>1. pc'[Loop] = next /\ local'[Loop] = locals
      BY <2>1, Moved
    <3>2. locals.after = l.after /\ locals.snap = l.snap
      BY <1>l DEF Locals
    <3> QED BY <3>1, <3>2
  <2>8. LoopControl(pc[Loop], local[Loop])'
    BY <2>1, <2>2, <2>4, <2>7, <1>u, <1>n
       DEF LoopControl, Replaying, memoryVars, Cursor, Accounted, AccountedNext, Holds,
           Kept, Archived, Buffered
  <2> QED BY <2>5, <2>6, <2>8, <2>1, <1>e DEF memoryVars
<1>9. CASE EndBackfill(Loop)
  <2>1. /\ at = "backfilled" \/ (at = "loop" /\ ~Behind(Loop))
        /\ BeginPersist(Loop, latestSnapshot, historySupported)
        /\ UNCHANGED latestSnapshot /\ UNCHANGED historySupported /\ UNCHANGED storeVars
    BY <1>9 DEF EndBackfill, at
  <2>2. l.snap \in Snapshots /\ l.pages \in 0..MaxPages
    BY <2>1, <1>l DEF Control, Locals
  <2>3. at = "loop" /\ l.snap.stream = stream => l.snap.seq <= l.after
    <3>1. CASE l.pages < MaxPages
      BY <3>1, <2>1, <2>2, <1>n, <1>s DEF Behind, l, Snapshots
    <3>2. CASE l.pages = MaxPages
      BY <3>2, <2>1, <2>2, <1>n, <1>s, TasksAssumption DEF PagesReach, at, l, Snapshots
    <3> QED BY <3>1, <3>2, <2>2, PageAssumption
  <2>4. l.snap.stream = stream => l.snap.seq <= markers'[stream]
    BY <2>1, <2>2, <2>3, <1>l, <1>k, <1>n, <1>s, <1>v
       DEF LoopControl, Cursor, Replaying, Snapshots
  <2>5. Settled'
    BY <2>1, <2>4, <1>y DEF Replaying
  <2> QED BY <2>1, <2>5, <1>e, <1>k, <1>p
<1>10. CASE BackfillFails(Loop)
  <2>1. /\ backfillError' = TRUE /\ BeginPersist(Loop, latestSnapshot, historySupported)
        /\ UNCHANGED latestSnapshot /\ UNCHANGED historySupported /\ UNCHANGED storeVars
    BY <1>10 DEF BackfillFails
  <2> QED BY <2>1, <1>e, <1>k, <1>p
<1>11. CASE InsertPageFails(Loop)
  <2> DEFINE page == l.page
  <2>1. /\ at = "insert" /\ backfillError' = TRUE
        /\ BeginPersist(Loop, latestSnapshot, historySupported)
        /\ UNCHANGED <<latestSnapshot, historySupported, markers, erased>>
    BY <1>11 DEF InsertPageFails, at
  <2>2. PICK last \in page.first..page.last : Insert(PageRows(page, last))
    BY <1>11 DEF InsertPageFails, l
  <2>3. /\ page \in Pages /\ page.stream \in Streams /\ Stored(page.stream, page.last)
        /\ page.first \in 1..MaxSeq + 1 /\ page.last \in 0..MaxSeq
    BY <2>1, <1>l DEF Control, Locals, Pages, Backed
  <2>4. last \in 0..MaxSeq /\ last <= page.last
    BY <2>3, <1>s
  <2>5. StoreGrows
    BY <2>1, <2>2, <2>3, <2>4, PageRowsStored, InsertGrows
  <2>6. NoGap' /\ Faithful'
    BY <2>1, <2>2, <2>5, NoGapKept, PageRowsFaithful, FaithfulInsert
  <2> QED BY <2>1, <2>6, <1>e, <1>p
<1>12. CASE CheckMarker(Loop)
  <2> DEFINE locals == [l EXCEPT !.processed = markers[l.snap.stream]]
  <2>1. /\ at = "check" /\ UNCHANGED memoryVars /\ UNCHANGED storeVars
        /\ Go(Loop, "decide", locals)
    BY <1>12 DEF CheckMarker, at, l
  <2>2. locals.snap = l.snap /\ locals.processed = markers[l.snap.stream]
    BY <1>l DEF Locals
  <2> HIDE DEF locals
  <2>3. pc'[Loop] = "decide" /\ local'[Loop] = locals
    BY <2>1, Moved
  <2>4. l.snap = latestSnapshot /\ (~backfillError => Settled)
    BY <2>1, <1>l DEF LoopControl, Replaying
  <2>5. ~backfillError' => Settled'
    BY <2>1, <2>4, <1>k, StaySettled DEF memoryVars
  <2>6. LoopControl(pc[Loop], local[Loop])'
    BY <2>1, <2>2, <2>3, <2>4, <2>5, <1>k DEF LoopControl, Replaying, memoryVars
  <2> QED BY <2>6, <2>1, <1>k, <1>e DEF memoryVars
<1>13. CASE Decide(Loop)
  <2> DEFINE locals == [l EXCEPT !.processed = 0]
  <2>1. /\ at = "decide" /\ UNCHANGED memoryVars /\ UNCHANGED storeVars
        /\ \/ Rest(Loop)
           \/ /\ ~(l.processed >= l.snap.seq) /\ ~backfillError
              /\ Go(Loop, "write", locals)
    BY <1>13 DEF Decide, at, l
  <2>2. /\ l.snap = latestSnapshot /\ l.processed = markers[l.snap.stream]
        /\ ~backfillError => Settled
        /\ l.snap \in Snapshots /\ Labelled(l.snap)
    BY <2>1, <1>l DEF LoopControl, Control, Replaying
  <2>3. ~backfillError' => Settled'
    BY <2>1, <2>2, <1>k, StaySettled DEF memoryVars
  <2>4. CASE Rest(Loop)
    BY <2>1, <2>3, <2>4, <1>e, <1>k, RestLoop DEF memoryVars
  <2>5. CASE ~Rest(Loop)
    <3>1. l.snap.stream # stream
      BY <2>1, <2>2, <2>5, <1>s, <1>v, SnapshotAssumption DEF Settled, Snapshots
    <3>2. locals.snap = l.snap
      BY <1>l DEF Locals
    <3> HIDE DEF locals
    <3>3. pc'[Loop] = "write" /\ local'[Loop] = locals
      BY <2>1, <2>5, Moved
    <3>4. LoopControl(pc[Loop], local[Loop])'
      BY <2>1, <2>2, <2>3, <3>1, <3>2, <3>3, <1>u DEF LoopControl, Replaying, memoryVars
    <3> QED BY <3>4, <2>1, <1>e, <1>k DEF memoryVars
  <2> QED BY <2>4, <2>5
<1>w. ASSUME at = "write", InsertLive(l.snap), UNCHANGED memoryVars,
             UNCHANGED <<markers, erased>>
      PROVE  /\ NoGap' /\ Faithful' /\ historySupported' # "no"
             /\ l.snap = latestSnapshot /\ (~backfillError' => Settled')
             /\ Labelled(l.snap) => l.snap.stream # stream
  <2>1. /\ l.snap = latestSnapshot /\ (~backfillError => Settled)
        /\ Labelled(l.snap) => l.snap.stream # stream
        /\ Stored(l.snap.stream, l.snap.seq)
    BY <1>w, <1>l DEF LoopControl, Backed, Replaying
  <2>2. CASE Labelled(l.snap)
    <3>1. Insert({l.snap}) /\ StoreGrows
      BY <2>1, <2>2, <1>w, InsertGrows DEF InsertLive
    <3>2. Faithful'
      BY <2>1, <2>2, <3>1, FaithfulInsert
    <3> QED BY <2>1, <3>1, <3>2, <1>w, <1>e, NoGapKept, StaySettled DEF memoryVars
  <2>3. CASE ~Labelled(l.snap)
    <3>1. archive' = archive /\ StoreGrows
      BY <2>3, <1>w, SameStoreGrows DEF InsertLive
    <3>2. Faithful'
      BY <3>1, FaithfulShrink
    <3> QED BY <2>1, <3>1, <3>2, <1>w, <1>e, NoGapKept, StaySettled DEF memoryVars
  <2> QED BY <2>2, <2>3
<1>14. CASE WriteLive(Loop)
  <2>1. /\ at = "write" /\ InsertLive(l.snap) /\ UNCHANGED memoryVars
        /\ UNCHANGED <<markers, erased>>
        /\ Rest(Loop) \/ (Labelled(l.snap) /\ Go(Loop, "writeMark", l))
    BY <1>14 DEF WriteLive, at, l
  <2>2. CASE Rest(Loop)
    BY <2>1, <2>2, <1>w, RestLoop
  <2>3. CASE Labelled(l.snap) /\ Go(Loop, "writeMark", l)
    <3>1. pc'[Loop] = "writeMark" /\ local'[Loop] = l
      BY <2>3, Moved
    <3>2. LoopControl(pc[Loop], local[Loop])'
      BY <3>1, <2>1, <2>3, <1>w, <1>u DEF LoopControl, Replaying, memoryVars
    <3> QED BY <3>2, <2>1, <1>w
  <2> QED BY <2>1, <2>2, <2>3
<1>15. CASE WriteLiveFails(Loop)
  <2>1. /\ at = "write" /\ InsertLive(l.snap) /\ UNCHANGED memoryVars
        /\ UNCHANGED <<markers, erased>> /\ Rest(Loop)
    BY <1>15 DEF WriteLiveFails, at, l
  <2> QED BY <2>1, <1>w, RestLoop
<1>16. CASE MarkLive(Loop)
  <2>1. /\ at = "writeMark" /\ Rest(Loop) /\ UNCHANGED memoryVars
        /\ markers' = [markers EXCEPT ![l.snap.stream] = l.snap.seq]
        /\ UNCHANGED <<archive, erased>>
    BY <1>16 DEF MarkLive, at, l
  <2>2. /\ l.snap.stream # stream /\ (~backfillError => Settled)
    BY <2>1, <1>l DEF LoopControl, Control, Replaying
  <2>3. markers'[stream] = markers[stream]
    BY <2>1, <2>2, <1>v
  <2>4. NoGap' /\ Faithful'
    BY <2>1, <2>3, SameStoreGrows, NoGapKept, FaithfulShrink
  <2>5. ~backfillError' => Settled'
    BY <2>1, <2>2, <2>3, StaySettled DEF memoryVars
  <2> QED BY <2>1, <2>4, <2>5, <1>e, RestLoop DEF memoryVars
<1>17. CASE PersistFails(Loop)
  <2>1. /\ at \in {"check", "write", "writeMark"} /\ Rest(Loop)
        /\ UNCHANGED memoryVars /\ UNCHANGED storeVars
    BY <1>17 DEF PersistFails, at
  <2>2. ~backfillError => Settled
    BY <2>1, <1>l DEF LoopControl, Replaying
  <2>3. ~backfillError' => Settled'
    BY <2>1, <2>2, <1>k, StaySettled DEF memoryVars
  <2> QED BY <2>1, <2>3, <1>e, <1>k, RestLoop DEF memoryVars
<1> QED
  BY <1>1, <1>2, <1>3, <1>4, <1>5, <1>6, <1>7, <1>8, <1>9, <1>10, <1>11, <1>12,
     <1>13, <1>14, <1>15, <1>16, <1>17
     DEF TaskStep, PollTask, BackfillTask, PersistTask

\* So do the failed poll, retention, purge and restart.
LEMMA MonitorLoopStep ==
    ASSUME Alone, TypeInv, BackedInv, LoopInv, PagesReach, MonitorNext,
           UNCHANGED collectorVars
    PROVE  /\ NoGap' /\ Faithful' /\ historySupported' # "no"
           /\ LoopControl(pc[Loop], local[Loop])'
<1>c. LoopControl(pc[Loop], local[Loop]) /\ historySupported # "no"
  BY DEF LoopInv
<1>u. stream' = stream /\ oldest' = oldest /\ newest' = newest
  BY DEF collectorVars, bufferVars
<1>e. ASSUME UNCHANGED <<memoryVars, pc, local, markers>>, StoreGrows,
             archive' \subseteq archive
      PROVE  /\ NoGap' /\ Faithful' /\ historySupported' # "no"
             /\ LoopControl(pc[Loop], local[Loop])'
  <2>1. NoGap' /\ Faithful'
    BY <1>e, NoGapKept, FaithfulShrink
  <2>2. Accounted(local[Loop].after) => AccountedNext(local[Loop].after)
    BY <1>e, StillAccounted
  <2>3. LoopControl(pc[Loop], local[Loop])'
    BY <2>2, <1>c, <1>e, <1>u
       DEF LoopControl, Replaying, Cursor, Settled, Labelled, memoryVars, Accounted,
           AccountedNext, Holds, Kept, Archived, Buffered
  <2> QED BY <2>1, <2>3, <1>c, <1>e DEF memoryVars
<1>1. CASE \E t \in Tasks : TaskStep(t)
  BY <1>1, LoopTaskStep DEF Alone
<1>2. CASE FetchSnapshotFails
  <2>1. /\ pc[Loop] = "idle" /\ BeginPersist(Loop, latestSnapshot, historySupported)
        /\ UNCHANGED memoryVars /\ UNCHANGED storeVars
    BY <1>2 DEF FetchSnapshotFails
  <2>2. ~backfillError => Settled
    BY <2>1, <1>c DEF LoopControl, Replaying
  <2>3. ~backfillError' => Settled'
    BY <2>1, <2>2, StaySettled DEF memoryVars, storeVars
  <2>4. LoopControl(pc[Loop], local[Loop])'
    BY <2>1, <2>3, <1>c, BeginPersistLoop DEF memoryVars
  <2>5. NoGap' /\ Faithful'
    BY <2>1, SameStoreGrows, NoGapKept, FaithfulShrink DEF storeVars
  <2> QED BY <2>1, <2>4, <2>5, <1>c DEF memoryVars
<1>3. CASE PruneArchive
  <2>1. PICK cutoff \in 1..MaxPolls : Erase({row \in archive : row.capture < cutoff})
    BY <1>3 DEF PruneArchive
  <2>2. StoreGrows /\ archive' \subseteq archive
    BY <2>1, EraseGrows DEF Erase
  <2> QED BY <2>2, <1>3, <1>e DEF PruneArchive
<1>4. CASE PurgeAll
  <2>1. StoreGrows /\ archive' \subseteq archive
    BY <1>4, EraseGrows DEF PurgeAll, Erase
  <2> QED BY <2>1, <1>4, <1>e DEF PurgeAll
<1>5. CASE RestartMonitor
  <2>1. /\ latestSnapshot' = NoSnapshot /\ historySupported' = "unknown"
        /\ UNCHANGED storeVars /\ pc'[Loop] = "idle"
    BY <1>5, TasksAssumption DEF RestartMonitor
  <2>2. LoopControl(pc[Loop], local[Loop])'
    BY <2>1 DEF LoopControl, Replaying, Settled
  <2>3. NoGap' /\ Faithful'
    BY <2>1, SameStoreGrows, NoGapKept, FaithfulShrink DEF storeVars
  <2> QED BY <2>1, <2>2, <2>3
<1> QED BY <1>1, <1>2, <1>3, <1>4, <1>5 DEF MonitorNext

-----------------------------------------------------------------------------
LEMMA LoopStepInv ==
    Alone /\ TypeInv /\ BackedInv /\ LoopInv /\ PagesReach /\ [Next]_vars => LoopInv'
<1> SUFFICES ASSUME Alone, TypeInv, BackedInv, LoopInv, PagesReach, [Next]_vars
             PROVE  LoopInv'
  OBVIOUS
<1>1. CASE CollectorNext /\ UNCHANGED monitorVars
  BY <1>1, CollectorLoopStep
<1>2. CASE MonitorNext /\ UNCHANGED collectorVars
  <2>1. enabled' /\ (oldest <= newest \/ (oldest = 1 /\ newest = 0))'
    BY <1>2 DEF LoopInv, collectorVars, bufferVars, pollerVars
  <2> QED BY <2>1, <1>2, MonitorLoopStep DEF LoopInv
<1>3. CASE UNCHANGED vars
  BY <1>3 DEF vars, collectorVars, bufferVars, pollerVars, monitorVars, memoryVars,
     storeVars, LoopInv, NoGap, Faithful, Kept, Archived, LoopControl, Settled, Labelled,
     Cursor, Accounted, Buffered
<1> QED BY <1>1, <1>2, <1>3 DEF Next

\* The loop, alone and with enough pages, never marks what it has not archived.
THEOREM LoopInvariant ==
    ASSUME Alone PROVE Spec /\ []PagesReach => []LoopInv
<1>1. Init => LoopInv
  BY LoopInit
<1>2. TypeInv /\ BackedInv /\ LoopInv /\ PagesReach /\ [Next]_vars => LoopInv'
  BY LoopStepInv
<1> QED BY <1>1, <1>2, TypeInvariant, BackedInvariant, PTL DEF Spec

\* Every sample still buffered at or below the marker is or was in the archive, as long as
\* the buffer holds no more rows than a backfill may fetch.
THEOREM ReplayLeavesNoGap ==
    ASSUME Alone PROVE Spec /\ []BufferFits => []NoGap
<1>1. LoopInv => NoGap
  BY DEF LoopInv
<1> QED BY <1>1, LoopInvariant, PagesReachTheLiveSequence, PTL

\* So long, too, every archived row of the current stream is the row the buffer held.
THEOREM ReplayIsFaithful ==
    ASSUME Alone PROVE Spec /\ []BufferFits => []Faithful
<1>1. LoopInv => Faithful
  BY DEF LoopInv
<1> QED BY <1>1, LoopInvariant, PagesReachTheLiveSequence, PTL

-----------------------------------------------------------------------------
(* The refinement.                                                         *)

\* One row per label, as the unique index on readings has it.
OneRowPerLabel(rows) ==
    \A a, b \in rows : a.stream = b.stream /\ a.seq = b.seq => a = b

LEMMA InsertUnique ==
    ASSUME OneRowPerLabel(archive), NEW rows, OneRowPerLabel(rows), Insert(rows)
    PROVE  OneRowPerLabel(archive') /\ archive \subseteq archive'
BY DEF OneRowPerLabel, Insert, Archived

LEMMA PageRowsUnique ==
    ASSUME NEW page, NEW last PROVE OneRowPerLabel(PageRows(page, last))
BY DEF OneRowPerLabel, PageRows

\* All a step can do to the archive: nothing, insert rows that have been
\* appended, one per label, or erase rows.
ArchiveStays == UNCHANGED <<archive, erased>>

ArchiveInserts ==
    \E rows \in SUBSET Rows :
        /\ Insert(rows) /\ OneRowPerLabel(rows) /\ UNCHANGED <<erased, markers>>
        /\ \A row \in rows : Stored(row.stream, row.seq)

ArchiveErases ==
    \E rows \in SUBSET archive : Erase(rows) /\ UNCHANGED markers

\* The steps that write readings.
LEMMA PageInserts ==
    ASSUME TypeInv, BackedInv, NEW t \in Tasks, InsertPage(t) \/ InsertPageFails(t)
    PROVE  ArchiveInserts
<1> DEFINE page == local[t].page
<1>1. /\ page \in Pages /\ page.stream \in Streams /\ Stored(page.stream, page.last)
      /\ page.first \in 1..MaxSeq + 1 /\ page.last \in 0..MaxSeq /\ page.first <= page.last
  BY TaskFacts DEF InsertPage, InsertPageFails, Control, Locals, Pages, BackedInv, Backed
<1>2. PICK last \in page.first..page.last :
         Insert(PageRows(page, last)) /\ UNCHANGED <<erased, markers>>
  BY <1>1, SeqAssumption DEF InsertPage, InsertPageFails
<1>3. last \in 0..MaxSeq /\ last <= page.last
  BY <1>1, SeqAssumption
<1>4. PageRows(page, last) \subseteq Rows
  BY <1>1, <1>3, PageRowsType
<1>5. \A row \in PageRows(page, last) : Stored(row.stream, row.seq)
  BY <1>1, <1>3, PageRowsStored
<1> QED BY <1>2, <1>4, <1>5, PageRowsUnique DEF ArchiveInserts

LEMMA LiveInserts ==
    ASSUME TypeInv, BackedInv, NEW t \in Tasks, WriteLive(t) \/ WriteLiveFails(t)
    PROVE  (ArchiveStays /\ UNCHANGED markers) \/ ArchiveInserts
<1> DEFINE snapshot == local[t].snap
<1>1. /\ snapshot \in Snapshots /\ Stored(snapshot.stream, snapshot.seq)
      /\ InsertLive(snapshot) /\ UNCHANGED <<erased, markers>>
  BY TaskFacts DEF WriteLive, WriteLiveFails, Control, BackedInv, Backed
<1>2. CASE Labelled(snapshot)
  <2>1. {snapshot} \subseteq Rows
    BY <1>1, <1>2 DEF Labelled, Snapshots, Rows, Streams, Sequences
  <2>2. OneRowPerLabel({snapshot})
    BY DEF OneRowPerLabel
  <2> QED BY <1>1, <1>2, <2>1, <2>2 DEF InsertLive, ArchiveInserts
<1>3. CASE ~Labelled(snapshot)
  BY <1>1, <1>3 DEF InsertLive, ArchiveStays
<1> QED BY <1>2, <1>3

\* The steps that move a marker.
Marks(t) == MarkPage(t) \/ MarkLive(t)

LEMMA MonitorArchiveStep ==
    ASSUME TypeInv, BackedInv, MonitorNext
    PROVE  \/ ArchiveStays /\ UNCHANGED markers
           \/ ArchiveInserts
           \/ ArchiveErases
           \/ ArchiveStays /\ \E t \in Tasks : Marks(t)
<1> USE DEF ArchiveStays
<1>1. ASSUME NEW t \in Tasks, TaskStep(t)
      PROVE  \/ ArchiveStays /\ UNCHANGED markers
             \/ ArchiveInserts
             \/ ArchiveStays /\ Marks(t)
  <2>1. CASE PollTask(t)
    BY <2>1 DEF PollTask, FetchSnapshot, Receive, storeVars
  <2>2. CASE BackfillTask(t)
    <3>1. CASE InsertPage(t) \/ InsertPageFails(t)
      BY <3>1, PageInserts
    <3>2. CASE MarkPage(t)
      BY <3>2 DEF MarkPage, Marks
    <3>3. CASE \/ ReadMarker(t) \/ FetchPage(t) \/ HistoryGone(t) \/ ReceivePage(t)
               \/ EndBackfill(t) \/ BackfillFails(t)
      BY <3>3 DEF ReadMarker, FetchPage, HistoryGone, ReceivePage, EndBackfill,
         BackfillFails, storeVars
    <3> QED BY <2>2, <3>1, <3>2, <3>3 DEF BackfillTask
  <2>3. CASE PersistTask(t)
    <3>1. CASE WriteLive(t) \/ WriteLiveFails(t)
      BY <3>1, LiveInserts
    <3>2. CASE MarkLive(t)
      BY <3>2 DEF MarkLive, Marks
    <3>3. CASE CheckMarker(t) \/ Decide(t) \/ PersistFails(t)
      BY <3>3 DEF CheckMarker, Decide, PersistFails, storeVars
    <3> QED BY <2>3, <3>1, <3>2, <3>3 DEF PersistTask
  <2> QED BY <1>1, <2>1, <2>2, <2>3 DEF TaskStep
<1>2. CASE FetchSnapshotFails \/ RestartMonitor
  BY <1>2 DEF FetchSnapshotFails, RestartMonitor, storeVars
<1>3. CASE PruneArchive \/ PurgeAll
  BY <1>3 DEF PruneArchive, PurgeAll, ArchiveErases
<1> QED BY <1>1, <1>2, <1>3 DEF MonitorNext

-----------------------------------------------------------------------------
\* The step of every row.
RowsStay ==
    \A row \in archive : \A other \in archive' :
        row.stream = other.stream /\ row.seq = other.seq => row = other

LEMMA UniqueStep ==
    ASSUME TypeInv, BackedInv, OneRowPerLabel(archive), [Next]_vars
    PROVE  OneRowPerLabel(archive') /\ RowsStay
<1>1. CASE UNCHANGED archive
  BY <1>1 DEF OneRowPerLabel, RowsStay
<1>2. CASE ArchiveInserts
  <2>1. OneRowPerLabel(archive') /\ archive \subseteq archive'
    BY <1>2, InsertUnique DEF ArchiveInserts
  <2> QED BY <2>1 DEF OneRowPerLabel, RowsStay
<1>3. CASE ArchiveErases
  BY <1>3 DEF ArchiveErases, Erase, OneRowPerLabel, RowsStay
<1>4. UNCHANGED archive \/ ArchiveInserts \/ ArchiveErases
  BY MonitorArchiveStep
     DEF Next, vars, monitorVars, storeVars, ArchiveStays
<1> QED BY <1>1, <1>2, <1>3, <1>4

\* The unique index never has to choose between two rows of one label.
THEOREM RowsUnique == Spec => []OneRowPerLabel(archive)
<1>1. Init => OneRowPerLabel(archive)
  BY DEF Init, MonitorInit, OneRowPerLabel
<1>2. TypeInv /\ BackedInv /\ OneRowPerLabel(archive) /\ [Next]_vars
        => OneRowPerLabel(archive)'
  BY UniqueStep DEF OneRowPerLabel
<1> QED BY <1>1, <1>2, TypeInvariant, BackedInvariant, PTL DEF Spec

\* A row keeps its content for as long as it is archived, whatever the other
\* tasks write under its label.
THEOREM ContentKept == Spec => RowsKeepContent
<1>1. TypeInv /\ BackedInv /\ OneRowPerLabel(archive) /\ [Next]_vars => [RowsStay]_vars
  BY UniqueStep
<1>2. Spec => [][RowsStay]_vars
  BY <1>1, TypeInvariant, BackedInvariant, RowsUnique, PTL DEF Spec
<1> QED BY <1>2 DEF RowsKeepContent, RowsStay

-----------------------------------------------------------------------------
(* Nothing in the archive is older than its label.                         *)

\* What the collector knows of its labels, in the pipeline.
LEMMA PipelineLabels == Spec => []LabelInv
<1>1. Init => LabelInv
  BY LabelInit DEF Init
<1>2. TypeInv /\ LabelInv /\ [Next]_vars => LabelInv'
  <2>1. TypeInv /\ LabelInv /\ CollectorNext => LabelInv'
    BY LabelStep DEF TypeInv, TypeOK, CollectorTypeInv
  <2>2. LabelInv /\ UNCHANGED collectorVars => LabelInv'
    BY DEF collectorVars, bufferVars, pollerVars, LabelInv, HistoryOneAhead, LabelNotAhead
  <2> QED BY <2>1, <2>2 DEF Next, vars
<1> QED BY <1>1, <1>2, TypeInvariant, PTL DEF Spec

LEMMA RecentReadings == LabelInv => Recent(Readings)
BY DEF LabelInv, LabelNotAhead, Recent, Labelled, Readings

\* The collector never rewrites a row it has committed.
LEMMA StoredKept ==
    ASSUME TypeInv, CollectorNext, NEW s \in Streams, NEW q \in Sequences, Stored(s, q)
    PROVE  captureOf'[s][q] = captureOf[s][q]
<1>t. /\ captureOf \in [Streams -> [Sequences -> Captures]]
      /\ s \in Nat /\ q \in Nat /\ stream \in Nat /\ newest \in Nat
  BY StreamsAssumption, SeqAssumption
     DEF TypeInv, TypeOK, CollectorTypeOK, Streams, Sequences
<1>1. CASE Append
  <2>1. captureOf' = [captureOf EXCEPT ![stream][newest + 1] = captured]
    BY <1>1 DEF Append
  <2>2. s # stream \/ q # newest + 1
    BY <1>t DEF Stored
  <2> QED BY <2>1, <2>2, <1>t
<1>2. CASE UNCHANGED captureOf
  BY <1>2
<1>3. Append \/ UNCHANGED captureOf
  BY DEF CollectorNext, PollerStep, PollThenSample, PollOnly, AppendFails, AppendReturns,
     Prune, RestartCollector, ReplaceBuffer, bufferVars
<1> QED BY <1>1, <1>2, <1>3

\* Where the snapshots of a step of task t come from.
SnapMoves(t) ==
    /\ \/ pc'[t] = "idle"
       \/ pc[t] # "idle" /\ local'[t].snap = local[t].snap
       \/ latestSnapshot' # NoSnapshot /\ local'[t].snap = latestSnapshot'
       \/ local'[t].snap = Readings
    /\ latestSnapshot' = latestSnapshot \/ (pc[t] # "idle" /\ latestSnapshot' = local[t].snap)

\* Where the rows it writes come from.
RowMoves(t) ==
    \A row \in archive' :
        \/ row \in archive
        \/ row.capture = captureOf[row.stream][row.seq]
        \/ pc[t] # "idle" /\ row = local[t].snap

LEMMA BeginPersistSnap ==
    ASSUME TypeInv, NEW t \in Tasks, NEW history, BeginPersist(t, latestSnapshot', history)
    PROVE  pc'[t] = "idle" \/ (latestSnapshot' # NoSnapshot /\ local'[t].snap = latestSnapshot')
<1>t. pc \in [Tasks -> Steps] /\ local \in [Tasks -> Locals]
  BY DEF TypeInv, TypeOK, MonitorTypeOK
<1>1. CASE Rest(t)
  BY <1>t, <1>1 DEF Rest, Go
<1>2. CASE ~Rest(t)
  <2>1. /\ latestSnapshot' # NoSnapshot
        /\ local' = [local EXCEPT ![t] = [Fresh EXCEPT !.snap = latestSnapshot']]
    BY <1>2 DEF BeginPersist, Go
  <2> QED BY <2>1, <1>t DEF Fresh
<1> QED BY <1>1, <1>2

LEMMA TaskSnapMoves ==
    ASSUME TypeInv, NEW t \in Tasks, TaskStep(t) PROVE SnapMoves(t)
<1> USE DEF SnapMoves
<1> DEFINE l == local[t]
<1>t. pc \in [Tasks -> Steps] /\ local \in [Tasks -> Locals] /\ l \in Locals
  BY DEF TypeInv, TypeOK, MonitorTypeOK
<1>g. ASSUME NEW next, NEW locals, Go(t, next, locals)
      PROVE  pc'[t] = next /\ local'[t] = locals
  BY <1>t, <1>g DEF Go
<1>r. ASSUME Rest(t) PROVE pc'[t] = "idle"
  BY <1>r, <1>g DEF Rest
<1>1. CASE FetchSnapshot(t)
  <2>1. Go(t, "fetched", [Fresh EXCEPT !.snap = Readings]) /\ UNCHANGED latestSnapshot
    BY <1>1 DEF FetchSnapshot, memoryVars
  <2> QED BY <2>1, <1>g DEF Fresh
<1>2. CASE Receive(t)
  <2>1. /\ pc[t] = "fetched" /\ latestSnapshot' = l.snap
        /\ Go(t, "marker", l) \/ \E history : BeginPersist(t, latestSnapshot', history)
    BY <1>2 DEF Receive
  <2> QED BY <2>1, <1>g, BeginPersistSnap
<1>3. CASE HistoryGone(t) \/ EndBackfill(t) \/ BackfillFails(t) \/ InsertPageFails(t)
  <2>1. UNCHANGED latestSnapshot /\ \E history : BeginPersist(t, latestSnapshot', history)
    BY <1>3 DEF HistoryGone, EndBackfill, BackfillFails, InsertPageFails
  <2> QED BY <2>1, BeginPersistSnap
<1>4. CASE ReceivePage(t)
  <2>1. /\ pc[t] = "paged" /\ UNCHANGED latestSnapshot
        /\ Go(t, "insert", l) \/ BeginPersist(t, latestSnapshot', "yes")
    BY <1>4 DEF ReceivePage
  <2> QED BY <2>1, <1>g, BeginPersistSnap
<1>5. CASE \/ ReadMarker(t) \/ FetchPage(t) \/ InsertPage(t) \/ MarkPage(t)
           \/ CheckMarker(t) \/ Decide(t) \/ WriteLive(t)
  <2>1. /\ pc[t] # "idle" /\ UNCHANGED latestSnapshot
        /\ \/ Rest(t)
           \/ \E next, locals : Go(t, next, locals) /\ locals.snap = l.snap
    <3>1. CASE ReadMarker(t)
      <4> DEFINE start  == IF markers[l.snap.stream] > l.snap.seq THEN 0
                           ELSE markers[l.snap.stream]
                 locals == [l EXCEPT !.after = start, !.begun = start]
      <4>1. pc[t] = "marker" /\ UNCHANGED latestSnapshot /\ Go(t, "loop", locals)
        BY <3>1 DEF ReadMarker, memoryVars
      <4>2. locals.snap = l.snap
        BY <1>t DEF Locals
      <4> QED BY <4>1, <4>2
    <3>2. CASE FetchPage(t)
      <4> DEFINE locals == [l EXCEPT !.page = ReadAfter(l.after, PageSize)]
      <4>1. /\ pc[t] = "loop" /\ UNCHANGED latestSnapshot
            /\ Go(t, "paged", locals) \/ Go(t, "gone", l)
        BY <3>2 DEF FetchPage, memoryVars
      <4>2. locals.snap = l.snap
        BY <1>t DEF Locals
      <4> QED BY <4>1, <4>2
    <3>3. CASE InsertPage(t)
      <4> DEFINE locals == [l EXCEPT !.after = l.page.last]
      <4>1. pc[t] = "insert" /\ UNCHANGED latestSnapshot /\ Go(t, "mark", locals)
        BY <3>3 DEF InsertPage, memoryVars
      <4>2. locals.snap = l.snap
        BY <1>t DEF Locals
      <4> QED BY <4>1, <4>2
    <3>4. CASE MarkPage(t)
      <4> DEFINE locals == [l EXCEPT !.pages = @ + 1, !.page = NoPage]
      <4>1. pc[t] = "mark" /\ UNCHANGED latestSnapshot /\ \E next : Go(t, next, locals)
        BY <3>4 DEF MarkPage, memoryVars
      <4>2. locals.snap = l.snap
        BY <1>t DEF Locals
      <4> QED BY <4>1, <4>2
    <3>5. CASE CheckMarker(t)
      <4> DEFINE locals == [l EXCEPT !.processed = markers[l.snap.stream]]
      <4>1. pc[t] = "check" /\ UNCHANGED latestSnapshot /\ Go(t, "decide", locals)
        BY <3>5 DEF CheckMarker, memoryVars
      <4>2. locals.snap = l.snap
        BY <1>t DEF Locals
      <4> QED BY <4>1, <4>2
    <3>6. CASE Decide(t)
      <4> DEFINE locals == [l EXCEPT !.processed = 0]
      <4>1. /\ pc[t] = "decide" /\ UNCHANGED latestSnapshot
            /\ Rest(t) \/ Go(t, "write", locals)
        BY <3>6 DEF Decide, memoryVars
      <4>2. locals.snap = l.snap
        BY <1>t DEF Locals
      <4> QED BY <4>1, <4>2
    <3>7. CASE WriteLive(t)
      BY <3>7 DEF WriteLive, memoryVars
    <3> QED BY <1>5, <3>1, <3>2, <3>3, <3>4, <3>5, <3>6, <3>7
  <2> QED BY <2>1, <1>g, <1>r
<1>6. CASE WriteLiveFails(t) \/ MarkLive(t) \/ PersistFails(t)
  BY <1>6, <1>r DEF WriteLiveFails, MarkLive, PersistFails, memoryVars
<1> QED
  BY <1>1, <1>2, <1>3, <1>4, <1>5, <1>6
     DEF TaskStep, PollTask, BackfillTask, PersistTask

LEMMA TaskRowMoves ==
    ASSUME NEW t \in Tasks, TaskStep(t) PROVE RowMoves(t)
<1> USE DEF RowMoves
<1>1. CASE InsertPage(t) \/ InsertPageFails(t)
  <2>1. PICK last : Insert(PageRows(local[t].page, last))
    BY <1>1 DEF InsertPage, InsertPageFails
  <2>2. \A row \in PageRows(local[t].page, last) :
           row.capture = captureOf[row.stream][row.seq]
    BY DEF PageRows
  <2> QED BY <2>1, <2>2 DEF Insert
<1>2. CASE WriteLive(t) \/ WriteLiveFails(t)
  BY <1>2 DEF WriteLive, WriteLiveFails, InsertLive, Insert
<1>3. CASE UNCHANGED archive
  BY <1>3
<1>4. \/ InsertPage(t) \/ InsertPageFails(t) \/ WriteLive(t) \/ WriteLiveFails(t)
      \/ UNCHANGED archive
  <2>1. CASE PollTask(t)
    BY <2>1 DEF PollTask, FetchSnapshot, Receive, storeVars
  <2>2. CASE BackfillTask(t)
    BY <2>2 DEF BackfillTask, ReadMarker, FetchPage, HistoryGone, ReceivePage,
       MarkPage, EndBackfill, BackfillFails, storeVars
  <2>3. CASE PersistTask(t)
    BY <2>3 DEF PersistTask, CheckMarker, Decide, MarkLive, PersistFails, storeVars
  <2> QED BY <2>1, <2>2, <2>3 DEF TaskStep
<1> QED BY <1>1, <1>2, <1>3, <1>4

LEMMA RecentStep ==
    ASSUME TypeInv, BackedInv, LabelInv, RecentInv, [Next]_vars PROVE RecentInv'
<1>t. /\ archive \subseteq Rows
      /\ \A row \in archive : Stored(row.stream, row.seq)
      /\ latestSnapshot # NoSnapshot =>
           latestSnapshot \in Snapshots /\ Stored(latestSnapshot.stream, latestSnapshot.seq)
      /\ \A t \in Tasks : pc[t] # "idle" =>
           local[t].snap \in Snapshots /\ Stored(local[t].snap.stream, local[t].snap.seq)
  BY TaskFacts DEF TypeInv, TypeOK, MonitorTypeOK, BackedInv, Backed, Control
<1>1. CASE CollectorNext /\ UNCHANGED monitorVars
  <2>1. UNCHANGED <<archive, latestSnapshot, pc, local>>
    BY <1>1 DEF monitorVars, memoryVars, storeVars
  <2>2. ASSUME NEW snapshot \in Snapshots, Stored(snapshot.stream, snapshot.seq),
               Recent(snapshot)
        PROVE  Recent(snapshot)'
    <3>1. Labelled(snapshot) => snapshot.stream \in Streams /\ snapshot.seq \in Sequences
      BY DEF Labelled, Snapshots, Streams, Sequences
    <3> QED BY <3>1, <2>2, <1>1, StoredKept DEF Recent, Labelled
  <2>3. NeverOlder'
    BY <2>1, <1>1, <1>t, StoredKept DEF NeverOlder, RecentInv, Rows
  <2> QED BY <2>1, <2>2, <2>3, <1>t DEF RecentInv
<1>2. CASE MonitorNext /\ UNCHANGED collectorVars
  <2>u. UNCHANGED captureOf
    BY <1>2 DEF collectorVars, bufferVars
  <2>k. \A snapshot : Recent(snapshot) => Recent(snapshot)'
    BY <2>u DEF Recent, Labelled
  <2>1. CASE \E t \in Tasks : TaskStep(t)
    <3>1. PICK t \in Tasks : TaskStep(t)
      BY <2>1
    <3>2. /\ SnapMoves(t) /\ RowMoves(t)
          /\ \A u \in Tasks \ {t} : pc'[u] = pc[u] /\ local'[u] = local[u]
      BY <3>1, TaskSnapMoves, TaskRowMoves, TaskPageMoves
    <3>3. latestSnapshot' # NoSnapshot => Recent(latestSnapshot')
      BY <3>2 DEF SnapMoves, RecentInv
    <3>4. \A u \in Tasks : pc'[u] # "idle" => Recent(local'[u].snap)
      BY <3>2, <3>3, RecentReadings DEF SnapMoves, RecentInv
    <3>5. NeverOlder'
      <4> SUFFICES ASSUME NEW row \in archive'
                   PROVE  row.capture >= captureOf[row.stream][row.seq]
        BY <2>u DEF NeverOlder
      <4>1. CASE row \in archive
        BY <4>1 DEF RecentInv, NeverOlder
      <4>2. CASE row.capture = captureOf[row.stream][row.seq]
        <5>1. archive' \subseteq Rows
          BY <1>2, TypeStep DEF Next, TypeInv, TypeOK, MonitorTypeOK
        <5>2. row.capture \in Nat
          BY <5>1, PollsAssumption DEF Rows, Captures
        <5> QED BY <4>2, <5>2
      <4>3. CASE pc[t] # "idle" /\ row = local[t].snap
        <5>1. row \in Rows
          BY <1>2, TypeStep DEF Next, TypeInv, TypeOK, MonitorTypeOK
        <5>2. Labelled(row)
          BY <5>1, StreamsAssumption, SeqAssumption DEF Rows, Labelled, Streams, Sequences
        <5> QED BY <4>3, <5>2 DEF RecentInv, Recent
      <4> QED BY <3>2, <4>1, <4>2, <4>3 DEF RowMoves
    <3> QED BY <2>u, <2>k, <3>3, <3>4, <3>5 DEF RecentInv, Recent, Labelled
  <2>2. CASE FetchSnapshotFails
    <3>1. BeginPersist(Loop, latestSnapshot', historySupported)
          /\ UNCHANGED <<latestSnapshot, archive>>
      BY <2>2 DEF FetchSnapshotFails, memoryVars, storeVars
    <3>2. \A u \in Tasks \ {Loop} : pc'[u] = pc[u] /\ local'[u] = local[u]
      BY <2>2 DEF FetchSnapshotFails, BeginPersist, Rest, Go, TypeInv, TypeOK, MonitorTypeOK
    <3>3. \A u \in Tasks : pc'[u] # "idle" => Recent(local'[u].snap)
      BY <3>1, <3>2, BeginPersistSnap, TasksAssumption DEF RecentInv
    <3> QED BY <2>u, <3>1, <3>3 DEF RecentInv, Recent, Labelled, NeverOlder
  <2>3. CASE PruneArchive \/ PurgeAll
    BY <2>3, <2>u
       DEF PruneArchive, PurgeAll, Erase, memoryVars, RecentInv, Recent, Labelled, NeverOlder
  <2>4. CASE RestartMonitor
    BY <2>4, <2>u DEF RestartMonitor, storeVars, RecentInv, NeverOlder
  <2> QED BY <1>2, <2>1, <2>2, <2>3, <2>4 DEF MonitorNext
<1>3. CASE UNCHANGED vars
  BY <1>3 DEF vars, collectorVars, bufferVars, monitorVars, memoryVars, storeVars,
     RecentInv, Recent, Labelled, NeverOlder
<1> QED BY <1>1, <1>2, <1>3 DEF Next

\* Whatever stands under a label, brought live or by replay, by any task, is at least as
\* recent as the sample of that label.
THEOREM NothingIsOlder == Spec => []NeverOlder
<1>1. Init => RecentInv
  BY DEF Init, MonitorInit, RecentInv, NeverOlder
<1>2. TypeInv /\ BackedInv /\ LabelInv /\ RecentInv /\ [Next]_vars => RecentInv'
  BY RecentStep
<1>3. RecentInv => NeverOlder
  BY DEF RecentInv
<1> QED BY <1>1, <1>2, <1>3, TypeInvariant, BackedInvariant, PipelineLabels, PTL DEF Spec

-----------------------------------------------------------------------------
(* The refinement of SampleArchive.                                        *)

LabelsOf(rows) == {<<row.stream, row.seq>> : row \in rows}

LEMMA RefinesInit == Init => Samples!Init
BY DEF Init, CollectorInit, MonitorInit, Samples!Init

LEMMA RefinesCollector ==
    ASSUME TypeInv, CollectorNext, UNCHANGED monitorVars
    PROVE  [Samples!Next]_Samples!vars
<1>u. UNCHANGED <<archive, erased, markers>>
  BY DEF monitorVars, storeVars
<1>1. CASE PollThenSample \/ PollOnly \/ AppendFails \/ AppendReturns \/ RestartCollector
  BY <1>1, <1>u DEF PollThenSample, PollOnly, AppendFails, AppendReturns, RestartCollector,
     bufferVars, Samples!vars
<1>2. CASE Append
  BY <1>2, <1>u DEF Append, Samples!Sample, Samples!Next
<1>3. CASE Prune
  BY <1>3, <1>u DEF Prune, Samples!Expire, Samples!Next
<1>4. CASE ReplaceBuffer
  <2>1. stream + 1 \in Streams
    BY <1>4, StreamsAssumption
       DEF ReplaceBuffer, TypeInv, TypeOK, CollectorTypeOK, Streams
  <2> QED BY <2>1, <1>4, <1>u DEF ReplaceBuffer, Samples!Renew, Samples!Next
<1> QED BY <1>1, <1>2, <1>3, <1>4 DEF CollectorNext, PollerStep

LEMMA RefinesInsert ==
    ASSUME ArchiveInserts, UNCHANGED collectorVars
    PROVE  Samples!Next
<1>1. PICK rows \in SUBSET Rows :
         /\ Insert(rows) /\ UNCHANGED <<erased, markers>>
         /\ \A row \in rows : Stored(row.stream, row.seq)
  BY DEF ArchiveInserts
<1> DEFINE labels == LabelsOf(rows)
<1>2. labels \in SUBSET Samples!Labels
  BY DEF LabelsOf, Rows, Samples!Labels
<1>3. \A label \in labels :
         label[1] < stream \/ (label[1] = stream /\ label[2] <= newest)
  BY <1>1 DEF LabelsOf, Stored
<1>4. LabelsOf(archive') = LabelsOf(archive) \cup labels
  BY <1>1 DEF LabelsOf, Insert, Archived
<1>5. Samples!Keep
  BY <1>1, <1>2, <1>3, <1>4 DEF Samples!Keep, LabelsOf, collectorVars, bufferVars
<1> QED BY <1>5 DEF Samples!Next

LEMMA RefinesErase ==
    ASSUME OneRowPerLabel(archive), ArchiveErases, UNCHANGED collectorVars
    PROVE  Samples!Next
<1>1. PICK rows \in SUBSET archive : Erase(rows) /\ UNCHANGED markers
  BY DEF ArchiveErases
<1> DEFINE labels == LabelsOf(rows)
<1>2. labels \in SUBSET LabelsOf(archive)
  BY DEF LabelsOf
<1>3. LabelsOf(archive') = LabelsOf(archive) \ labels
  BY <1>1 DEF LabelsOf, Erase, OneRowPerLabel
<1>4. erased' = erased \cup labels
  BY <1>1 DEF LabelsOf, Erase
<1>5. Samples!Forget
  BY <1>1, <1>2, <1>3, <1>4 DEF Samples!Forget, LabelsOf, collectorVars, bufferVars
<1> QED BY <1>5 DEF Samples!Next

\* What the loop calls accounted for is what the abstract archive does.
LEMMA AccountedAlike ==
    ASSUME TypeInv, NEW n PROVE Accounted(n) => Samples!Accounted(n)
<1>1. oldest..newest \subseteq Sequences
  BY SeqAssumption DEF TypeInv, TypeOK, CollectorTypeOK, Sequences
<1>2. \A q \in oldest..newest : Buffered(q)
  BY SeqAssumption DEF TypeInv, TypeOK, CollectorTypeOK, Buffered
<1> QED
  BY <1>1, <1>2 DEF Accounted, Kept, Archived, Samples!Accounted, Samples!Offered

LEMMA RefinesMarks ==
    ASSUME TypeInv, BackedInv, LoopInv, ArchiveStays, Marks(Loop), UNCHANGED collectorVars
    PROVE  Samples!Next
<1> DEFINE l == local[Loop]
           n == IF MarkPage(Loop) THEN l.after ELSE l.snap.seq
<1>l. /\ l \in Locals /\ Control(pc[Loop], l) /\ Backed(pc[Loop], l)
      /\ LoopControl(pc[Loop], l)
  BY TaskFacts, TasksAssumption DEF BackedInv, LoopInv
<1>1. /\ markers' = [markers EXCEPT ![l.snap.stream] = n]
      /\ MarkPage(Loop) => pc[Loop] = "mark"
      /\ ~MarkPage(Loop) => pc[Loop] = "writeMark"
  BY DEF Marks, MarkPage, MarkLive
<1>2. /\ l.snap \in Snapshots /\ l.snap.stream \in Streams /\ n \in 0..MaxSeq
      /\ Stored(l.snap.stream, l.snap.seq)
  BY <1>1, <1>l DEF Control, Replaying, Labelled, Snapshots, Streams, Locals, Backed
<1>3. newest \in Nat /\ stream \in Nat /\ l.snap.stream <= stream
  BY <1>2, SeqAssumption, StreamsAssumption
     DEF TypeInv, TypeOK, CollectorTypeOK, Streams, Stored
<1>4. ASSUME l.snap.stream = stream PROVE n <= newest /\ Accounted(n)
  BY <1>1, <1>4, <1>l DEF LoopControl, Control, Cursor, Replaying
<1>5. n \in 0..newest \cup Sequences
  BY <1>2, <1>3, SeqAssumption DEF Sequences
<1> HIDE DEF n
<1>6. Samples!Move
  BY <1>1, <1>2, <1>3, <1>4, <1>5, AccountedAlike
     DEF Samples!Move, ArchiveStays, collectorVars, bufferVars
<1> QED BY <1>6 DEF Samples!Next

LEMMA RefinesStep ==
    ASSUME Alone, TypeInv, BackedInv, LoopInv, OneRowPerLabel(archive), [Next]_vars
    PROVE  [Samples!Next]_Samples!vars
<1>1. CASE CollectorNext /\ UNCHANGED monitorVars
  BY <1>1, RefinesCollector
<1>2. CASE MonitorNext /\ UNCHANGED collectorVars
  <2>1. CASE ArchiveStays /\ UNCHANGED markers
    BY <2>1, <1>2 DEF ArchiveStays, Samples!vars, collectorVars, bufferVars
  <2>2. CASE ArchiveInserts
    BY <2>2, <1>2, RefinesInsert
  <2>3. CASE ArchiveErases
    BY <2>3, <1>2, RefinesErase
  <2>4. CASE ArchiveStays /\ \E t \in Tasks : Marks(t)
    BY <2>4, <1>2, RefinesMarks DEF Alone
  <2> QED BY <1>2, <2>1, <2>2, <2>3, <2>4, MonitorArchiveStep
<1>3. CASE UNCHANGED vars
  BY <1>3 DEF vars, collectorVars, bufferVars, monitorVars, storeVars, Samples!vars
<1> QED BY <1>1, <1>2, <1>3 DEF Next

\* The loop alone, with enough pages, implements the abstract archive: it
\* moves its marker only over samples it has accounted for.
THEOREM ReplayRefines ==
    ASSUME Alone PROVE Spec /\ []BufferFits => ArchivesSamples
<1>1. Init => Samples!Init
  BY RefinesInit
<1>2. TypeInv /\ BackedInv /\ LoopInv /\ OneRowPerLabel(archive) /\ [Next]_vars
        => [Samples!Next]_Samples!vars
  BY RefinesStep
<1>3. Spec /\ []BufferFits => Samples!Spec
  BY <1>1, <1>2, TypeInvariant, BackedInvariant, LoopInvariant, PagesReachTheLiveSequence,
     RowsUnique, PTL
     DEF Spec, Samples!Spec
<1> QED BY <1>3 DEF ArchivesSamples
=============================================================================

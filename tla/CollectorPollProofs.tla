------------------------- MODULE CollectorPollProofs -------------------------
(***************************************************************************)
(* Theorems about a poll of the collector: the gauges, the inverter and    *)
(* the packs.                                                              *)
(*                                                                         *)
(* The gauges: the three of the grid are set together or not at all.       *)
(*                                                                         *)
(* The inverter: its status rests on the cut of the chunks read so far     *)
(* into those taken and those given up: "ok" is served when none was given *)
(* up, and all of them were taken then.  That registers are their own      *)
(* rests on lengths: a reply taken is as long as its chunk, and of all     *)
(* that is asked for only one request is as long as each of those for      *)
(* telemetry; sums and counters lie within one chunk.                      *)
(*                                                                         *)
(* The packs: what is kept of the pack being read was sent by it, because  *)
(* the sender is checked, and its analog values answer the command for     *)
(* them, because every other answer is too short for their parser.         *)
(***************************************************************************)
EXTENDS MCCollectorPoll, SequenceTheorems, WellFoundedInduction, TLAPS

-----------------------------------------------------------------------------
(* The gauges. *)

\* The values a gauge may show.
PackGauges ==
    [success : {0, 1, None}, soc : {0, 1, None}, alarms : {0, 1, None},
     cells : [1..MaxCells -> {0, 1, None}]]

InverterGauges ==
    [success : {0, 1, None}, readErrors : 0..MaxRanges \union {None},
     grid : Powers \union {None}, gridImport : 0..MaxPower \union {None},
     gridExport : 0..MaxPower \union {None}, home : Powers \union {None}]

GaugeInv == pack \in PackGauges /\ inverter \in InverterGauges /\ GridGaugesAgree

\* A power is a number, and no power is not.
LEMMA PowersAreNumbers == Powers \subseteq Int /\ None \notin Powers /\ 0 \in Powers
  BY MetricsAssumption, GaugeAssumption DEF Powers

\* The two directions of a power.
LEMMA Directions ==
    ASSUME NEW power \in Powers
    PROVE  /\ Positive(power) \in 0..MaxPower /\ Positive(Negated(power)) \in 0..MaxPower
           /\ Positive(power) - Positive(Negated(power)) = power
           /\ 0 \in {Positive(power), Positive(Negated(power))}
<1>1. power \in Int /\ -power \in Int /\ power # None /\ -power # None
  BY PowersAreNumbers, GaugeAssumption
<1>2. -MaxPower <= power /\ power <= MaxPower /\ MaxPower \in Nat
  BY MetricsAssumption DEF Powers
<1>3. /\ Positive(power) = IF power > 0 THEN power ELSE 0
      /\ Positive(Negated(power)) = IF -power > 0 THEN -power ELSE 0
  BY <1>1 DEF Positive, Negated
<1> QED BY <1>1, <1>2, <1>3

\* At the start no gauge shows anything.
LEMMA GaugeInvInit == MetricsInit => GaugeInv
  BY DEF MetricsInit, GaugeInv, PackGauges, InverterGauges, GridGaugesAgree

\* Of a reading of the inverter the three grid gauges change together, or not at all.
LEMMA InverterReadingKeeps ==
    ASSUME GaugeInv, NEW grid \in Powers \union {None}, NEW home \in Powers \union {None},
           NEW failures \in 0..MaxRanges, RecordInverterReading(grid, home, failures)
    PROVE  GaugeInv'
<1>1. /\ inverter'.success = 1 /\ inverter'.readErrors = failures
      /\ inverter'.home = SetIfPresent(inverter.home, home)
      /\ inverter'.grid = SetIfPresent(inverter.grid, grid)
      /\ inverter'.gridImport = SetIfPresent(inverter.gridImport, Positive(Negated(grid)))
      /\ inverter'.gridExport = SetIfPresent(inverter.gridExport, Positive(grid))
      /\ inverter' = [success |-> inverter'.success, readErrors |-> inverter'.readErrors,
                      grid |-> inverter'.grid, gridImport |-> inverter'.gridImport,
                      gridExport |-> inverter'.gridExport, home |-> inverter'.home]
  BY DEF RecordInverterReading
<1>2. inverter'.home \in Powers \union {None}
  BY <1>1 DEF SetIfPresent, GaugeInv, InverterGauges
<1>3. CASE grid = None
  <2>1. /\ inverter'.grid = inverter.grid /\ inverter'.gridImport = inverter.gridImport
        /\ inverter'.gridExport = inverter.gridExport
    BY <1>1, <1>3 DEF SetIfPresent, Positive, Negated
  <2>2. GridGaugesAgree'
    BY <2>1 DEF GaugeInv, GridGaugesAgree
  <2>3. inverter' \in InverterGauges
    BY <1>1, <1>2, <2>1 DEF GaugeInv, InverterGauges
  <2> QED BY <2>2, <2>3 DEF RecordInverterReading, GaugeInv
<1>4. CASE grid # None
  <2>1. /\ Positive(grid) \in 0..MaxPower /\ Positive(Negated(grid)) \in 0..MaxPower
        /\ Positive(grid) - Positive(Negated(grid)) = grid
        /\ 0 \in {Positive(grid), Positive(Negated(grid))}
    BY <1>4, Directions
  <2>2. None \notin 0..MaxPower
    BY GaugeAssumption, MetricsAssumption
  <2>3. /\ inverter'.grid = grid /\ inverter'.gridImport = Positive(Negated(grid))
        /\ inverter'.gridExport = Positive(grid)
    BY <1>1, <1>4, <2>1, <2>2 DEF SetIfPresent
  <2>4. GridGaugesAgree'
    BY <1>4, <2>1, <2>2, <2>3 DEF GridGaugesAgree
  <2>5. inverter' \in InverterGauges
    BY <1>1, <1>2, <2>1, <2>3 DEF InverterGauges
  <2> QED BY <2>4, <2>5 DEF RecordInverterReading, GaugeInv
<1> QED BY <1>3, <1>4

\* Every reading and every error.
LEMMA GaugeInvStep == GaugeInv /\ [MetricsNext]_gaugeVars => GaugeInv'
<1> SUFFICES ASSUME GaugeInv, [MetricsNext]_gaugeVars PROVE GaugeInv'
  OBVIOUS
<1>1. ASSUME NEW soc \in {None, 0, 1}, NEW alarms \in 0..1,
             NEW cells \in UNION {[1..n -> {0, 1}] : n \in 1..MaxCells},
             RecordReading(soc, alarms, cells)
      PROVE  GaugeInv'
  <2>1. PICK n \in 1..MaxCells : cells \in [1..n -> {0, 1}]
    OBVIOUS
  <2> DEFINE shownCells == [i \in 1..MaxCells |->
                              IF i \in DOMAIN cells THEN cells[i] ELSE pack.cells[i]]
  <2>2. shownCells \in [1..MaxCells -> {0, 1, None}]
    <3>1. pack.cells \in [1..MaxCells -> {0, 1, None}]
      BY DEF GaugeInv, PackGauges
    <3> QED BY <2>1, <3>1
  <2>3. SetIfPresent(pack.soc, soc) \in {0, 1, None}
    BY DEF GaugeInv, PackGauges, SetIfPresent
  <2>4. pack' = [success |-> 1, soc |-> SetIfPresent(pack.soc, soc), alarms |-> alarms,
                 cells |-> shownCells]
    BY <1>1 DEF RecordReading
  <2> HIDE DEF shownCells
  <2>5. pack' \in PackGauges
    BY <2>2, <2>3, <2>4 DEF PackGauges
  <2> QED BY <1>1, <2>5 DEF RecordReading, GaugeInv, GridGaugesAgree
<1>2. CASE RecordError
  BY <1>2 DEF RecordError, GaugeInv, PackGauges, GridGaugesAgree
<1>3. ASSUME NEW grid \in Powers \union {None}, NEW home \in Powers \union {None},
             NEW failures \in 0..MaxRanges, RecordInverterReading(grid, home, failures)
      PROVE  GaugeInv'
  BY <1>3, InverterReadingKeeps
<1>4. CASE RecordInverterError
  BY <1>4 DEF RecordInverterError, GaugeInv, InverterGauges, GridGaugesAgree
<1>5. CASE UNCHANGED gaugeVars
  BY <1>5 DEF gaugeVars, GaugeInv, GridGaugesAgree
<1> QED BY <1>1, <1>2, <1>3, <1>4, <1>5 DEF MetricsNext

\* The types of the gauges follow.
LEMMA GaugeTypes == GaugeInv => MetricsTypeOK
  BY DEF GaugeInv, PackGauges, InverterGauges, MetricsTypeOK

-----------------------------------------------------------------------------
(* The inverter: which poll a reading is of. *)

States == [status : {"pending", "ok", "degraded", "error"},
           reading : Readings \union {None}, successAt : Nat \union {None}]

\* Every chunk before the one being read was taken or given up, and no chunk both.
ChunksSettled ==
    phase # "idle" =>
        /\ DOMAIN taken \union errors = 1..(chunk - 1)
        /\ DOMAIN taken \intersect errors = {}

InverterInv ==
    /\ InverterTypeOK
    /\ wire \in Seq(Replies) /\ taken \in Registers /\ state \in States
    /\ ChunksSettled
    /\ StatusTellsThePoll

-----------------------------------------------------------------------------
(* The chunks. *)

\* A block of registers is cut into one chunk or more.
LEMMA BlockIsCut ==
    ASSUME NEW start \in Nat, NEW n \in Nat \ {0}
    PROVE  /\ ChunksOf(<<start, n>>) \in Seq(Nat \X Nat)
           /\ Len(ChunksOf(<<start, n>>)) >= 1
<1> DEFINE number == (n - 1) \div ChunkSize + 1
           left(i) == n - (i - 1) * ChunkSize
           cut == [i \in 1..number |->
                     <<start + (i - 1) * ChunkSize,
                       IF left(i) < ChunkSize THEN left(i) ELSE ChunkSize>>]
<1>1. ChunksOf(<<start, n>>) = cut
  BY DEF ChunksOf
<1>2. number \in Nat /\ number >= 1
  BY DEF ChunkSize
<1>3. \A i \in 1..number : left(i) \in Nat
  BY DEF ChunkSize
<1>4. \A i \in 1..number : cut[i] \in Nat \X Nat
  BY <1>2, <1>3 DEF ChunkSize
<1>5. cut \in Seq(Nat \X Nat) /\ Len(cut) = number
  <2> HIDE DEF left
  <2>1. cut \in [1..number -> Nat \X Nat]
    BY <1>4
  <2> HIDE DEF cut, number
  <2>2. DOMAIN cut = 1..number
    BY <2>1
  <2>3. cut \in Seq(Nat \X Nat)
    BY <2>1, <1>2, SeqDef
  <2> QED BY <2>2, <2>3, <1>2, LenProperties
<1> QED BY <1>1, <1>2, <1>5

\* The blocks come to a sequence of at least one chunk.
LEMMA ChunksType == Chunks \in Seq(Nat \X Nat) /\ Len(Chunks) \in Nat \ {0}
<1>1. \A i \in 1..6 : Block(i) \in Seq(Nat \X Nat) /\ Len(Block(i)) >= 1
  <2> TAKE i \in 1..6
  <2>1. PICK start \in Nat, n \in Nat \ {0} : R8KLNA_READ_BLOCKS[i] = <<start, n>>
    BY DEF R8KLNA_READ_BLOCKS
  <2> QED BY <2>1, BlockIsCut DEF Block
<1>2. /\ Chunks \in Seq(Nat \X Nat)
      /\ Len(Chunks) = Len(Block(1)) + Len(Block(2)) + Len(Block(3))
                         + Len(Block(4)) + Len(Block(5)) + Len(Block(6))
  BY <1>1 DEF Chunks
<1> QED BY <1>1, <1>2

\* What the inverter answers is a reply.
LEMMA AnswersType ==
    ASSUME NEW range \in Nat \X Nat
    PROVE  InverterAnswers(range) \subseteq Replies
BY DEF InverterAnswers, Replies

\* What is on its way stays within its bound and is made of replies.
LEMMA RequestType ==
    ASSUME NEW rest \in Seq(Replies), Len(rest) <= MaxWire,
           NEW range \in Nat \X Nat, Request(rest, range)
    PROVE  wire' \in Seq(Replies) /\ Len(wire') <= MaxWire
<1>1. PICK dropped \in 0..Len(rest) :
        LET late == SubSeq(rest, dropped + 1, Len(rest)) IN
        \/ wire' = late
        \/ Len(late) < MaxWire /\ \E answer \in InverterAnswers(range) : wire' = Append(late, answer)
  BY DEF Request
<1> DEFINE late == SubSeq(rest, dropped + 1, Len(rest))
<1>2. late \in Seq(Replies) /\ Len(late) <= MaxWire
  BY InverterPollAssumption
<1>3. CASE wire' = late
  BY <1>2, <1>3
<1>4. CASE Len(late) < MaxWire /\ \E answer \in InverterAnswers(range) : wire' = Append(late, answer)
  <2>1. PICK answer \in Replies : wire' = Append(late, answer)
    BY <1>4, AnswersType
  <2> HIDE DEF late
  <2> QED BY <1>2, <1>4, <2>1, InverterPollAssumption
<1> QED BY <1>1, <1>3, <1>4

-----------------------------------------------------------------------------
(* The invariant. *)

\* At its start a poll has read no registers.
LEMMA NothingRead == \A f : f \in [{} -> Replies] => f \in Registers /\ DOMAIN f = {}
<1>1. {} \in SUBSET DOMAIN Chunks
  OBVIOUS
<1>2. [{} -> Replies] \in {[S -> Replies] : S \in SUBSET DOMAIN Chunks}
  BY <1>1
<1> QED BY <1>2 DEF Registers

\* Before the first poll there is no reading, and no chunk to settle.
LEMMA InverterInvInit == InverterInit => InverterInv
<1> SUFFICES ASSUME InverterInit PROVE InverterInv
  OBVIOUS
<1> USE DEF InverterInit
<1>1. taken \in Registers /\ DOMAIN taken = {} /\ DOMAIN taken \subseteq DOMAIN Chunks
  <2>1. taken \in [{} -> Replies] /\ DOMAIN taken = {}
    OBVIOUS
  <2> QED BY <2>1, NothingRead
<1>2. InverterTypeOK
  <2>1. chunk \in DOMAIN Chunks
    BY ChunksType
  <2>2. polls \in 0..MaxPolls /\ attempt \in 0..Retries /\ Len(wire) <= MaxWire
    BY InverterPollAssumption
  <2>3. errors \subseteq DOMAIN Chunks /\ phase = "idle" /\ open = FALSE /\ state.status = "pending"
    OBVIOUS
  <2> HIDE DEF InverterInit
  <2> QED BY <1>1, <2>1, <2>2, <2>3 DEF InverterTypeOK
<1>3. StatusTellsThePoll
  BY DEF StatusTellsThePoll, ReadingPairedWithSuccess, OkMeansAllRanges
<1>4. state \in States /\ wire \in Seq(Replies) /\ ChunksSettled
  BY DEF States, ChunksSettled
<1> QED BY <1>1, <1>2, <1>3, <1>4 DEF InverterInv

\* A poll that failed leaves the reading of an earlier one under an error.
LEMMA KeepingTells ==
    ASSUME InverterInv, KeepReading
    PROVE  state' \in States /\ StatusTellsThePoll'
BY DEF InverterInv, KeepReading, StatusTellsThePoll, ReadingPairedWithSuccess,
       OkMeansAllRanges, States

\* A parse over all chunks, of which some were taken and the others given up.
LEMMA ParsingTells ==
    ASSUME InverterInv, NEW registers \in Registers, NEW failed,
           DOMAIN registers \union failed = DOMAIN Chunks,
           DOMAIN registers \intersect failed = {},
           Parse(registers, failed), polls' = polls, phase' = "idle"
    PROVE  state' \in States /\ StatusTellsThePoll'
<1>1. CASE KeepReading
  BY <1>1, KeepingTells
<1>2. CASE state' = [status |-> IF failed = {} THEN "ok" ELSE "degraded",
                     reading |-> [poll |-> polls, registers |-> registers],
                     successAt |-> polls]
  <2>1. polls \in Nat
    BY InverterPollAssumption DEF InverterInv, InverterTypeOK
  <2>2. [poll |-> polls, registers |-> registers] \in Readings
    BY <2>1 DEF Readings
  <2>3. state' \in States
    BY <1>2, <2>1, <2>2 DEF States
  <2>4. ReadingPairedWithSuccess'
    BY <1>2, <2>1, <2>2, NoneAssumption DEF ReadingPairedWithSuccess
  <2>5. (failed = {}) = (DOMAIN registers = DOMAIN Chunks)
    OBVIOUS
  <2>6. OkMeansAllRanges'
    BY <1>2, <2>5 DEF OkMeansAllRanges, Read
  <2> QED BY <2>3, <2>4, <2>6 DEF StatusTellsThePoll
<1> QED BY <1>1, <1>2 DEF Parse

\* The end of a poll by failure.
LEMMA FailingKeeps ==
    ASSUME InverterInv, KeepReading, EndPoll,
           wire' \in Seq(Replies), Len(wire') <= MaxWire
    PROVE  InverterInv'
<1>1. state' \in States /\ StatusTellsThePoll'
  BY KeepingTells
<1>2. InverterTypeOK'
  BY <1>1 DEF InverterInv, InverterTypeOK, EndPoll, States
<1> QED BY <1>1, <1>2 DEF InverterInv, EndPoll, ChunksSettled

\* The chunk being read is settled one way or the other, and the next one follows.
LEMMA ProceedKeeps ==
    ASSUME InverterInv, phase = "ranges",
           NEW registers \in Registers, NEW failed,
           DOMAIN registers \union failed = 1..chunk,
           DOMAIN registers \intersect failed = {},
           NEW rest \in Seq(Replies), Len(rest) <= MaxWire,
           Proceed(registers, failed, rest)
    PROVE  InverterInv'
<1>0. chunk \in 1..Len(Chunks) /\ DOMAIN Chunks = 1..Len(Chunks) /\ Len(Chunks) \in Nat
  BY ChunksType DEF InverterInv, InverterTypeOK
<1>1. CASE chunk < Len(Chunks)
  <2>1. /\ chunk' = chunk + 1 /\ attempt' = 0
        /\ taken' = registers /\ errors' = failed
        /\ Request(rest, Chunks[chunk + 1])
        /\ UNCHANGED <<polls, phase, open, state>>
    BY <1>1 DEF Proceed
  <2>2. chunk + 1 \in DOMAIN Chunks /\ Chunks[chunk + 1] \in Nat \X Nat
    BY <1>0, <1>1, ChunksType
  <2>3. wire' \in Seq(Replies) /\ Len(wire') <= MaxWire
    BY <2>1, <2>2, RequestType
  <2>4. ChunksSettled'
    BY <1>0, <2>1 DEF ChunksSettled
  <2>5. StatusTellsThePoll'
    BY <2>1 DEF InverterInv, StatusTellsThePoll, ReadingPairedWithSuccess, OkMeansAllRanges, Read
  <2>6. DOMAIN taken' \subseteq DOMAIN Chunks /\ errors' \subseteq DOMAIN Chunks
    BY <1>0, <2>1
  <2>7. InverterTypeOK'
    BY <2>1, <2>2, <2>3, <2>6, InverterPollAssumption DEF InverterInv, InverterTypeOK
  <2> QED BY <2>1, <2>3, <2>4, <2>5, <2>7 DEF InverterInv
<1>2. CASE ~(chunk < Len(Chunks))
  <2>1. Parse(registers, failed) /\ wire' = rest /\ EndPoll
    BY <1>2 DEF Proceed
  <2>2. 1..chunk = DOMAIN Chunks
    <3> DEFINE last == Len(Chunks)
    <3>1. chunk \in 1..last /\ last \in Nat /\ ~(chunk < last) /\ DOMAIN Chunks = 1..last
      BY <1>0, <1>2
    <3> HIDE DEF last
    <3>2. chunk = last
      BY <3>1
    <3> QED BY <3>1, <3>2
  <2>3. state' \in States /\ StatusTellsThePoll'
    BY <2>1, <2>2, ParsingTells DEF EndPoll
  <2>4. InverterTypeOK'
    BY <2>1, <2>3 DEF InverterInv, InverterTypeOK, EndPoll, States
  <2> QED BY <2>1, <2>3, <2>4 DEF InverterInv, EndPoll, ChunksSettled
<1> QED BY <1>1, <1>2

\* What is left on its way when a reply was read, or none came.
LEMMA RestType ==
    ASSUME InverterInv, NEW rest, rest = wire \/ (wire # <<>> /\ rest = Tail(wire))
    PROVE  rest \in Seq(Replies) /\ Len(rest) <= MaxWire
BY InverterPollAssumption DEF InverterInv, InverterTypeOK

\* Every step of a poll.
LEMMA InverterStep ==
    ASSUME InverterInv, InverterNext
    PROVE  InverterInv'
<1>0. /\ DOMAIN Chunks = 1..Len(Chunks) /\ 1 \in DOMAIN Chunks
      /\ Chunks[1] \in Nat \X Nat /\ Probe \in Nat \X Nat
  BY ChunksType DEF Probe
<1>1. CASE StartPoll
  <2>1. wire' \in Seq(Replies) /\ Len(wire') <= MaxWire
    BY <1>0, <1>1, RequestType DEF StartPoll, InverterInv, InverterTypeOK
  <2>2. taken' \in Registers /\ DOMAIN taken' = {}
    <3>1. taken' \in [{} -> Replies] /\ DOMAIN taken' = {}
      BY <1>1 DEF StartPoll
    <3> QED BY <3>1, NothingRead
  <2>3. InverterTypeOK'
    <3>1. polls' \in 0..MaxPolls /\ attempt' \in 0..Retries
      BY <1>1, InverterPollAssumption DEF StartPoll, InverterInv, InverterTypeOK
    <3>2. chunk' \in DOMAIN Chunks
      BY <1>0, <1>1 DEF StartPoll
    <3>3. DOMAIN taken' \subseteq DOMAIN Chunks /\ errors' \subseteq DOMAIN Chunks
      BY <1>1, <2>2 DEF StartPoll
    <3>4. phase' = "probe" /\ open' = TRUE /\ state' = state
      BY <1>1 DEF StartPoll
    <3> QED BY <2>1, <3>1, <3>2, <3>3, <3>4 DEF InverterInv, InverterTypeOK
  <2>4. ChunksSettled'
    BY <1>1, <2>2 DEF StartPoll, ChunksSettled
  <2>5. StatusTellsThePoll'
    BY <1>1, InverterPollAssumption
       DEF StartPoll, InverterInv, InverterTypeOK, StatusTellsThePoll, ReadingPairedWithSuccess,
           OkMeansAllRanges, Read
  <2> QED BY <1>1, <2>1, <2>2, <2>3, <2>4, <2>5 DEF StartPoll, InverterInv
<1>2. CASE FailProbe
  <2>1. wire' \in Seq(Replies) /\ Len(wire') <= MaxWire
    BY <1>2, RestType DEF FailProbe
  <2> QED BY <1>2, <2>1, FailingKeeps DEF FailProbe
<1>3. CASE FailOpen
  <2>1. wire' \in Seq(Replies) /\ Len(wire') <= MaxWire
    BY <1>3, RestType DEF FailOpen
  <2> QED BY <1>3, <2>1, FailingKeeps DEF FailOpen
<1>4. CASE TakeProbe
  <2>1. Tail(wire) \in Seq(Replies) /\ Len(Tail(wire)) <= MaxWire
    BY <1>4, RestType DEF TakeProbe
  <2>2. wire' \in Seq(Replies) /\ Len(wire') <= MaxWire
    BY <1>0, <1>4, <2>1, RequestType DEF TakeProbe
  <2>3. InverterTypeOK'
    BY <1>4, <2>2 DEF TakeProbe, InverterInv, InverterTypeOK
  <2>4. ChunksSettled'
    BY <1>4 DEF TakeProbe, InverterInv, ChunksSettled
  <2>5. StatusTellsThePoll'
    BY <1>4 DEF TakeProbe, InverterInv, StatusTellsThePoll, ReadingPairedWithSuccess,
                OkMeansAllRanges, Read
  <2> QED BY <1>4, <2>2, <2>3, <2>4, <2>5 DEF TakeProbe, InverterInv
<1>5. CASE TakeChunk
  <2> DEFINE registers == [i \in DOMAIN taken \union {chunk} |->
                             IF i = chunk THEN Head(wire) ELSE taken[i]]
  <2>1. /\ phase = "ranges" /\ wire # <<>>
        /\ Proceed(registers, errors, Tail(wire))
    BY <1>5 DEF TakeChunk
  <2>2. /\ Tail(wire) \in Seq(Replies) /\ Len(Tail(wire)) <= MaxWire
        /\ Head(wire) \in Replies
    <3>1. Tail(wire) \in Seq(Replies) /\ Len(Tail(wire)) <= MaxWire
      BY <2>1, RestType
    <3>2. Head(wire) \in Replies
      BY <2>1 DEF InverterInv
    <3> QED BY <3>1, <3>2
  <2>3. registers \in Registers /\ DOMAIN registers = DOMAIN taken \union {chunk}
    <3>1. PICK S \in SUBSET DOMAIN Chunks : taken \in [S -> Replies]
      BY DEF InverterInv, Registers
    <3>2. chunk \in DOMAIN Chunks
      BY DEF InverterInv, InverterTypeOK
    <3>3. registers \in [S \union {chunk} -> Replies]
      BY <2>2, <3>1
    <3>4. S \union {chunk} \in SUBSET DOMAIN Chunks
      BY <3>1, <3>2
    <3>5. DOMAIN registers = DOMAIN taken \union {chunk}
      OBVIOUS
    <3> HIDE DEF registers
    <3> QED BY <3>3, <3>4, <3>5 DEF Registers
  <2>4. /\ DOMAIN registers \union errors = 1..chunk
        /\ DOMAIN registers \intersect errors = {}
    BY <1>0, <2>1, <2>3 DEF InverterInv, InverterTypeOK, ChunksSettled
  <2> HIDE DEF registers
  <2> QED BY <2>1, <2>2, <2>3, <2>4, ProceedKeeps
<1>6. CASE Retry
  <2>1. PICK rest : /\ rest = wire \/ (wire # <<>> /\ rest = Tail(wire))
                    /\ phase = "ranges" /\ Request(rest, Chunks[chunk])
    BY <1>6 DEF Retry, Attempt
  <2>2. Chunks[chunk] \in Nat \X Nat
    BY <1>0, ChunksType DEF InverterInv, InverterTypeOK
  <2>3. wire' \in Seq(Replies) /\ Len(wire') <= MaxWire
    BY <2>1, <2>2, RestType, RequestType
  <2>4. InverterTypeOK'
    BY <1>6, <2>3, InverterPollAssumption DEF Retry, InverterInv, InverterTypeOK
  <2>5. ChunksSettled'
    BY <1>6 DEF Retry, InverterInv, ChunksSettled
  <2>6. StatusTellsThePoll'
    BY <1>6 DEF Retry, InverterInv, StatusTellsThePoll, ReadingPairedWithSuccess,
                OkMeansAllRanges, Read
  <2> QED BY <1>6, <2>3, <2>4, <2>5, <2>6 DEF Retry, InverterInv
<1>7. CASE GiveUp
  <2>1. PICK rest : /\ rest = wire \/ (wire # <<>> /\ rest = Tail(wire))
                    /\ phase = "ranges" /\ Proceed(taken, errors \union {chunk}, rest)
    BY <1>7 DEF GiveUp, Attempt
  <2>2. rest \in Seq(Replies) /\ Len(rest) <= MaxWire
    BY <2>1, RestType
  <2>3. /\ DOMAIN taken \union (errors \union {chunk}) = 1..chunk
        /\ DOMAIN taken \intersect (errors \union {chunk}) = {}
    BY <1>0, <2>1 DEF InverterInv, InverterTypeOK, ChunksSettled
  <2> QED BY <2>1, <2>2, <2>3, ProceedKeeps DEF InverterInv
<1> QED BY <1>1, <1>2, <1>3, <1>4, <1>5, <1>6, <1>7 DEF InverterNext

\* Steps of the collector outside the poll.
LEMMA InverterStutter ==
    ASSUME InverterInv, UNCHANGED inverterVars
    PROVE  InverterInv'
BY DEF inverterVars, InverterInv, InverterTypeOK, ChunksSettled, StatusTellsThePoll,
       ReadingPairedWithSuccess, OkMeansAllRanges, Read

\* The invariant of all behaviours.
LEMMA InverterInvariant == InverterSpec => []InverterInv
<1>1. InverterInv /\ [InverterNext]_inverterVars => InverterInv'
  BY InverterStep, InverterStutter
<1> QED BY <1>1, InverterInvInit, PTL DEF InverterSpec

\* The types of the poll, and that no connection outlives it (poller.py:245).
THEOREM InverterTypeCorrect == InverterSpec => []InverterTypeOK
<1>1. InverterInv => InverterTypeOK
  BY DEF InverterInv
<1> QED BY <1>1, InverterInvariant, PTL

\* Whichever replies are lost, late or refused, and with whatever transport and
\* number of retries: a reading is served with the time of its own poll, "ok" and
\* "degraded" are said of the last poll that ended, and "ok" of all ranges only.
THEOREM StatusIsTrue == InverterSpec => []StatusTellsThePoll
<1>1. InverterInv => StatusTellsThePoll
  BY DEF InverterInv
<1> QED BY <1>1, InverterInvariant, PTL

-----------------------------------------------------------------------------
(* The inverter: which registers a reading is of. *)

\* What it is for a block to be one chunk.
OneRequest(start, n) == ChunksOf(<<start, n>>) = <<<<start, n>>>>

\* A block of at most ChunkSize registers is.
LEMMA OneChunk == \A start \in Nat, n \in 1..60 : OneRequest(start, n)
<1> SUFFICES ASSUME NEW start \in Nat, NEW n \in 1..60
             PROVE  ChunksOf(<<start, n>>) = <<<<start, n>>>>
  BY DEF OneRequest
<1> DEFINE cut == [i \in 1..((n - 1) \div 60 + 1) |->
                     <<start + (i - 1) * 60,
                       IF n - (i - 1) * 60 < 60 THEN n - (i - 1) * 60 ELSE 60>>]
<1>1. ChunksOf(<<start, n>>) = cut
  BY DEF ChunksOf, ChunkSize
<1>2. cut = [i \in 1..1 |-> cut[i]] /\ cut[1] = <<start, n>>
  OBVIOUS
<1> HIDE DEF cut
<1>3. cut = <<cut[1]>>
  BY <1>2
<1> QED BY <1>1, <1>2, <1>3

\* What it is for a block to be two.
TwoRequests(start, n) ==
    ChunksOf(<<start, n>>) = <<<<start, 60>>>> \o <<<<start + 60, n - 60>>>>

\* A block of more is, up to twice that.
LEMMA TwoChunks == \A start \in Nat, n \in 61..120 : TwoRequests(start, n)
<1>1. ASSUME NEW start \in Nat, NEW n \in 61..120
      PROVE  TwoRequests(start, n)
  <2> DEFINE cut == [i \in 1..((n - 1) \div 60 + 1) |->
                       <<start + (i - 1) * 60,
                         IF n - (i - 1) * 60 < 60 THEN n - (i - 1) * 60 ELSE 60>>]
  <2>1. ChunksOf(<<start, n>>) = cut
    BY DEF ChunksOf, ChunkSize
  <2>2. cut = [i \in 1..2 |-> cut[i]] /\ cut[1] = <<start, 60>> /\ cut[2] = <<start + 60, n - 60>>
    OBVIOUS
  <2> HIDE DEF cut
  <2>3. cut = <<cut[1]>> \o <<cut[2]>>
    BY <2>2
  <2> QED BY <2>1, <2>2, <2>3 DEF TwoRequests
<1> QED BY <1>1

\* What a chunk is: a first register and a number of registers.
Ranges == Nat \X Nat

\* A sequence that goes on with one more entry.
Longer(s, start, n, x) ==
    s \in Seq(Ranges) /\ Len(s) = n + 1 /\ s[n + 1] = x /\ \A i \in 1..n : s[i] = start[i]

\* Appending an entry is that.
LEMMA OneMore ==
    \A s \in Seq(Ranges), n \in Nat, x \in Ranges :
        Len(s) = n => Longer(s \o <<x>>, s, n, x)
  BY DEF Longer

\* Two more entries are joined at once or one by one.
Together(s, x, y) == s \o (<<x>> \o <<y>>) = (s \o <<x>>) \o <<y>>

\* In sequences of chunks it makes no difference.
LEMMA JoinedTogether ==
    \A s \in Seq(Ranges), x, y \in Ranges : Together(s, x, y)
<1>1. ASSUME NEW s \in Seq(Ranges), NEW t \in Seq(Ranges), NEW u \in Seq(Ranges)
      PROVE  s \o (t \o u) = (s \o t) \o u
  BY ConcatAssociative
<1>2. ASSUME NEW s \in Seq(Ranges), NEW x \in Ranges, NEW y \in Ranges
      PROVE  Together(s, x, y)
  <2>1. <<x>> \in Seq(Ranges) /\ <<y>> \in Seq(Ranges)
    OBVIOUS
  <2> DEFINE t == <<x>>
             u == <<y>>
  <2> HIDE DEF t, u
  <2>2. s \o (t \o u) = (s \o t) \o u
    BY <1>1, <2>1 DEF t, u
  <2> QED BY <2>2 DEF Together, t, u
<1> QED BY <1>2

\* The requests, when each block is the chunks named.
AsNamed(a, b, c, d, e, f, g) ==
    /\ Len(Chunks) = 7
    /\ Chunks[1] = a /\ Chunks[2] = b /\ Chunks[3] = c /\ Chunks[4] = d /\ Chunks[5] = e
    /\ Chunks[6] = f /\ Chunks[7] = g

BlocksAs(a, b, c, d, e, f, g) ==
    /\ Block(1) = <<a>> /\ Block(2) = <<b>> /\ Block(3) = <<c>> \o <<d>>
    /\ Block(4) = <<e>> /\ Block(5) = <<f>> /\ Block(6) = <<g>>

\* The blocks, joined, are the seven chunks in order.
LEMMA SevenJoined ==
    \A a, b, c, d, e, f, g \in Ranges :
        BlocksAs(a, b, c, d, e, f, g) => AsNamed(a, b, c, d, e, f, g)
<1> SUFFICES ASSUME NEW a \in Ranges, NEW b \in Ranges, NEW c \in Ranges,
                    NEW d \in Ranges, NEW e \in Ranges, NEW f \in Ranges,
                    NEW g \in Ranges, BlocksAs(a, b, c, d, e, f, g)
             PROVE  AsNamed(a, b, c, d, e, f, g)
  OBVIOUS
<1> DEFINE s1 == <<a>>
           s2 == s1 \o <<b>>
           s3 == s2 \o <<c>>
           s4 == s3 \o <<d>>
           s5 == s4 \o <<e>>
           s6 == s5 \o <<f>>
           s7 == s6 \o <<g>>
<1>1. s1 \in Seq(Ranges) /\ Len(s1) = 1 /\ s1[1] = a
  OBVIOUS
<1> HIDE DEF s1
<1>2. /\ s2 \in Seq(Ranges) /\ Len(s2) = 2
      /\ s2[1] = a /\ s2[2] = b
  <2>1. Longer(s2, s1, 1, b)
    BY <1>1, OneMore
  <2> HIDE DEF s2
  <2> QED BY <1>1, <2>1 DEF Longer
<1> HIDE DEF s2
<1>3. /\ s3 \in Seq(Ranges) /\ Len(s3) = 3
      /\ s3[1] = a /\ s3[2] = b /\ s3[3] = c
  <2>1. Longer(s3, s2, 2, c)
    BY <1>2, OneMore
  <2> HIDE DEF s3
  <2> QED BY <1>2, <2>1 DEF Longer
<1> HIDE DEF s3
<1>4. /\ s4 \in Seq(Ranges) /\ Len(s4) = 4
      /\ s4[1] = a /\ s4[2] = b /\ s4[3] = c /\ s4[4] = d
  <2>1. Longer(s4, s3, 3, d)
    BY <1>3, OneMore
  <2> HIDE DEF s4
  <2> QED BY <1>3, <2>1 DEF Longer
<1> HIDE DEF s4
<1>5. /\ s5 \in Seq(Ranges) /\ Len(s5) = 5
      /\ s5[1] = a /\ s5[2] = b /\ s5[3] = c /\ s5[4] = d /\ s5[5] = e
  <2>1. Longer(s5, s4, 4, e)
    BY <1>4, OneMore
  <2> HIDE DEF s5
  <2> QED BY <1>4, <2>1 DEF Longer
<1> HIDE DEF s5
<1>6. /\ s6 \in Seq(Ranges) /\ Len(s6) = 6
      /\ s6[1] = a /\ s6[2] = b /\ s6[3] = c /\ s6[4] = d /\ s6[5] = e /\ s6[6] = f
  <2>1. Longer(s6, s5, 5, f)
    BY <1>5, OneMore
  <2> HIDE DEF s6
  <2> QED BY <1>5, <2>1 DEF Longer
<1> HIDE DEF s6
<1>7. /\ s7 \in Seq(Ranges) /\ Len(s7) = 7
      /\ s7[1] = a /\ s7[2] = b /\ s7[3] = c /\ s7[4] = d /\ s7[5] = e /\ s7[6] = f /\ s7[7] = g
  <2>1. Longer(s7, s6, 6, g)
    BY <1>6, OneMore
  <2> HIDE DEF s7
  <2> QED BY <1>6, <2>1 DEF Longer
<1> HIDE DEF s7
<1>8. Chunks = s7
  <2>1. Chunks = <<a>> \o <<b>> \o (<<c>> \o <<d>>) \o <<e>> \o <<f>> \o <<g>>
    BY DEF BlocksAs, Chunks
  <2>2. s2 \o (<<c>> \o <<d>>) = s4
    <3>1. Together(s2, c, d)
      BY <1>2, JoinedTogether
    <3> QED BY <3>1 DEF Together, s4, s3
  <2>3. s2 = <<a>> \o <<b>>
    BY DEF s2, s1
  <2> QED BY <2>1, <2>2, <2>3 DEF s7, s6, s5
<1> QED BY <1>7, <1>8 DEF AsNamed

\* The requests of a poll.
LEMMA ChunksAre ==
    /\ Len(Chunks) = 7 /\ DOMAIN Chunks = 1..7
    /\ Chunks[1] = <<4633, 1>> /\ Chunks[2] = <<4660, 6>> /\ Chunks[3] = <<12544, 60>>
    /\ Chunks[4] = <<12604, 23>> /\ Chunks[5] = <<12627, 48>> /\ Chunks[6] = <<12688, 14>>
    /\ Chunks[7] = <<12704, 14>>
<1>1. Block(1) = <<<<4633, 1>>>>
  <2>1. OneRequest(4633, 1)
    BY OneChunk
  <2>2. R8KLNA_READ_BLOCKS[1] = <<4633, 1>>
    BY DEF R8KLNA_READ_BLOCKS
  <2> QED BY <2>1, <2>2 DEF Block, OneRequest
<1>2. Block(2) = <<<<4660, 6>>>>
  <2>1. OneRequest(4660, 6)
    BY OneChunk
  <2>2. R8KLNA_READ_BLOCKS[2] = <<4660, 6>>
    BY DEF R8KLNA_READ_BLOCKS
  <2> QED BY <2>1, <2>2 DEF Block, OneRequest
<1>3. Block(3) = <<<<12544, 60>>>> \o <<<<12604, 23>>>>
  <2>1. TwoRequests(12544, 83)
    BY TwoChunks
  <2>2. R8KLNA_READ_BLOCKS[3] = <<12544, 83>>
    BY DEF R8KLNA_READ_BLOCKS
  <2>3. 12544 + 60 = 12604 /\ 83 - 60 = 23
    OBVIOUS
  <2> HIDE DEF ChunksOf
  <2> QED BY <2>1, <2>2, <2>3 DEF Block, TwoRequests
<1>4. Block(4) = <<<<12627, 48>>>>
  <2>1. OneRequest(12627, 48)
    BY OneChunk
  <2>2. R8KLNA_READ_BLOCKS[4] = <<12627, 48>>
    BY DEF R8KLNA_READ_BLOCKS
  <2> QED BY <2>1, <2>2 DEF Block, OneRequest
<1>5. Block(5) = <<<<12688, 14>>>>
  <2>1. OneRequest(12688, 14)
    BY OneChunk
  <2>2. R8KLNA_READ_BLOCKS[5] = <<12688, 14>>
    BY DEF R8KLNA_READ_BLOCKS
  <2> QED BY <2>1, <2>2 DEF Block, OneRequest
<1>6. Block(6) = <<<<12704, 14>>>>
  <2>1. OneRequest(12704, 14)
    BY OneChunk
  <2>2. R8KLNA_READ_BLOCKS[6] = <<12704, 14>>
    BY DEF R8KLNA_READ_BLOCKS
  <2> QED BY <2>1, <2>2 DEF Block, OneRequest
<1>7. BlocksAs(<<4633, 1>>, <<4660, 6>>, <<12544, 60>>, <<12604, 23>>, <<12627, 48>>,
               <<12688, 14>>, <<12704, 14>>)
  BY <1>1, <1>2, <1>3, <1>4, <1>5, <1>6 DEF BlocksAs
<1> DEFINE a == <<4633, 1>>
           b == <<4660, 6>>
           c == <<12544, 60>>
           d == <<12604, 23>>
           e == <<12627, 48>>
           f == <<12688, 14>>
           g == <<12704, 14>>
<1>8. {a, b, c, d, e, f, g} \subseteq Ranges
  BY DEF Ranges
<1>9. BlocksAs(a, b, c, d, e, f, g)
  BY <1>7
<1> HIDE DEF a, b, c, d, e, f, g
<1>10. AsNamed(a, b, c, d, e, f, g)
  <2> HIDE DEF ChunksOf
  <2> QED BY <1>8, <1>9, SevenJoined
<1>11. DOMAIN Chunks = 1..7
  BY <1>10, ChunksType DEF AsNamed, Ranges
<1> QED BY <1>10, <1>11 DEF AsNamed, a, b, c, d, e, f, g

\* A register is in one chunk only.
LEMMA RangesApart ==
    ASSUME NEW i \in 1..7, NEW j \in 1..7, NEW a \in Nat, Holds(Chunks[i], a), Holds(Chunks[j], a)
    PROVE  i = j
<1> DEFINE of(k) == IF a < 4660 THEN k = 1 ELSE IF a < 12544 THEN k = 2
                    ELSE IF a < 12604 THEN k = 3 ELSE IF a < 12627 THEN k = 4
                    ELSE IF a < 12688 THEN k = 5 ELSE IF a < 12704 THEN k = 6 ELSE k = 7
<1>1. ASSUME NEW k \in 1..7, Holds(Chunks[k], a)
      PROVE  of(k)
  <2>1. CASE k = 1
    BY <1>1, <2>1, ChunksAre DEF Holds
  <2>2. CASE k = 2
    BY <1>1, <2>2, ChunksAre DEF Holds
  <2>3. CASE k = 3
    BY <1>1, <2>3, ChunksAre DEF Holds
  <2>4. CASE k = 4
    BY <1>1, <2>4, ChunksAre DEF Holds
  <2>5. CASE k = 5
    BY <1>1, <2>5, ChunksAre DEF Holds
  <2>6. CASE k = 6
    BY <1>1, <2>6, ChunksAre DEF Holds
  <2>7. CASE k = 7
    BY <1>1, <2>7, ChunksAre DEF Holds
  <2> QED BY <2>1, <2>2, <2>3, <2>4, <2>5, <2>6, <2>7
<1>2. of(i) /\ of(j)
  BY <1>1
<1> QED BY <1>2

\* The chunk of a register.
LEMMA IndexIs ==
    ASSUME NEW a \in Named, a \in Nat, NEW i \in 1..7, Holds(Chunks[i], a)
    PROVE  IndexOf[a] = i
<1>1. i \in DOMAIN Chunks
  BY ChunksAre
<1>2. \A j \in DOMAIN Chunks : Holds(Chunks[j], a) => j = i
  BY RangesApart, ChunksAre
<1>3. IndexOf[a] = CHOOSE j \in DOMAIN Chunks : Holds(Chunks[j], a)
  BY DEF IndexOf
<1> QED BY <1>1, <1>2, <1>3

\* Where the telemetry is: in the chunks of 60, 23 and 48 registers.
LEMMA TelemetryPlace == TelemetryChunks \subseteq 3..5
<1> SUFFICES ASSUME NEW a \in CORE_TELEMETRY_ADDRESSES \union Checked \union UNION Counters
             PROVE  IndexOf[a] \in 3..5
  BY DEF TelemetryChunks
<1>1. a \in Named
  <2>1. UNION Counters \subseteq UNION (Sums \union Counters)
    OBVIOUS
  <2> QED BY <2>1 DEF Named
<1>2. a \in 12544..12674
  <2>1. \A b \in CORE_TELEMETRY_ADDRESSES \union Checked : b \in 12544..12674
    BY DEF CORE_TELEMETRY_ADDRESSES, Checked
  <2>2. \A b \in UNION Counters : b \in 12544..12674
    BY DEF Counters
  <2> QED BY <2>1, <2>2
<1>3. CASE a < 12604
  <2>1. Holds(Chunks[3], a)
    BY <1>2, <1>3, ChunksAre DEF Holds
  <2> QED BY <1>1, <1>2, <2>1, IndexIs
<1>4. CASE a >= 12604 /\ a < 12627
  <2>1. Holds(Chunks[4], a)
    BY <1>2, <1>4, ChunksAre DEF Holds
  <2> QED BY <1>1, <1>2, <2>1, IndexIs
<1>5. CASE a >= 12627
  <2>1. Holds(Chunks[5], a)
    BY <1>2, <1>5, ChunksAre DEF Holds
  <2> QED BY <1>1, <1>2, <2>1, IndexIs
<1> QED BY <1>2, <1>3, <1>4, <1>5

\* No sum and no counter is over two chunks.
LEMMA SumsAreOfOneChunk ==
    ASSUME NEW sum \in SumChunks, NEW i \in sum, NEW j \in sum
    PROVE  i = j
<1>1. PICK parts \in Sums \union Counters : sum = {IndexOf[a] : a \in parts}
  BY DEF SumChunks
<1>2. PICK k \in 1..7 : \A a \in parts : a \in Nat /\ Holds(Chunks[k], a)
  <2>1. CASE parts \in {{12562, 12565}, {12578, 12582}, {12594, 12597, 12600, 12603}}
    BY <2>1, ChunksAre DEF Holds
  <2>2. CASE parts = {12690, 12693}
    BY <2>2, ChunksAre DEF Holds
  <2>3. CASE parts = {12710, 12711}
    BY <2>3, ChunksAre DEF Holds
  <2>4. CASE parts = {12608, 12609}
    BY <2>4, ChunksAre DEF Holds
  <2>5. CASE parts \in Counters
    <3>1. PICK a \in 12627..12673 : parts = {a, a + 1}
      BY <2>5 DEF Counters
    <3> QED BY <3>1, ChunksAre DEF Holds
  <2> QED BY <2>1, <2>2, <2>3, <2>4, <2>5 DEF Sums
<1>3. \A a \in parts : IndexOf[a] = k
  <2>1. parts \subseteq Named
    BY DEF Named
  <2> QED BY <1>2, <2>1, IndexIs
<1> QED BY <1>1, <1>3

-----------------------------------------------------------------------------
(* The inverter: what is taken for the reply to a request. *)

\* What has been asked for.
Asked == {Probe} \union {Chunks[i] : i \in DOMAIN Chunks}

\* A reply was to some request, and is as long as the chunk it was taken for.
AsLong(registers) ==
    \A i \in DOMAIN registers :
        registers[i].of \in Asked /\ registers[i].of[2] = Chunks[i][2]

AskedReplies == {reply \in Replies : reply.of \in Asked}
AllAsked(replies) == replies \in Seq(AskedReplies)

OwnInv ==
    /\ AllAsked(wire) /\ AsLong(taken)
    /\ state.reading # None => AsLong(Read)

\* What goes on its way is the answer to what is asked.
LEMMA RequestIsAsked ==
    ASSUME NEW rest \in Seq(Replies), AllAsked(rest), NEW range \in Asked, Request(rest, range)
    PROVE  AllAsked(wire')
<1>1. PICK dropped \in 0..Len(rest) :
        LET late == SubSeq(rest, dropped + 1, Len(rest)) IN
        \/ wire' = late
        \/ \E answer \in InverterAnswers(range) : wire' = Append(late, answer)
  BY DEF Request
<1> DEFINE late == SubSeq(rest, dropped + 1, Len(rest))
<1>2. late \in Seq(Replies) /\ AllAsked(late)
  BY DEF AllAsked
<1>3. ASSUME NEW answer \in InverterAnswers(range), wire' = Append(late, answer)
      PROVE  AllAsked(wire')
  <2>1. answer \in AskedReplies
    <3>1. range \in Nat \X Nat
      BY ChunksType DEF Asked, Probe
    <3> QED BY <3>1, AnswersType DEF InverterAnswers, AskedReplies
  <2> HIDE DEF late
  <2> QED BY <1>2, <1>3, <2>1 DEF AllAsked
<1> HIDE DEF late
<1> QED BY <1>1, <1>2, <1>3 DEF late

\* What is left on its way was asked for.
LEMMA RestIsAsked ==
    ASSUME InverterInv, OwnInv, NEW rest, rest = wire \/ (wire # <<>> /\ rest = Tail(wire))
    PROVE  rest \in Seq(Replies) /\ AllAsked(rest)
<1>1. rest \in Seq(Replies)
  BY RestType
<1>2. wire \in Seq(AskedReplies)
  BY DEF OwnInv, AllAsked
<1>3. rest \in Seq(AskedReplies)
  BY <1>2
<1> QED BY <1>1, <1>3 DEF AllAsked

\* A reading is parsed out of what was taken.
LEMMA ParsingOwns ==
    ASSUME OwnInv, NEW registers \in Registers, AsLong(registers), NEW failed,
           polls \in Nat, Parse(registers, failed)
    PROVE  state'.reading # None => AsLong(state'.reading.registers)
BY DEF OwnInv, Parse, KeepReading, Read

\* The chunk being read is settled.
LEMMA ProceedOwns ==
    ASSUME InverterInv, OwnInv, NEW registers \in Registers, AsLong(registers), NEW failed,
           NEW rest \in Seq(Replies), AllAsked(rest), Proceed(registers, failed, rest)
    PROVE  OwnInv'
<1>0. chunk \in 1..Len(Chunks) /\ Len(Chunks) \in Nat /\ DOMAIN Chunks = 1..Len(Chunks)
  BY ChunksType DEF InverterInv, InverterTypeOK
<1>1. CASE chunk < Len(Chunks)
  <2>1. taken' = registers /\ state' = state /\ Request(rest, Chunks[chunk + 1])
    BY <1>1 DEF Proceed
  <2>2. Chunks[chunk + 1] \in Asked
    BY <1>0, <1>1 DEF Asked
  <2>3. AllAsked(wire')
    BY <2>1, <2>2, RequestIsAsked
  <2> QED BY <2>1, <2>3 DEF OwnInv, AsLong, Read
<1>2. CASE ~(chunk < Len(Chunks))
  <2>1. Parse(registers, failed) /\ wire' = rest /\ EndPoll
    BY <1>2 DEF Proceed
  <2>2. polls \in Nat
    BY InverterPollAssumption DEF InverterInv, InverterTypeOK
  <2>3. state'.reading # None => AsLong(state'.reading.registers)
    BY <2>1, <2>2, ParsingOwns
  <2>4. taken' = taken
    BY <2>1 DEF EndPoll
  <2> QED BY <2>1, <2>3, <2>4 DEF OwnInv, AsLong, Read, AllAsked
<1> QED BY <1>1, <1>2

\* Every step of a poll.
LEMMA OwnStep ==
    ASSUME InverterInv, OwnInv, InverterNext
    PROVE  OwnInv'
<1>0. Probe \in Asked /\ \A i \in DOMAIN Chunks : Chunks[i] \in Asked
  BY DEF Asked
<1>1. CASE StartPoll
  <2>1. wire \in Seq(Replies) /\ AllAsked(wire)
    BY DEF InverterInv, OwnInv
  <2>2. AllAsked(wire')
    BY <1>0, <1>1, <2>1, RequestIsAsked DEF StartPoll
  <2>3. taken' = <<>> /\ state' = state
    BY <1>1 DEF StartPoll
  <2>4. AsLong(taken')
    BY <2>3 DEF AsLong
  <2> QED BY <2>2, <2>3, <2>4 DEF OwnInv, AsLong, Read
<1>2. CASE FailProbe
  <2>1. AllAsked(wire')
    BY <1>2, RestIsAsked DEF FailProbe
  <2>2. taken' = taken /\ state'.reading = state.reading
    BY <1>2 DEF FailProbe, EndPoll, KeepReading
  <2> QED BY <2>1, <2>2 DEF OwnInv, AsLong, Read
<1>3. CASE FailOpen
  <2>1. wire' = wire /\ taken' = taken /\ state'.reading = state.reading
    BY <1>3 DEF FailOpen, EndPoll, KeepReading
  <2> QED BY <2>1 DEF OwnInv, AllAsked, AsLong, Read
<1>4. CASE TakeProbe
  <2>1. Tail(wire) \in Seq(Replies) /\ AllAsked(Tail(wire))
    BY <1>4, RestIsAsked DEF TakeProbe
  <2>2. Chunks[1] \in Asked
    BY <1>0, ChunksAre
  <2>3. AllAsked(wire')
    BY <1>4, <2>1, <2>2, RequestIsAsked DEF TakeProbe
  <2>4. taken' = taken /\ state' = state
    BY <1>4 DEF TakeProbe
  <2> QED BY <2>3, <2>4 DEF OwnInv, AsLong, Read
<1>5. CASE TakeChunk
  <2> DEFINE registers == [i \in DOMAIN taken \union {chunk} |->
                             IF i = chunk THEN Head(wire) ELSE taken[i]]
  <2>1. /\ wire # <<>> /\ Head(wire).of[2] = Chunks[chunk][2]
        /\ Proceed(registers, errors, Tail(wire))
    BY <1>5 DEF TakeChunk, Accepted
  <2>2. Tail(wire) \in Seq(Replies) /\ AllAsked(Tail(wire))
    BY <2>1, RestIsAsked
  <2>3. Head(wire) \in Replies /\ Head(wire).of \in Asked
    <3>1. wire \in Seq(AskedReplies)
      BY DEF OwnInv, AllAsked
    <3>2. Head(wire) \in AskedReplies
      BY <2>1, <3>1
    <3> QED BY <3>2 DEF AskedReplies
  <2>4. registers \in Registers
    <3>1. PICK S \in SUBSET DOMAIN Chunks : taken \in [S -> Replies]
      BY DEF InverterInv, Registers
    <3>2. chunk \in DOMAIN Chunks
      BY DEF InverterInv, InverterTypeOK
    <3>3. registers \in [S \union {chunk} -> Replies]
      BY <2>3, <3>1
    <3>4. S \union {chunk} \in SUBSET DOMAIN Chunks
      BY <3>1, <3>2
    <3> HIDE DEF registers
    <3> QED BY <3>3, <3>4 DEF Registers
  <2>5. AsLong(registers)
    BY <2>1, <2>3 DEF OwnInv, AsLong
  <2> HIDE DEF registers
  <2> QED BY <2>1, <2>2, <2>4, <2>5, ProceedOwns
<1>6. CASE Retry
  <2>1. PICK rest : /\ rest = wire \/ (wire # <<>> /\ rest = Tail(wire))
                    /\ Request(rest, Chunks[chunk])
    BY <1>6 DEF Retry, Attempt
  <2>2. Chunks[chunk] \in Asked
    BY <1>0 DEF InverterInv, InverterTypeOK
  <2>3. AllAsked(wire')
    BY <2>1, <2>2, RestIsAsked, RequestIsAsked
  <2>4. taken' = taken /\ state' = state
    BY <1>6 DEF Retry
  <2> QED BY <2>3, <2>4 DEF OwnInv, AsLong, Read
<1>7. CASE GiveUp
  <2>1. PICK rest : /\ rest = wire \/ (wire # <<>> /\ rest = Tail(wire))
                    /\ Proceed(taken, errors \union {chunk}, rest)
    BY <1>7 DEF GiveUp, Attempt
  <2>2. rest \in Seq(Replies) /\ AllAsked(rest)
    BY <2>1, RestIsAsked
  <2>3. taken \in Registers /\ AsLong(taken)
    BY DEF InverterInv, OwnInv
  <2> QED BY <2>1, <2>2, <2>3, ProceedOwns
<1> QED BY <1>1, <1>2, <1>3, <1>4, <1>5, <1>6, <1>7 DEF InverterNext

\* Whatever is answered late or not at all, a reply taken is as long as its chunk.
LEMMA OwnInvariant == InverterSpec => [](InverterInv /\ OwnInv)
<1>1. InverterInit => OwnInv
  BY DEF InverterInit, OwnInv, AllAsked, AsLong
<1>2. InverterInv /\ OwnInv /\ [InverterNext]_inverterVars => OwnInv'
  <2>1. InverterInv /\ OwnInv /\ UNCHANGED inverterVars => OwnInv'
    BY DEF inverterVars, OwnInv, AllAsked, AsLong, Read
  <2> QED BY <2>1, OwnStep
<1> QED BY <1>1, <1>2, InverterInvariant, PTL DEF InverterSpec

\* Only one request is as long as each of those for telemetry.
LEMMA LengthTells ==
    ASSUME NEW i \in 3..5, NEW range \in Asked, range[2] = Chunks[i][2]
    PROVE  range = Chunks[i]
<1>1. range # Probe
  BY ChunksAre DEF Probe
<1>2. PICK j \in 1..7 : range = Chunks[j]
  BY <1>1, ChunksAre DEF Asked
<1>3. i = j
  BY <1>2, ChunksAre
<1> QED BY <1>2, <1>3

\* Whichever replies are late and ranges lost, with either transport and any number
\* of retries: grid, load, PV, battery and energy are read out of their own
\* registers, and a sum or counter out of all of its registers or not at all.
THEOREM RegistersAreTheirs == InverterSpec => []RegistersAreTheirOwn
<1>1. ASSUME OwnInv PROVE TelemetryIsOwn
  <2>1. SUFFICES ASSUME state.reading # None, NEW i \in TelemetryChunks \cap DOMAIN Read
                 PROVE  Own(i)
    BY DEF TelemetryIsOwn
  <2>2. i \in 3..5
    BY TelemetryPlace
  <2>3. Read[i].of \in Asked /\ Read[i].of[2] = Chunks[i][2]
    BY <1>1, <2>1 DEF OwnInv, AsLong
  <2> QED BY <2>2, <2>3, LengthTells DEF Own
<1>2. SumsAreWhole
  <2>1. \A sum \in SumChunks : \A i, j \in sum : i = j
    BY SumsAreOfOneChunk
  <2> QED BY <2>1 DEF SumsAreWhole
<1>3. OwnInv => RegistersAreTheirOwn
  BY <1>1, <1>2 DEF RegistersAreTheirOwn
<1> QED BY <1>3, OwnInvariant, PTL

-----------------------------------------------------------------------------
(* The packs: the types. *)

BusReplies == UNION {PackAnswers(p, c) : p \in Range(Packs), c \in Range(Queries)}

\* A reply is kept with what it said and where it came from.
Kept(all) ==
    /\ DOMAIN all = Range(Queries)
    /\ \A c \in Range(Queries) : all[c] \in Takens(c) \union {None}

StateFits(s) ==
    /\ s.status \in {"pending", "ok", "error", "disabled"}
    /\ (s.status = "ok") <=> (s.reading # None)
    /\ s.reading \in PackReadings \union {None}

\* The packs before the one being read are of this poll, the others of the last.
PollOf(i) == IF i < turn THEN packPolls ELSE packPolls - 1

PackInv ==
    /\ packPolls \in 0..MaxPackPolls /\ turn \in 1..(Len(Packs) + 1)
    /\ query \in 0..Len(Queries) /\ (~Reading => query = 0)
    /\ bus \in Seq(BusReplies) /\ Len(bus) <= MaxBus
    /\ Kept(parsed)
    /\ query <= 1 => parsed = Nothing
    /\ query > 1 => parsed[Queries[1]] # None
    /\ DOMAIN states = Range(Packs)
    /\ \A i \in 1..Len(Packs) : StateFits(states[Packs[i]]) /\ states[Packs[i]].poll = PollOf(i)

\* The packs of the adapter, and the commands.
LEMMA PacksAre ==
    /\ Len(Packs) \in Nat /\ DOMAIN Packs = 1..Len(Packs)
    /\ \A i \in 1..Len(Packs) : Packs[i] \in Range(Packs)
    /\ \A i, j \in 1..Len(Packs) : Packs[i] = Packs[j] => i = j
    /\ \A p \in Range(Packs) : \E i \in 1..Len(Packs) : Packs[i] = p
  BY PackBusAssumption DEF Range, IsInjective

\* The commands of either protocol, the first of which a pack must answer.
LEMMA QueriesAre ==
    /\ Len(Queries) \in Nat /\ Len(Queries) >= 1 /\ DOMAIN Queries = 1..Len(Queries)
    /\ \A i \in 1..Len(Queries) : Queries[i] \in Range(Queries)
    /\ Protocol = "pylontech" =>
         /\ Queries[1] = "analog"
         /\ Range(Queries) = {"analog", "alarm", "management", "manufacturer", "serial"}
    /\ Protocol = "ecoworthy" => Queries[1] = "status" /\ Range(Queries) = {"status"}
<1>1. CASE Protocol = "pylontech"
  <2>1. Queries = <<"analog", "alarm", "management", "manufacturer", "serial">>
    BY <1>1 DEF Queries, Commands
  <2> QED BY <1>1, <2>1 DEF Range
<1>2. CASE Protocol = "ecoworthy"
  <2>1. Queries = <<"status">>
    BY <1>2 DEF Queries
  <2> QED BY <1>2, <2>1 DEF Range
<1> QED BY <1>1, <1>2, PackBusAssumption

\* What goes out on the adapter leaves replies of packs on their way.
LEMMA TransactType ==
    ASSUME NEW rest \in Seq(BusReplies), Len(rest) <= MaxBus,
           NEW p \in Range(Packs), NEW c \in Range(Queries), Transact(rest, p, c)
    PROVE  bus' \in Seq(BusReplies) /\ Len(bus') <= MaxBus
<1>1. PICK dropped \in 0..Len(rest) :
        LET late == SubSeq(rest, dropped + 1, Len(rest)) IN
        \/ bus' = late
        \/ Len(late) < MaxBus /\ \E answer \in PackAnswers(p, c) : bus' = Append(late, answer)
  BY DEF Transact
<1> DEFINE late == SubSeq(rest, dropped + 1, Len(rest))
<1>2. late \in Seq(BusReplies) /\ Len(late) <= MaxBus
  BY PackBusAssumption
<1>3. ASSUME Len(late) < MaxBus, NEW answer \in PackAnswers(p, c), bus' = Append(late, answer)
      PROVE  bus' \in Seq(BusReplies) /\ Len(bus') <= MaxBus
  <2>1. answer \in BusReplies
    BY DEF BusReplies
  <2> HIDE DEF late
  <2> QED BY <1>2, <1>3, <2>1, PackBusAssumption
<1> HIDE DEF late
<1> QED BY <1>1, <1>2, <1>3 DEF late

\* A reply that came and what is left on its way.
LEMMA BusRest ==
    ASSUME bus \in Seq(BusReplies), Len(bus) <= MaxBus, bus # <<>>
    PROVE  /\ Head(bus) \in BusReplies
           /\ Tail(bus) \in Seq(BusReplies) /\ Len(Tail(bus)) <= MaxBus
  BY PackBusAssumption

\* A trusted reply is of some pack and some command, and holds one of its payloads.
LEMMA TrustedIs ==
    ASSUME NEW reply \in BusReplies, Trusted(reply)
    PROVE  /\ reply.from \in Range(Packs) /\ reply.to \in Range(Queries) \ Unknown
           /\ reply.body \in Payloads[reply.to] /\ reply.body \in Bodies
           /\ Protocol = "pylontech" => reply.from = Pack
<1>1. PICK p \in Range(Packs), c \in Range(Queries) : reply \in PackAnswers(p, c)
  BY DEF BusReplies
<1>2. reply.code = 0 /\ (Protocol = "pylontech" => reply.from = Pack)
  BY DEF Trusted
<1>3. reply \notin [from : {p}, to : {c}, body : {<<>>}, intact : {FALSE}, code : {0}]
  <2> SUFFICES ASSUME reply \in [from : {p}, to : {c}, body : {<<>>}, intact : {FALSE}, code : {0}]
               PROVE  FALSE
    OBVIOUS
  <2>1. reply.intact = FALSE
    OBVIOUS
  <2> QED BY <2>1, Zenon DEF Trusted
<1>4. /\ c \notin Unknown
      /\ reply \in [from : {p}, to : {c}, body : Payloads[c], intact : {TRUE}, code : {0}]
  <2>1. reply \in IF c \in Unknown
          THEN [from : {p}, to : {c}, body : {<<>>}, intact : {TRUE}, code : {4}]
          ELSE [from : {p}, to : {c}, body : Payloads[c], intact : {TRUE}, code : {0}]
    BY <1>1, <1>3, Zenon DEF PackAnswers
  <2>2. reply \notin [from : {p}, to : {c}, body : {<<>>}, intact : {TRUE}, code : {4}]
    <3> SUFFICES ASSUME reply \in [from : {p}, to : {c}, body : {<<>>}, intact : {TRUE}, code : {4}]
                 PROVE  FALSE
      OBVIOUS
    <3>1. reply.code = 4
      OBVIOUS
    <3>2. reply.code = 0
      BY <1>2
    <3> QED BY <3>1, <3>2
  <2> QED BY <2>1, <2>2, Zenon
<1>5. /\ reply.from = p /\ reply.to = c /\ reply.body \in Payloads[c]
  BY <1>4
<1> QED BY <1>2, <1>4, <1>5 DEF Bodies

\* What is kept of a trusted reply that is understood.
LEMMA TakenIs ==
    ASSUME NEW reply \in BusReplies, Trusted(reply), Understood(reply), Command \in Range(Queries)
    PROVE  [said |-> Meaning(reply), from |-> reply.from, to |-> reply.to] \in Takens(Command)
<1>1. Meaning(reply) \in Meanings(Command)
  BY TrustedIs DEF Meaning, Meanings, Understood
<1> QED BY <1>1, TrustedIs DEF Takens

\* A reading is built of what was kept.
LEMMA CompleteFits ==
    ASSUME NEW all, Kept(all), all[Queries[1]] # None
    PROVE  /\ StateFits(Complete(all)) /\ Complete(all).status = "ok"
           /\ Complete(all).poll = packPolls
<1> DEFINE said == [c \in Range(Queries) |-> IF all[c] = None THEN None ELSE all[c].said]
<1>1. \A c \in Range(Queries) : said[c] \in Meanings(c) \union {None}
  BY DEF Kept, Takens
<1>2. said[Queries[1]] \in Meanings(Queries[1])
  BY QueriesAre DEF Kept, Takens
<1>3. Complete(all).reading = (IF Protocol = "pylontech" THEN BuildReading(said)
                                                        ELSE said["status"])
  BY DEF Complete
<1>4. CASE Protocol = "pylontech"
  <2>1. said \in [analog : Meanings("analog"), alarm : Meanings("alarm") \union {None},
                  management : Meanings("management") \union {None},
                  manufacturer : Meanings("manufacturer") \union {None},
                  serial : Meanings("serial") \union {None}]
    <3>1. said = [c \in {"analog", "alarm", "management", "manufacturer", "serial"} |-> said[c]]
      BY <1>4, QueriesAre
    <3>2. /\ said["analog"] \in Meanings("analog")
          /\ said["alarm"] \in Meanings("alarm") \union {None}
          /\ said["management"] \in Meanings("management") \union {None}
          /\ said["manufacturer"] \in Meanings("manufacturer") \union {None}
          /\ said["serial"] \in Meanings("serial") \union {None}
      BY <1>1, <1>2, <1>4, QueriesAre
    <3> HIDE DEF said
    <3> QED BY <3>1, <3>2
  <2> HIDE DEF said
  <2>2. BuildReading(said) \in PackReadings
    BY <1>4, <2>1 DEF PackReadings
  <2>3. Complete(all).reading \in PackReadings
    BY <1>3, <1>4, <2>2
  <2> QED BY <2>3, PayloadAssumption DEF Complete, StateFits
<1>5. CASE Protocol = "ecoworthy"
  <2>1. said["status"] \in PackReadings
    BY <1>2, <1>5, QueriesAre DEF PackReadings, Meanings
  <2> HIDE DEF said
  <2>2. Complete(all).reading \in PackReadings
    BY <1>3, <1>5, <2>1
  <2> QED BY <2>2, PayloadAssumption DEF Complete, StateFits
<1> QED BY <1>4, <1>5, PackBusAssumption

\* The pack's state is set and the next one has its turn.
LEMMA FinishKeeps ==
    ASSUME PackInv, Reading, packPolls' = packPolls,
           NEW s, StateFits(s), s.poll = packPolls, Finish(s),
           bus' \in Seq(BusReplies), Len(bus') <= MaxBus
    PROVE  PackInv'
<1>1. /\ turn \in 1..Len(Packs) /\ turn' = turn + 1 /\ query' = 0 /\ parsed' = Nothing
      /\ states' = [states EXCEPT ![Packs[turn]] = s]
  BY PacksAre DEF PackInv, Reading, Finish, Pack
<1>2. DOMAIN states' = Range(Packs)
  BY <1>1 DEF PackInv
<1>3. ASSUME NEW i \in 1..Len(Packs)
      PROVE  StateFits(states'[Packs[i]]) /\ states'[Packs[i]].poll = PollOf(i)'
  <2>1. CASE i = turn
    BY <1>1, <2>1, PacksAre DEF PackInv, PollOf
  <2>2. CASE i # turn
    <3>1. states'[Packs[i]] = states[Packs[i]]
      BY <1>1, <2>2, PacksAre DEF PackInv
    <3>2. PollOf(i)' = PollOf(i)
      BY <1>1, <2>2 DEF PollOf
    <3> QED BY <3>1, <3>2 DEF PackInv
  <2> QED BY <2>1, <2>2
<1>4. Kept(parsed')
  BY <1>1 DEF Kept, Nothing
<1>5. turn' \in 1..(Len(Packs) + 1) /\ query' \in 0..Len(Queries)
  BY <1>1, PacksAre, QueriesAre
<1> QED BY <1>1, <1>2, <1>3, <1>4, <1>5 DEF PackInv, StateFits

\* A command is done with.
LEMMA ProceedPackKeeps ==
    ASSUME PackInv, Waiting, packPolls' = packPolls,
           NEW all, Kept(all), all[Queries[1]] # None,
           NEW rest \in Seq(BusReplies), Len(rest) <= MaxBus, ProceedPack(all, rest)
    PROVE  PackInv'
<1>1. CASE query < Len(Queries)
  <2>1. /\ query' = query + 1 /\ parsed' = all /\ UNCHANGED <<turn, states>>
        /\ Transact(rest, Pack, Queries[query + 1])
    BY <1>1 DEF ProceedPack
  <2>2. query \in 1..Len(Queries) /\ query + 1 \in 1..Len(Queries)
    BY <1>1, QueriesAre DEF PackInv, Waiting
  <2>3. Pack \in Range(Packs) /\ Queries[query + 1] \in Range(Queries)
    BY <2>2, PacksAre, QueriesAre DEF PackInv, Waiting, Reading, Pack
  <2>4. bus' \in Seq(BusReplies) /\ Len(bus') <= MaxBus
    BY <2>1, <2>3, TransactType
  <2>5. Reading'
    BY <2>1 DEF Waiting, Reading
  <2>6. Kept(parsed') /\ parsed'[Queries[1]] # None /\ query' > 1 /\ query' \in 0..Len(Queries)
    BY <2>1, <2>2 DEF Kept
  <2>7. /\ DOMAIN states' = Range(Packs)
        /\ \A i \in 1..Len(Packs) : StateFits(states'[Packs[i]]) /\ states'[Packs[i]].poll = PollOf(i)'
    BY <2>1 DEF PackInv, PollOf, StateFits
  <2>8. packPolls' \in 0..MaxPackPolls /\ turn' \in 1..(Len(Packs) + 1)
    BY <2>1 DEF PackInv
  <2> QED BY <2>4, <2>5, <2>6, <2>7, <2>8, QueriesAre DEF PackInv, Kept, StateFits
<1>2. CASE ~(query < Len(Queries))
  <2>1. Finish(Complete(all)) /\ bus' = rest
    BY <1>2 DEF ProceedPack
  <2> QED BY <2>1, CompleteFits, FinishKeeps DEF Waiting
<1> QED BY <1>1, <1>2

\* Every step of a poll of the packs.
LEMMA PackStep ==
    ASSUME PackInv, PackNext
    PROVE  PackInv'
<1>1. CASE StartPackPoll
  <2>1. /\ packPolls' = packPolls + 1 /\ turn' = 1 /\ ~Reading /\ packPolls < MaxPackPolls
        /\ UNCHANGED <<query, bus, parsed, states>>
    BY <1>1 DEF StartPackPoll
  <2>2. turn = Len(Packs) + 1 /\ query = 0
    BY <2>1, PacksAre DEF PackInv, Reading
  <2>3. packPolls' \in 0..MaxPackPolls /\ turn' \in 1..(Len(Packs) + 1)
    BY <2>1, PacksAre, PackBusAssumption DEF PackInv
  <2>4. \A i \in 1..Len(Packs) : PollOf(i)' = PollOf(i)
    BY <2>1, <2>2, PacksAre DEF PollOf, PackInv
  <2> QED BY <2>1, <2>2, <2>3, <2>4 DEF PackInv, Kept, Nothing, StateFits
<1>2. CASE SkipDisabled
  <2>1. StateFits(Without("disabled", None)) /\ Without("disabled", None).poll = packPolls
    BY DEF StateFits, Without
  <2> QED BY <1>2, <2>1, FinishKeeps DEF SkipDisabled, PackInv
<1>3. CASE OpenPort
  <2>1. /\ Reading /\ query' = 1 /\ Transact(bus, Pack, Queries[1])
        /\ UNCHANGED <<packPolls, turn, parsed, states>> /\ query = 0
    BY <1>3 DEF OpenPort
  <2>2. Pack \in Range(Packs) /\ Queries[1] \in Range(Queries)
    BY <2>1, PacksAre, QueriesAre DEF PackInv, Reading, Pack
  <2>3. bus' \in Seq(BusReplies) /\ Len(bus') <= MaxBus
    BY <2>1, <2>2, TransactType DEF PackInv
  <2>4. query' \in 0..Len(Queries) /\ Reading'
    BY <2>1, QueriesAre DEF Reading
  <2> QED BY <2>1, <2>3, <2>4 DEF PackInv, Kept, Nothing, PollOf, StateFits
<1>4. CASE TakeReply
  <2> DEFINE reply == Head(bus)
             all == [parsed EXCEPT ![Command] = [said |-> Meaning(reply),
                                                 from |-> reply.from, to |-> reply.to]]
  <2>1. /\ Waiting /\ bus # <<>> /\ Trusted(reply) /\ Understood(reply)
        /\ ProceedPack(all, Tail(bus)) /\ packPolls' = packPolls
    BY <1>4 DEF TakeReply
  <2>2. /\ reply \in BusReplies
        /\ Tail(bus) \in Seq(BusReplies) /\ Len(Tail(bus)) <= MaxBus
    BY <2>1, BusRest DEF PackInv
  <2>3. query \in 1..Len(Queries) /\ Command \in Range(Queries)
    BY <2>1, QueriesAre DEF PackInv, Waiting, Command
  <2>4. [said |-> Meaning(reply), from |-> reply.from, to |-> reply.to] \in Takens(Command)
    BY <2>1, <2>2, <2>3, TakenIs
  <2>5. Kept(all)
    BY <2>3, <2>4 DEF PackInv, Kept
  <2>6. all[Queries[1]] # None
    <3>1. all[Command] # None /\ Command \in DOMAIN parsed
      BY <2>3, <2>4, PayloadAssumption DEF PackInv, Kept
    <3>2. CASE query = 1
      BY <3>1, <3>2 DEF Command
    <3>3. CASE query > 1
      BY <3>1, <3>3, QueriesAre DEF PackInv, Kept
    <3> QED BY <2>3, <3>2, <3>3
  <2> HIDE DEF all, reply
  <2> QED BY <2>1, <2>2, <2>5, <2>6, ProceedPackKeeps
<1>5. CASE LeaveOut
  <2>1. Waiting /\ packPolls' = packPolls
    BY <1>5 DEF LeaveOut
  <2>2. PICK rest : /\ rest = bus \/ (bus # <<>> /\ rest = Tail(bus))
                    /\ query # 1 /\ ProceedPack(parsed, rest)
    <3>1. ASSUME bus # <<>>, ~(Trusted(Head(bus)) /\ Understood(Head(bus))), ~Raises(Head(bus))
          PROVE  query # 1
      BY <3>1 DEF Raises
    <3>2. CASE query > 1 /\ ProceedPack(parsed, bus)
      BY <3>2
    <3>3. CASE /\ bus # <<>>
               /\ LET reply == Head(bus) IN ~(Trusted(reply) /\ Understood(reply)) /\ ~Raises(reply)
               /\ ProceedPack(parsed, Tail(bus))
      BY <3>1, <3>3
    <3> QED BY <1>5, <3>2, <3>3 DEF LeaveOut
  <2>3. rest \in Seq(BusReplies) /\ Len(rest) <= MaxBus
    BY <2>2, BusRest DEF PackInv
  <2>4. query > 1
    BY <2>1, <2>2, QueriesAre DEF PackInv, Waiting
  <2> QED BY <2>1, <2>2, <2>3, <2>4, ProceedPackKeeps DEF PackInv
<1>6. CASE FailPack
  <2>1. StateFits(Without("error", Command)) /\ Without("error", Command).poll = packPolls
    BY DEF StateFits, Without
  <2>2. bus' \in Seq(BusReplies) /\ Len(bus') <= MaxBus
    BY <1>6, BusRest DEF FailPack, PackInv
  <2> QED BY <1>6, <2>1, <2>2, FinishKeeps DEF FailPack, Waiting
<1>7. CASE PortRaises
  <2>1. StateFits(Without("error", "port")) /\ Without("error", "port").poll = packPolls
    BY DEF StateFits, Without
  <2> QED BY <1>7, <2>1, FinishKeeps DEF PortRaises, PackInv
<1> QED BY <1>1, <1>2, <1>3, <1>4, <1>5, <1>6, <1>7 DEF PackNext

\* At the start every pack is pending, and it is nobody's turn.
LEMMA PackInvInit == PackInit => PackInv
<1> SUFFICES ASSUME PackInit PROVE PackInv
  OBVIOUS
<1>1. \A p \in Range(Packs) : StateFits(Without("pending", None))
  BY DEF StateFits, Without
<1>2. ~Reading /\ turn \in 1..(Len(Packs) + 1) /\ packPolls \in 0..MaxPackPolls
  BY PacksAre, PackBusAssumption DEF PackInit, Reading
<1>3. Kept(parsed) /\ query = 0 /\ query \in 0..Len(Queries) /\ parsed = Nothing
  BY QueriesAre DEF PackInit, Kept, Nothing
<1>4. bus \in Seq(BusReplies) /\ Len(bus) <= MaxBus
  BY PackBusAssumption DEF PackInit
<1>5. ASSUME NEW i \in 1..Len(Packs)
      PROVE  StateFits(states[Packs[i]]) /\ states[Packs[i]].poll = PollOf(i)
  <2>1. states[Packs[i]] = Without("pending", None) /\ i < turn
    BY PacksAre DEF PackInit
  <2> QED BY <1>1, <2>1, PacksAre DEF PollOf, Without
<1>6. DOMAIN states = Range(Packs)
  BY DEF PackInit
<1> QED BY <1>2, <1>3, <1>4, <1>5, <1>6 DEF PackInv

\* The invariant of all behaviours.
LEMMA PackInvariant == PackSpec => []PackInv
<1>1. PackInv /\ UNCHANGED packVars => PackInv'
  BY DEF packVars, PackInv, Kept, Nothing, PollOf, StateFits, Reading
<1> QED BY <1>1, PackInvInit, PackStep, PTL DEF PackSpec

\* The types of the poll of the packs follow.
LEMMA PackTypes == PackInv => PackTypeOK
<1> SUFFICES ASSUME PackInv PROVE PackTypeOK
  OBVIOUS
<1>1. ASSUME NEW r \in Range(bus)
      PROVE  r \in PackAnswers(r.from, r.to)
  <2>1. r \in BusReplies
    BY DEF PackInv, Range
  <2>2. PICK p \in Range(Packs), c \in Range(Queries) : r \in PackAnswers(p, c)
    BY <2>1 DEF BusReplies
  <2>3. r.from = p /\ r.to = c
    BY <2>2 DEF PackAnswers
  <2> QED BY <2>2, <2>3
<1>2. ASSUME NEW p \in Range(Packs)
      PROVE  /\ states[p].status \in {"pending", "ok", "error", "disabled"}
             /\ Ok(p) <=> states[p].reading # None
             /\ states[p].poll \in {packPolls, packPolls - 1}
  <2>1. PICK i \in 1..Len(Packs) : Packs[i] = p
    BY PacksAre
  <2>2. StateFits(states[p]) /\ states[p].poll = PollOf(i)
    BY <2>1 DEF PackInv
  <2>3. states[p].poll \in {packPolls, packPolls - 1}
    BY <2>2 DEF PollOf
  <2> QED BY <2>2, <2>3 DEF StateFits, Ok
<1> QED BY <1>1, <1>2 DEF PackInv, PackTypeOK, Kept

-----------------------------------------------------------------------------
(* The packs: the sensors of a reading. *)

\* A set of numbers that is not empty has a least one.
LEMMA LeastOf ==
    ASSUME NEW S \in SUBSET Nat, S # {}
    PROVE  \E n \in S : \A m \in S : n <= m
<1> DEFINE Less == {pair \in Nat \X Nat : pair[1] < pair[2]}
<1>1. IsWellFoundedOn(Less, Nat)
  BY NatLessThanWellFounded DEF OpToRel
<1> HIDE DEF Less
<1>2. PICK n \in S : \A m \in S : <<m, n>> \notin Less
  BY <1>1, WFMin
<1>3. \A m \in S : ~(m < n)
  BY <1>2 DEF Less
<1> QED BY <1>3

\* A sequence of words that is not empty has a first largest and a first smallest.
LEMMA FirstsAre ==
    ASSUME NEW n \in Nat \ {0}, NEW top \in Nat, NEW s \in [1..n -> 0..top]
    PROVE  FirstMax(s) \in 1..n /\ FirstMin(s) \in 1..n
<1>1. \E i \in 1..n : (\A j \in 1..n : s[j] <= s[i]) /\ \A j \in 1..(i - 1) : s[j] < s[i]
  <2>1. PICK high \in {top - s[j] : j \in 1..n} : \A m \in {top - s[j] : j \in 1..n} : high <= m
    <3>1. {top - s[j] : j \in 1..n} \in SUBSET Nat /\ {top - s[j] : j \in 1..n} # {}
      <4>1. top - s[1] \in {top - s[j] : j \in 1..n}
        OBVIOUS
      <4> QED BY <4>1
    <3> QED BY <3>1, LeastOf
  <2>2. PICK k \in 1..n : high = top - s[k]
    BY <2>1
  <2>3. ASSUME NEW j \in 1..n PROVE s[j] <= s[k]
    <3>1. high <= top - s[j]
      BY <2>1
    <3> QED BY <2>2, <3>1
  <2>4. PICK i \in {j \in 1..n : s[j] = s[k]} : \A m \in {j \in 1..n : s[j] = s[k]} : i <= m
    <3>1. {j \in 1..n : s[j] = s[k]} \in SUBSET Nat /\ k \in {j \in 1..n : s[j] = s[k]}
      OBVIOUS
    <3> QED BY <3>1, LeastOf
  <2>5. \A j \in 1..(i - 1) : s[j] < s[i]
    BY <2>3, <2>4
  <2> QED BY <2>3, <2>4, <2>5
<1>2. \E i \in 1..n : (\A j \in 1..n : s[j] >= s[i]) /\ \A j \in 1..(i - 1) : s[j] > s[i]
  <2>1. PICK low \in {s[j] : j \in 1..n} : \A m \in {s[j] : j \in 1..n} : low <= m
    <3>1. {s[j] : j \in 1..n} \in SUBSET Nat /\ {s[j] : j \in 1..n} # {}
      <4>1. s[1] \in {s[j] : j \in 1..n}
        OBVIOUS
      <4> QED BY <4>1
    <3> QED BY <3>1, LeastOf
  <2>2. PICK k \in 1..n : low = s[k]
    BY <2>1
  <2>3. \A j \in 1..n : s[j] >= s[k]
    BY <2>1, <2>2
  <2>4. PICK i \in {j \in 1..n : s[j] = s[k]} : \A m \in {j \in 1..n : s[j] = s[k]} : i <= m
    <3>1. {j \in 1..n : s[j] = s[k]} \in SUBSET Nat /\ k \in {j \in 1..n : s[j] = s[k]}
      OBVIOUS
    <3> QED BY <3>1, LeastOf
  <2>5. \A j \in 1..(i - 1) : s[j] > s[i]
    BY <2>3, <2>4
  <2> QED BY <2>3, <2>4, <2>5
<1>3. DOMAIN s = 1..n
  OBVIOUS
<1> QED BY <1>1, <1>2, <1>3 DEF FirstMax, FirstMin

\* A byte, and a word of two.
Byte == 0..255
LargestByte == 255
LargestWord == 256 * LargestByte + LargestByte
Word == 0..LargestWord

\* Bytes and words are numbers within their bounds.
LEMMA BytesAreNumbers ==
    /\ LargestByte \in Nat /\ LargestWord \in Nat
    /\ 0 \in Byte /\ \A b \in Byte : b \in Nat /\ b <= LargestByte
  BY DEF LargestWord, LargestByte, Byte

FirstsWithin(n, s) == FirstMax(s) \in 1..n /\ FirstMin(s) \in 1..n

\* Words in particular.
LEMMA FirstsOfWords == \A n \in Nat \ {0} : \A s \in [1..n -> Word] : FirstsWithin(n, s)
<1>1. ASSUME NEW n \in Nat \ {0}, NEW s \in [1..n -> Word]
      PROVE  FirstsWithin(n, s)
  BY FirstsAre, BytesAreNumbers DEF Word, FirstsWithin
<1> QED BY <1>1

\* What the parser reads of a payload are bytes and words.
LEMMA BytesAre ==
    ASSUME NEW info \in Seq(Byte), NEW offset \in Nat
    PROVE  U8(info, offset) \in Byte /\ U16(info, offset) \in Word
<1>1. ASSUME NEW o \in Nat PROVE U8(info, o) \in Byte
  <2>1. CASE o < Len(info)
    <3>1. o + 1 \in 1..Len(info)
      BY <2>1
    <3>2. info[o + 1] \in Byte
      BY <3>1
    <3> QED BY <2>1, <3>2 DEF U8
  <2>2. CASE ~(o < Len(info))
    BY <2>2, BytesAreNumbers DEF U8
  <2> QED BY <2>1, <2>2
<1>2. ASSUME NEW a \in Byte, NEW b \in Byte
      PROVE  256 * a + b \in Word
  BY BytesAreNumbers DEF Word, LargestWord
<1>3. offset + 1 \in Nat
  OBVIOUS
<1>4. U8(info, offset) \in Byte /\ U8(info, offset + 1) \in Byte
  BY <1>1, <1>3
<1> QED BY <1>2, <1>4 DEF U16

\* The temperatures that are read, however many the payload says there are.
LEMMA TemperaturesAre ==
    ASSUME NEW info \in Seq(Byte)
    PROVE  \E n \in Nat : ParseAnalog(info).temperatures \in [1..n -> Word]
<1>1. TempsAt(info) \in Nat /\ Temps(info) \in Nat
  <2>1. U8(info, 2) \in Nat
    BY BytesAre, BytesAreNumbers
  <2>2. TempsAt(info) \in Nat
    BY <2>1 DEF TempsAt, Cells
  <2>3. U8(info, TempsAt(info)) \in Byte
    BY <2>2, BytesAre
  <2> QED BY <2>2, <2>3, BytesAreNumbers DEF Temps
<1>2. ASSUME NEW i \in 1..Temps(info)
      PROVE  U16(info, TempsAt(info) + 1 + 2 * (i - 1)) \in Word
  <2>1. TempsAt(info) + 1 + 2 * (i - 1) \in Nat
    BY <1>1
  <2> QED BY <2>1, BytesAre
<1>3. ParseAnalog(info).temperatures =
        [i \in 1..Temps(info) |-> U16(info, TempsAt(info) + 1 + 2 * (i - 1))]
  BY DEF ParseAnalog, Words
<1>4. ParseAnalog(info).temperatures \in [1..Temps(info) -> Word]
  BY <1>2, <1>3
<1> QED BY <1>1, <1>4

\* What build_reading shows of the warmest and the coldest sensor.
ShownRight(r) ==
    r.highSensor # None =>
        /\ r.temperatures[r.highSensor] = r.highDegrees
        /\ r.temperatures[r.lowSensor] = r.lowDegrees

\* The number of a sensor counts in all temperatures, and its degrees are picked
\* out of those of the cells.
LEMMA SensorsCount ==
    ASSUME NEW n \in Nat, NEW all \in [1..n -> Word], NEW temps, NEW by, NEW r,
           temps = (IF n > 1 THEN Tail(all) ELSE all), by = (IF n > 1 THEN 1 ELSE 0),
           r.temperatures = all,
           r.highSensor = (IF temps = <<>> THEN None ELSE FirstMax(temps) + by),
           r.highDegrees = (IF temps = <<>> THEN None ELSE temps[FirstMax(temps)]),
           r.lowSensor = (IF temps = <<>> THEN None ELSE FirstMin(temps) + by),
           r.lowDegrees = (IF temps = <<>> THEN None ELSE temps[FirstMin(temps)])
    PROVE  ShownRight(r)
<1>1. CASE n = 0
  <2>1. temps = <<>>
    BY <1>1
  <2> QED BY <2>1 DEF ShownRight
<1>2. CASE n = 1
  <2>1. temps = all /\ by = 0
    BY <1>2
  <2>2. FirstMax(all) \in 1..n /\ FirstMin(all) \in 1..n
    <3>1. n \in Nat \ {0}
      BY <1>2
    <3> QED BY <3>1, FirstsOfWords DEF FirstsWithin
  <2>3. FirstMax(all) + by = FirstMax(all) /\ FirstMin(all) + by = FirstMin(all)
    BY <2>1, <2>2
  <2> QED BY <2>1, <2>3 DEF ShownRight
<1>3. CASE n > 1
  <2>1. temps = Tail(all) /\ by = 1
    BY <1>3
  <2> DEFINE m == n - 1
  <2>2. m \in Nat \ {0} /\ m + 1 = n
    BY <1>3
  <2> HIDE DEF m
  <2>3. Len(temps) = m /\ temps \in Seq(Word) /\ \A i \in 1..m : temps[i] = all[i + 1]
    <3>1. all \in Seq(Word) /\ Len(all) = n
      OBVIOUS
    <3>2. Len(Tail(all)) = m /\ Tail(all) \in Seq(Word)
      BY <1>3, <2>2, <3>1
    <3>3. \A i \in 1..m : Tail(all)[i] = all[i + 1]
      BY <1>3, <2>2, <3>1
    <3> QED BY <2>1, <3>2, <3>3
  <2>4. temps \in [1..m -> Word]
    <3>1. ASSUME NEW w \in Seq(Word), Len(w) = m PROVE w \in [1..m -> Word]
      BY <3>1
    <3> QED BY <2>3, <3>1
  <2>5. FirstMax(temps) \in 1..m /\ FirstMin(temps) \in 1..m
    BY <2>2, <2>4, FirstsOfWords DEF FirstsWithin
  <2>6. /\ all[FirstMax(temps) + 1] = temps[FirstMax(temps)]
        /\ all[FirstMin(temps) + 1] = temps[FirstMin(temps)]
    BY <2>3, <2>5
  <2> QED BY <2>1, <2>6 DEF ShownRight
<1> QED BY <1>1, <1>2, <1>3

\* What build_reading names and shows, for any temperatures.
LEMMA SensorsOfReading ==
    ASSUME NEW said, NEW n \in Nat, said["analog"].temperatures \in [1..n -> Word]
    PROVE  ShownRight(BuildReading(said))
<1> DEFINE all == said["analog"].temperatures
           temps == CellTemps(said["analog"])
           r == BuildReading(said)
           by == SensorOffset(said["analog"])
<1>1. /\ r.temperatures = all
      /\ r.highSensor = IF temps = <<>> THEN None ELSE FirstMax(temps) + by
      /\ r.highDegrees = IF temps = <<>> THEN None ELSE temps[FirstMax(temps)]
      /\ r.lowSensor = IF temps = <<>> THEN None ELSE FirstMin(temps) + by
      /\ r.lowDegrees = IF temps = <<>> THEN None ELSE temps[FirstMin(temps)]
  BY DEF BuildReading
<1>2. Len(all) = n
  OBVIOUS
<1>3. /\ temps = (IF n > 1 THEN Tail(all) ELSE all)
      /\ by = (IF n > 1 THEN 1 ELSE 0)
  BY <1>2 DEF CellTemps, SensorOffset
<1> HIDE DEF all, temps, r, by
<1>4. ShownRight(r)
  BY <1>1, <1>3, SensorsCount DEF all
<1> QED BY <1>4 DEF r

\* What is served of a pack that is well names the sensors that it shows.
LEMMA SensorsNamed ==
    ASSUME PackInv, Protocol = "pylontech"
    PROVE  SensorsAreNamedRight
<1>1. ASSUME NEW reading \in PackReadings
      PROVE  ShownRight(reading)
  <2>1. PICK said : reading = BuildReading(said) /\ said["analog"] \in Meanings("analog")
    BY DEF PackReadings
  <2>2. PICK body \in Bodies : said["analog"] = ParseAnalog(body)
    BY <2>1 DEF Meanings, ParseReply
  <2>3. body \in Seq(Byte)
    BY PayloadAssumption DEF Byte
  <2>4. PICK n \in Nat : said["analog"].temperatures \in [1..n -> Word]
    BY <2>2, <2>3, TemperaturesAre
  <2> QED BY <2>1, <2>4, SensorsOfReading
<1>2. ASSUME NEW p \in Range(Packs), Ok(p)
      PROVE  ShownRight(states[p].reading)
  <2>1. PICK i \in 1..Len(Packs) : Packs[i] = p
    BY PacksAre
  <2>2. StateFits(states[p])
    BY <2>1 DEF PackInv
  <2>3. states[p].reading \in PackReadings
    BY <1>2, <2>2 DEF StateFits, Ok
  <2> QED BY <1>1, <2>3
<1> QED BY <1>2 DEF SensorsAreNamedRight, ShownRight

-----------------------------------------------------------------------------
(* The packs: whose answers, and to what. *)

\* An answer to anything but the command for the analog values, an empty one among
\* them, is shorter than such values of as many cells as its third byte says, however
\* few temperatures there are.
AnswersTellApart ==
    \A c \in Range(Queries) \ Unknown : \A body \in Payloads[c] :
        c # "analog" => Len(body) < 11 + 2 * U8(body, 2)

\* The parser of the analog values refuses such an answer whatever it holds.
LEMMA TooShortForAnalog ==
    ASSUME NEW body \in Seq(Byte), Len(body) < 11 + 2 * U8(body, 2)
    PROVE  ~AnalogFits(body)
<1>1. Cells(body) \in Nat /\ TempsAt(body) = 3 + 2 * Cells(body)
  BY BytesAre, BytesAreNumbers DEF Cells, TempsAt
<1>2. TempsAt(body) \in Nat
  BY <1>1
<1>3. Temps(body) \in Nat
  <2>1. U8(body, TempsAt(body)) \in Byte
    BY <1>2, BytesAre
  <2> QED BY <2>1, BytesAreNumbers DEF Temps
<1>4. PICK cells \in Nat, temps \in Nat :
        Cells(body) = cells /\ Temps(body) = temps /\ TempsAt(body) = 3 + 2 * cells
  BY <1>1, <1>3
<1>5. CurrentAt(body) + 7 = 11 + 2 * cells + 2 * temps
  BY <1>4 DEF CurrentAt
<1>6. Len(body) \in Nat /\ Len(body) < 11 + 2 * cells
  BY <1>4 DEF Cells
<1>7. ~(Len(body) >= CurrentAt(body) + 7)
  <2> DEFINE l == Len(body)
             end == CurrentAt(body) + 7
  <2> HIDE DEF l, end
  <2>1. l \in Nat /\ l < 11 + 2 * cells /\ end = 11 + 2 * cells + 2 * temps
    BY <1>5, <1>6 DEF l, end
  <2>2. ~(l >= end)
    BY <2>1
  <2> QED BY <2>2 DEF l, end
<1> QED BY <1>7 DEF AnalogFits

\* The captured answers are told apart.
LEMMA CapturedTellApart ==
    ASSUME Protocol = "pylontech", Payloads = MCPayloads
    PROVE  AnswersTellApart
<1>1. Range(Queries) = {"analog", "alarm", "management", "manufacturer", "serial"}
  BY QueriesAre
<1>2. ASSUME NEW c \in {"alarm", "management", "manufacturer", "serial"}, NEW body \in MCPayloads[c]
      PROVE  Len(body) < 11 + 2 * U8(body, 2)
  <2>1. ASSUME Len(body) \in Nat, Len(body) > 2, body[3] \in Nat, Len(body) < 11 + 2 * body[3]
        PROVE  Len(body) < 11 + 2 * U8(body, 2)
    <3>1. U8(body, 2) = body[3]
      BY <2>1 DEF U8
    <3> QED BY <2>1, <3>1
  <2>2. CASE c = "alarm"
    <3>1. Len(body) = 35 /\ body[3] = 16
      BY <2>2 DEF MCPayloads, CapturedAlarm
    <3> QED BY <2>1, <3>1
  <2>3. CASE c = "management"
    <3>1. Len(body) = 10 /\ body[3] = 244
      BY <2>3 DEF MCPayloads
    <3> QED BY <2>1, <3>1
  <2>4. CASE c = "manufacturer"
    <3>1. Len(body) = 25 /\ body[3] = 49
      BY <2>4 DEF MCPayloads
    <3> QED BY <2>1, <3>1
  <2>5. CASE c = "serial"
    <3>1. CASE body = <<>>
      <4>1. Len(body) = 0 /\ U8(body, 2) = 0
        BY <3>1 DEF U8
      <4> QED BY <4>1
    <3>2. CASE body # <<>>
      <4>1. Len(body) = 3 /\ body[3] = 32
        BY <2>5, <3>2 DEF MCPayloads
      <4> QED BY <2>1, <4>1
    <3> QED BY <3>1, <3>2
  <2> QED BY <2>2, <2>3, <2>4, <2>5
<1> QED BY <1>1, <1>2 DEF AnswersTellApart

\* What is kept of the pack being read is its own, and its analog values are an
\* answer to the command for them.
OwnKept(all) ==
    \A c \in Range(Queries) : all[c] # None =>
        all[c].from = Pack /\ (c = "analog" => all[c].to = "analog")

\* The same of what is shown of a pack; and what may have cost it its reading.
Shown(s, p) ==
    /\ s.status = "ok" =>
         /\ \A c \in Range(Queries) : s.sources[c] # None => s.sources[c][1] = p
         /\ s.sources["analog"][2] = "analog"
    /\ s.status = "error" => s.at \in {Queries[1], "port", "serial"}

ShownInv ==
    /\ Reading => OwnKept(parsed)
    /\ \A i \in 1..Len(Packs) : Shown(states[Packs[i]], Packs[i])

\* A reading is made of what was kept.
LEMMA CompleteShows ==
    ASSUME Protocol = "pylontech", NEW all, Kept(all), all[Queries[1]] # None, OwnKept(all)
    PROVE  Shown(Complete(all), Pack)
<1> DEFINE sources == [c \in Range(Queries) |->
                         IF all[c] = None THEN None ELSE <<all[c].from, all[c].to>>]
<1>1. Complete(all).sources = sources /\ Complete(all).status = "ok"
  BY DEF Complete
<1>2. \A c \in Range(Queries) : sources[c] # None => sources[c][1] = Pack
  BY DEF OwnKept
<1>3. sources["analog"][2] = "analog"
  BY QueriesAre DEF OwnKept
<1> HIDE DEF sources
<1> QED BY <1>1, <1>2, <1>3 DEF Shown

\* The pack's state is set and the next one has its turn.
LEMMA FinishShows ==
    ASSUME PackInv, ShownInv, Reading, NEW s, Shown(s, Pack), Finish(s)
    PROVE  ShownInv'
<1>1. /\ turn \in 1..Len(Packs) /\ parsed' = Nothing
      /\ states' = [states EXCEPT ![Packs[turn]] = s] /\ Pack = Packs[turn]
  BY PacksAre DEF PackInv, Reading, Finish, Pack
<1>2. ASSUME NEW i \in 1..Len(Packs)
      PROVE  Shown(states'[Packs[i]], Packs[i])
  <2>1. CASE i = turn
    BY <1>1, <2>1, PacksAre DEF PackInv
  <2>2. CASE i # turn
    <3>1. states'[Packs[i]] = states[Packs[i]]
      BY <1>1, <2>2, PacksAre DEF PackInv
    <3> QED BY <3>1 DEF ShownInv
  <2> QED BY <2>1, <2>2
<1>3. OwnKept(parsed)'
  BY <1>1 DEF OwnKept, Nothing
<1> QED BY <1>2, <1>3 DEF ShownInv, Shown

\* A command is done with.
LEMMA ProceedPackShows ==
    ASSUME PackInv, ShownInv, Waiting, Protocol = "pylontech",
           NEW all, Kept(all), all[Queries[1]] # None, OwnKept(all),
           NEW rest, ProceedPack(all, rest)
    PROVE  ShownInv'
<1>1. CASE query < Len(Queries)
  BY <1>1 DEF ProceedPack, ShownInv, OwnKept, Pack, Shown
<1>2. CASE ~(query < Len(Queries))
  <2>1. Finish(Complete(all))
    BY <1>2 DEF ProceedPack
  <2> QED BY <2>1, CompleteShows, FinishShows DEF Waiting
<1> QED BY <1>1, <1>2

\* Every step of a poll of the packs.
LEMMA ShownStep ==
    ASSUME PackInv, ShownInv, PackNext, Protocol = "pylontech", AnswersTellApart
    PROVE  ShownInv'
<1>1. CASE StartPackPoll
  <2>1. query = 0 /\ parsed' = Nothing /\ states' = states
    BY <1>1 DEF StartPackPoll, PackInv
  <2>2. OwnKept(parsed)'
    BY <2>1 DEF OwnKept, Nothing
  <2> QED BY <2>1, <2>2 DEF ShownInv, Shown
<1>2. CASE SkipDisabled
  <2>1. Shown(Without("disabled", None), Pack)
    BY DEF Shown, Without
  <2> QED BY <1>2, <2>1, FinishShows DEF SkipDisabled
<1>3. CASE OpenPort
  BY <1>3 DEF OpenPort, ShownInv, OwnKept, Pack, Shown
<1>4. CASE TakeReply
  <2> DEFINE reply == Head(bus)
             held == [said |-> Meaning(reply), from |-> reply.from, to |-> reply.to]
             all == [parsed EXCEPT ![Command] = held]
  <2>1. /\ Waiting /\ bus # <<>> /\ Trusted(reply) /\ Understood(reply)
        /\ ProceedPack(all, Tail(bus))
    BY <1>4 DEF TakeReply
  <2>2. reply \in BusReplies
    BY <2>1, BusRest DEF PackInv
  <2>3. query \in 1..Len(Queries) /\ Command \in Range(Queries)
    BY <2>1, QueriesAre DEF PackInv, Waiting, Command
  <2>4. /\ reply.from = Pack /\ reply.to \in Range(Queries) \ Unknown
        /\ reply.body \in Payloads[reply.to] /\ reply.body \in Seq(Byte)
    BY <2>1, <2>2, TrustedIs, PayloadAssumption DEF Byte
  <2>5. Command = "analog" => reply.to = "analog"
    <3>1. Command = "analog" => AnalogFits(reply.body)
      BY <2>1 DEF Understood, Fits
    <3>2. reply.to # "analog" => ~AnalogFits(reply.body)
      BY <2>4, TooShortForAnalog DEF AnswersTellApart
    <3> QED BY <3>1, <3>2
  <2>6. held \in Takens(Command)
    BY <2>1, <2>2, <2>3, TakenIs
  <2>7. Kept(all)
    BY <2>3, <2>6 DEF PackInv, Kept
  <2>8. all[Queries[1]] # None
    <3>1. all[Command] # None /\ Command \in DOMAIN parsed
      BY <2>3, <2>6, PayloadAssumption DEF PackInv, Kept
    <3>2. CASE query = 1
      BY <3>1, <3>2 DEF Command
    <3>3. CASE query > 1
      BY <3>1, <3>3, QueriesAre DEF PackInv, Kept
    <3> QED BY <2>3, <3>2, <3>3
  <2>9. OwnKept(all)
    <3>1. OwnKept(parsed)
      BY <2>1 DEF ShownInv, Waiting
    <3> QED BY <2>3, <2>4, <2>5, <3>1 DEF OwnKept, PackInv, Kept
  <2> HIDE DEF all, held
  <2> QED BY <2>1, <2>7, <2>8, <2>9, ProceedPackShows
<1>5. CASE LeaveOut
  <2>1. Waiting /\ query # 1 /\ \E rest : ProceedPack(parsed, rest)
    <3>1. ASSUME bus # <<>>, ~(Trusted(Head(bus)) /\ Understood(Head(bus))), ~Raises(Head(bus))
          PROVE  query # 1
      BY <3>1 DEF Raises
    <3> QED BY <1>5, <3>1 DEF LeaveOut
  <2>2. query > 1 /\ OwnKept(parsed)
    BY <2>1 DEF PackInv, Waiting, ShownInv
  <2> QED BY <2>1, <2>2, ProceedPackShows DEF PackInv
<1>6. CASE FailPack
  <2>1. Waiting /\ Finish(Without("error", Command))
    BY <1>6 DEF FailPack
  <2>2. Command \in {Queries[1], "serial"}
    <3>1. CASE query = 1
      BY <3>1 DEF Command
    <3>2. CASE query # 1 /\ bus # <<>> /\ Raises(Head(bus))
      BY <3>2 DEF Raises
    <3> QED BY <1>6, <3>1, <3>2 DEF FailPack
  <2>3. Shown(Without("error", Command), Pack)
    BY <2>2 DEF Shown, Without
  <2> QED BY <2>1, <2>3, FinishShows DEF Waiting
<1>7. CASE PortRaises
  <2>1. Shown(Without("error", "port"), Pack)
    BY DEF Shown, Without
  <2> QED BY <1>7, <2>1, FinishShows DEF PortRaises
<1> QED BY <1>1, <1>2, <1>3, <1>4, <1>5, <1>6, <1>7 DEF PackNext

\* At the start nothing is shown of any pack.
LEMMA ShownInit == PackInit => ShownInv
<1> SUFFICES ASSUME PackInit PROVE ShownInv
  OBVIOUS
<1>1. ASSUME NEW i \in 1..Len(Packs) PROVE Shown(states[Packs[i]], Packs[i])
  BY PacksAre DEF PackInit, Shown, Without
<1>2. OwnKept(parsed)
  BY DEF PackInit, OwnKept, Nothing
<1> QED BY <1>1, <1>2 DEF ShownInv

\* The four parts of what is shown.
LEMMA ShownMeans ==
    ASSUME PackInv, ShownInv, Protocol = "pylontech"
    PROVE  PacksAreShownAsTheyAre
<1>1. ASSUME NEW p \in Range(Packs) PROVE Shown(states[p], p)
  <2>1. PICK i \in 1..Len(Packs) : Packs[i] = p
    BY PacksAre
  <2> QED BY <2>1 DEF ShownInv
<1>2. ReadingIsItsPacks /\ AnalogIsAnalog /\ OnlyTheSerialNumberCostsThePack
  BY <1>1 DEF Shown, ReadingIsItsPacks, AnalogIsAnalog, OnlyTheSerialNumberCostsThePack, Ok
<1> QED BY <1>2, SensorsNamed DEF PacksAreShownAsTheyAre

\* The initial states and steps of the poll are those of its parts.
LEMMA PollIsItsParts == PollSpec => PackSpec /\ InverterSpec /\ MetricsSpec
<1>1. PollInit => PackInit /\ InverterInit /\ MetricsInit
  BY DEF PollInit
<1>2. [PollNext]_<<part, packVars, inverterVars, gaugeVars>> =>
        [PackNext]_packVars /\ [InverterNext]_inverterVars /\ [MetricsNext]_gaugeVars
  BY DEF PollNext
<1> QED BY <1>1, <1>2, PTL DEF PollSpec, PackSpec, InverterSpec, MetricsSpec

\* However late or lost the replies, whenever the port raises, and for any packs,
\* payloads and number of polls: what is shown of a Pylontech pack is that pack's own,
\* voltage and charge are read out of an answer for them, the sensor named is the one
\* shown, and no detail but the serial number costs the pack its reading
\* (pylontech.py:599).  It needs answers that their length tells apart from analog
\* values; they may be empty.
THEOREM PacksAreThemselves ==
    ASSUME Protocol = "pylontech", AnswersTellApart
    PROVE  PollSpec => []PacksAreShownAsTheyAre
<1>1. PackInv /\ ShownInv /\ [PackNext]_packVars => ShownInv'
  <2>1. PackInv /\ ShownInv /\ UNCHANGED packVars => ShownInv'
    BY DEF packVars, ShownInv, Shown, OwnKept, Reading, Pack
  <2> QED BY <2>1, ShownStep
<1>2. PackInv /\ ShownInv => PacksAreShownAsTheyAre
  BY ShownMeans
<1> QED BY <1>1, <1>2, ShownInit, PackInvariant, PollIsItsParts, PTL DEF PackSpec

\* The types of the packs, the inverter and the gauges, and that no connection to the
\* inverter outlives its poll (poller.py:245).
THEOREM PollTypesCorrect == PollSpec => []PollTypeOK
<1>1. PackInv /\ InverterInv /\ GaugeInv => PollTypeOK
  BY PackTypes, GaugeTypes DEF InverterInv, PollTypeOK
<1>2. PackSpec => []PackInv
  BY PackInvariant
<1>3. InverterSpec => []InverterInv
  BY InverterInvariant
<1>4. MetricsSpec => []GaugeInv
  BY GaugeInvInit, GaugeInvStep, PTL DEF MetricsSpec
<1> QED BY <1>1, <1>2, <1>3, <1>4, PollIsItsParts, PTL

\* The three grid gauges are of one reading, for any powers and any order of
\* readings, errors and readings without a value (metrics.py:209).
THEOREM GaugesAgree == MetricsSpec => []GridGaugesAgree
<1>1. GaugeInv => GridGaugesAgree
  BY DEF GaugeInv
<1> QED BY <1>1, GaugeInvInit, GaugeInvStep, PTL DEF MetricsSpec

=============================================================================

------------------------- MODULE RegisterSnapshot -------------------------
(***************************************************************************)
(* The search for the register that holds a setting (register_discovery.py *)
(* and the snapshot and compare commands of inverter_probe.py): the same   *)
(* ranges are read Samples times, someone changes the setting on the       *)
(* inverter's panel, the ranges are read Samples times again, and the      *)
(* registers that were stable on both sides and differ are candidates.     *)
(*                                                                         *)
(* One step is one chunk tried, its retries included.  Telemetry may have  *)
(* any value at each read; the setting changes only on the panel; other    *)
(* registers never change.  A read may be lost on the link, and is refused *)
(* when its registers are not all on one page of the inverter.             *)
(***************************************************************************)
EXTENDS Integers, FiniteSets, FiniteSetsExt, SequencesExt

CONSTANTS
    SampledRanges,    \* the ranges to read, a sequence of <<first, last>>
    Page,             \* the inverter: the page of every address, 0 for none
    Telemetry,        \* registers that move on their own
    Setting,          \* the register that holds the setting
    Value,            \* register values, Undefined among them
    Undefined,        \* 0xFFFF, what an unmapped register reads as
    SampleChunkSize,  \* registers asked for at once
    Samples,          \* times each side reads the ranges
    ExtraReads,       \* refused chunks that may be split, per sample
    MaxLostChunks     \* bound: chunks the link may lose in one behaviour

Registers(range) == range[1]..range[2]
SampledAddress == UNION {Registers(SampledRanges[i]) : i \in 1..Len(SampledRanges)}

\* parse_ranges and the checks of read_blocks_resiliently.
ASSUME SearchAssumption ==
    /\ SampledRanges \in Seq(Nat \X Nat) /\ Page \in [SampledAddress -> Nat]
    /\ \A i \in 1..Len(SampledRanges) : SampledRanges[i][1] <= SampledRanges[i][2]
    /\ Telemetry \subseteq SampledAddress /\ Setting \in SampledAddress \ Telemetry
    /\ Undefined \in Value
    /\ SampleChunkSize \in 1..125 /\ Samples \in Nat /\ Samples >= 2
    /\ {ExtraReads, MaxLostChunks} \subseteq Nat

VARIABLES
    device,       \* what the registers that do not move hold
    side,         \* "before", "panel", "after" or "compared"
    queue,        \* chunks still to try in this sample
    splitsLeft,   \* refused chunks that may still be split
    got,          \* this sample: address -> value
    failed,       \* this sample: addresses of chunks given up, by kind
    samples,      \* the samples of this side
    baseline,     \* the classified snapshot taken before the panel was used
    candidates,   \* the result of compare
    lostChunks,   \* chunks lost on the link (counted for the bound)
    lostHere      \* those of them lost in this snapshot (history)

sampling == <<queue, splitsLeft, got, failed>>
losses == <<lostChunks, lostHere>>
snapshotVars == <<device, side, sampling, samples, baseline, candidates, losses>>

-----------------------------------------------------------------------------
(* One sample: read_blocks_resiliently. *)

\* A range cut into chunks of SampleChunkSize, and all ranges one after another.
SampleChunks(range) ==
    [i \in 1..((range[2] - range[1]) \div SampleChunkSize + 1) |->
        LET first == range[1] + (i - 1) * SampleChunkSize
        IN <<first, Min({first + SampleChunkSize - 1, range[2]})>>]

AllChunks == FlattenSeq([i \in 1..Len(SampledRanges) |-> SampleChunks(SampledRanges[i])])

SnapshotAnswers(span) == \E p \in {Page[a] : a \in span} : p # 0 /\ \A a \in span : Page[a] = p

NoSample == [refused |-> {}, failed |-> {}]
NoSnapshot == [stable |-> <<>>, volatile |-> {}, incomplete |-> {}]

StartSample ==
    /\ queue' = AllChunks /\ splitsLeft' = ExtraReads
    /\ got' = <<>> /\ failed' = NoSample

SnapshotInit ==
    /\ device \in [SampledAddress \ Telemetry -> Value]
    /\ side = "before"
    /\ queue = AllChunks /\ splitsLeft = ExtraReads
    /\ got = <<>> /\ failed = NoSample
    /\ samples = <<>> /\ baseline = NoSnapshot /\ candidates = {}
    /\ lostChunks = 0 /\ lostHere = 0

Sampling == side \in {"before", "after"} /\ queue # <<>>

\* The chunk is answered, at once or after retries.
ReadChunk ==
    /\ Sampling
    /\ LET span == Registers(Head(queue)) IN
        /\ SnapshotAnswers(span)
        /\ \E moving \in [span \cap Telemetry -> Value] :
            got' = [a \in DOMAIN got \union span |->
                       IF a \notin span THEN got[a]
                       ELSE IF a \in Telemetry THEN moving[a] ELSE device[a]]
    /\ queue' = Tail(queue)
    /\ UNCHANGED <<device, side, splitsLeft, failed, samples, baseline, candidates, losses>>

\* Mutant: the bound on splits is forgotten.
SplitWithoutBound ==
    /\ Sampling
    /\ LET c == Head(queue)
           half == c[1] + (c[2] - c[1] + 1) \div 2
       IN /\ ~SnapshotAnswers(Registers(c)) /\ c[2] > c[1]
          /\ queue' = <<<<c[1], half - 1>>, <<half, c[2]>>>> \o Tail(queue)
    /\ splitsLeft' = splitsLeft - 1
    /\ UNCHANGED <<device, side, got, failed, samples, baseline, candidates, losses>>

\* Mutant: both halves hold the register in the middle.
SplitOverlapping ==
    /\ Sampling
    /\ LET c == Head(queue)
           half == c[1] + (c[2] - c[1] + 1) \div 2
       IN /\ ~SnapshotAnswers(Registers(c)) /\ c[2] > c[1] /\ splitsLeft > 0
          /\ queue' = <<<<c[1], half>>, <<half, c[2]>>>> \o Tail(queue)
    /\ splitsLeft' = splitsLeft - 1
    /\ UNCHANGED <<device, side, got, failed, samples, baseline, candidates, losses>>

\* A refused chunk is split while splits last; both halves go to the front.
SplitChunk ==
    /\ Sampling
    /\ LET c == Head(queue)
           half == c[1] + (c[2] - c[1] + 1) \div 2
       IN /\ ~SnapshotAnswers(Registers(c)) /\ c[2] > c[1] /\ splitsLeft > 0
          /\ queue' = <<<<c[1], half - 1>>, <<half, c[2]>>>> \o Tail(queue)
    /\ splitsLeft' = splitsLeft - 1
    /\ UNCHANGED <<device, side, got, failed, samples, baseline, candidates, losses>>

\* Mutant: a refused chunk is recorded whole at once, as read_ranges does.
GiveUpUnsplit ==
    /\ Sampling
    /\ ~SnapshotAnswers(Registers(Head(queue)))
    /\ failed' = [failed EXCEPT !.refused = @ \union Registers(Head(queue))]
    /\ queue' = Tail(queue)
    /\ UNCHANGED <<device, side, splitsLeft, got, samples, baseline, candidates, losses>>

\* A refusal that cannot be split any further is recorded whole.
GiveUpRefused ==
    /\ Sampling
    /\ LET c == Head(queue) IN
        /\ ~SnapshotAnswers(Registers(c)) /\ (c[2] = c[1] \/ splitsLeft = 0)
        /\ failed' = [failed EXCEPT !.refused = @ \union Registers(c)]
    /\ queue' = Tail(queue)
    /\ UNCHANGED <<device, side, splitsLeft, got, samples, baseline, candidates, losses>>

\* Every attempt at a chunk is lost on the link.
GiveUpLost ==
    /\ Sampling /\ lostChunks < MaxLostChunks
    /\ lostChunks' = lostChunks + 1 /\ lostHere' = lostHere + 1
    /\ failed' = [failed EXCEPT !.failed = @ \union Registers(Head(queue))]
    /\ queue' = Tail(queue)
    /\ UNCHANGED <<device, side, splitsLeft, got, samples, baseline, candidates>>

-----------------------------------------------------------------------------
(* The two sides of the comparison. *)

\* Registers every sample returned with one value, those that moved, and those
\* some sample lacks; a register that ever read Undefined is none of them.
Classify(taken) ==
    LET seen == UNION {DOMAIN s : s \in Range(taken)}
        complete == {a \in seen : \A s \in Range(taken) : a \in DOMAIN s}
        defined == {a \in complete : \A s \in Range(taken) : s[a] # Undefined}
        still == {a \in defined : \A s \in Range(taken) : s[a] = taken[1][a]}
    IN [stable |-> [a \in still |-> taken[1][a]],
        volatile |-> defined \ still,
        incomplete |-> seen \ complete]

\* Mutant: a register only one side could read counts as changed.
CompareOneSided(before, after) ==
    {a \in DOMAIN before.stable \union DOMAIN after.stable :
        \/ a \notin DOMAIN before.stable \cap DOMAIN after.stable
        \/ before.stable[a] # after.stable[a]}

\* Mutant: the values are tested for truth, and one of 0 is none.
CompareTruthy(before, after) ==
    {a \in DOMAIN before.stable \cap DOMAIN after.stable :
        /\ before.stable[a] # 0 /\ after.stable[a] # 0
        /\ before.stable[a] # after.stable[a]}

\* Mutant: only what neither snapshot lacks anywhere is compared.
CompareWhole(before, after) ==
    IF before.incomplete \union after.incomplete # {} THEN {}
    ELSE {a \in DOMAIN before.stable \cap DOMAIN after.stable : before.stable[a] # after.stable[a]}

\* Registers stable on both sides that hold another value.
Compare(before, after) ==
    {a \in DOMAIN before.stable \cap DOMAIN after.stable : before.stable[a] # after.stable[a]}

\* A sample is complete; after the last one of a side the side is classified.
EndSample ==
    /\ side \in {"before", "after"} /\ queue = <<>>
    /\ LET taken == Append(samples, got) IN
        IF Len(taken) < Samples
          THEN samples' = taken /\ StartSample /\ UNCHANGED <<side, baseline, candidates>>
          ELSE /\ samples' = <<>>
               /\ UNCHANGED sampling
               /\ IF side = "before"
                    THEN /\ side' = "panel" /\ baseline' = Classify(taken)
                         /\ UNCHANGED candidates
                    ELSE /\ side' = "compared"
                         /\ candidates' = Compare(baseline, Classify(taken))
                         /\ UNCHANGED baseline
    /\ UNCHANGED <<device, losses>>

\* Someone turns the setting on the inverter's panel (perhaps to what it was)
\* and starts the second snapshot.
UsePanel ==
    /\ side = "panel"
    /\ \E v \in Value : device' = [device EXCEPT ![Setting] = v]
    /\ side' = "after" /\ StartSample /\ lostHere' = 0
    /\ UNCHANGED <<samples, baseline, candidates, lostChunks>>

SnapshotNext == ReadChunk \/ SplitChunk \/ GiveUpRefused \/ GiveUpLost \/ EndSample \/ UsePanel

SnapshotSpec == SnapshotInit /\ [][SnapshotNext]_snapshotVars

-----------------------------------------------------------------------------
(* Properties. *)

Given == DOMAIN got
Pending == UNION {Registers(c) : c \in Range(queue)}

SnapshotTypeOK ==
    /\ device \in [SampledAddress \ Telemetry -> Value]
    /\ side \in {"before", "panel", "after", "compared"}
    /\ Pending \subseteq SampledAddress
    /\ splitsLeft \in 0..ExtraReads
    /\ Given \subseteq SampledAddress /\ \A a \in Given : got[a] \in Value
    /\ failed.refused \subseteq SampledAddress /\ failed.failed \subseteq SampledAddress
    /\ Len(samples) < Samples
    /\ candidates \subseteq SampledAddress
    /\ lostChunks \in 0..MaxLostChunks /\ lostHere \in 0..lostChunks

\* Whatever is split, refused or lost, each register of the ranges is read once,
\* given up once or still queued: none is dropped from the snapshot in silence
\* (register_discovery.py:547-571).
EveryRegisterAccounted ==
    LET parts == <<Given, failed.refused, failed.failed, Pending>> IN
    /\ UNION Range(parts) = SampledAddress
    /\ \A i, j \in 1..4 : i # j => parts[i] \cap parts[j] = {}
    /\ \A i, j \in 1..Len(queue) : i # j => Registers(queue[i]) \cap Registers(queue[j]) = {}

\* While splits last, one register the inverter refuses does not hide another
\* that it answers for (register_discovery.py:526-529).
RefusalHidesNoNeighbour ==
    splitsLeft > 0 => \A a \in failed.refused : Page[a] = 0

\* A setting that was changed, is mapped and was read throughout is among the
\* candidates, whatever was refused on either side, lost before the panel was used or
\* moved meanwhile; a register that never moved is never one of them
\* (register_discovery.py:89-98).
SettingIsFound ==
    side = "compared" =>
        /\ candidates \subseteq Telemetry \union {Setting}
        /\ LET before == baseline.stable IN
           (Setting \in DOMAIN before /\ Setting \in Given /\ device[Setting] # Undefined
              /\ device[Setting] # before[Setting] /\ lostHere = 0)
            => Setting \in candidates
=============================================================================

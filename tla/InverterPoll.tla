---------------------------- MODULE InverterPoll ----------------------------
(***************************************************************************)
(* The collector polling its inverter: _poll_inverter (poller.py) with the *)
(* R8KLNA driver (megarevo.py) over a serial adapter (renogy_x.py) or a    *)
(* SOLARMAN logger (solarman_v5.py).                                       *)
(*                                                                         *)
(* Requests and replies are as in PackBus: a request empties the input     *)
(* buffer, and a reply may come after its read has timed out.  A Modbus    *)
(* reply says how many registers it holds and not which.  Registers are    *)
(* the inverter's own numbers; what was read is kept by chunk, as the      *)
(* chunk whose reply was taken.                                            *)
(***************************************************************************)
EXTENDS PythonNone, Integers, Sequences

CONSTANTS
    Transport,   \* "serial" or "solarman_v5"
    Retries,     \* attempts at a chunk after the first
    MaxPolls,    \* bound: polls
    MaxWire      \* bound: replies on their way at once

ASSUME InverterPollAssumption ==
    /\ Transport \in {"serial", "solarman_v5"}
    /\ Retries \in Nat /\ MaxPolls \in Nat /\ MaxWire \in Nat

\* R8KLNA_READ_BLOCKS, CORE_TELEMETRY_ADDRESSES and the probe of read_status.
R8KLNA_READ_BLOCKS ==
    <<<<4633, 1>>, <<4660, 6>>, <<12544, 83>>, <<12627, 48>>, <<12688, 14>>, <<12704, 14>>>>
CORE_TELEMETRY_ADDRESSES ==
    {12560, 12563, 12578, 12582, 12592, 12595, 12598, 12601, 12608, 12613}
Probe == <<12544, 5>>

\* Mutants: blocks are read 30, or 56, registers at a time.
ChunkOf30 == 30
ChunkOf56 == 56

\* The chunk_size of read_status.
ChunkSize == 60

\* chunk_register_range: a block cut into chunks.
ChunksOf(block) ==
    [i \in 1..((block[2] - 1) \div ChunkSize + 1) |->
        LET start == block[1] + (i - 1) * ChunkSize
            left == block[2] - (i - 1) * ChunkSize
        IN <<start, IF left < ChunkSize THEN left ELSE ChunkSize>>]

\* The requests of a poll: the blocks in order, each in its chunks.
Block(i) == ChunksOf(R8KLNA_READ_BLOCKS[i])
Chunks == Block(1) \o Block(2) \o Block(3) \o Block(4) \o Block(5) \o Block(6)

\* What a poll can be answered with, and what it can make of that.
Replies == [of : Nat \X Nat, says : {"values", "bad", "blank", "implausible"}]
Registers == UNION {[S -> Replies] : S \in SUBSET DOMAIN Chunks}
Readings == [poll : Nat, registers : Registers]

ASSUME NoneAssumption == None \notin Nat /\ None \notin Readings

Holds(range, address) == range[1] <= address /\ address < range[1] + range[2]

\* Registers with a plausible range: voltages, frequency and state of charge.
Checked == {12560, 12563, 12569, 12592, 12595, 12598, 12601, 12608, 12613}

\* Values the reading adds up from several registers: grid, load, inverter and
\* home load of two legs, four PV inputs, and the battery's volts and amperes.
Sums == {{12562, 12565}, {12578, 12582}, {12690, 12693}, {12710, 12711},
         {12594, 12597, 12600, 12603}, {12608, 12609}}

\* Counters of two words, low word first.
Counters == {{a, a + 1} : a \in {12627, 12645, 12629, 12647, 12651, 12669, 12631, 12649,
                                 12653, 12671, 12655, 12673}}

\* The registers the properties name, and the chunk each is read in.
Named == CORE_TELEMETRY_ADDRESSES \union Checked \union UNION (Sums \union Counters)
IndexOf == [a \in Named |-> CHOOSE i \in DOMAIN Chunks : Holds(Chunks[i], a)]
TelemetryChunks ==
    {IndexOf[a] : a \in CORE_TELEMETRY_ADDRESSES \union Checked \union UNION Counters}
SumChunks == {{IndexOf[a] : a \in sum} : sum \in Sums \union Counters}

VARIABLES
    polls,       \* polls begun, which stands for the time of each
    phase,       \* "idle", "probe" or "ranges"
    open,        \* a port or logger connection is open
    chunk,       \* index of the chunk being read
    attempt,     \* attempts made at it
    wire,        \* replies not read yet, in order of arrival
    taken,       \* chunk index -> the reply taken for it
    errors,      \* indexes of the chunks given up
    state        \* the inverter's state, as the collector serves it

inverterVars == <<polls, phase, open, chunk, attempt, wire, taken, errors, state>>

InverterInit ==
    /\ polls = 0 /\ phase = "idle" /\ open = FALSE
    /\ chunk = 1 /\ attempt = 0 /\ wire = <<>>
    /\ taken = <<>> /\ errors = {}
    /\ state = [status |-> "pending", reading |-> None, successAt |-> None]

-----------------------------------------------------------------------------
(* One request: _read, and read_holding_registers of the logger.           *)

\* What the inverter may answer: values, or an exception or noise; where it
\* matters to the parser also registers that are all undefined, and values out
\* of any plausible range.
InverterAnswers(range) ==
    [of : {range}, says : {"values", "bad"}
        \union (IF \E a \in CORE_TELEMETRY_ADDRESSES : Holds(range, a)
                  THEN {"blank", "implausible"} ELSE {})]

\* The buffer is emptied and the request goes out.  The logger numbers its
\* frames, so what comes late through it is dropped.
Request(rest, range) ==
    \E dropped \in 0..Len(rest) :
      LET late == SubSeq(rest, dropped + 1, Len(rest)) IN
      /\ Transport = "solarman_v5" => late = <<>>
      /\ \/ wire' = late
         \/ Len(late) < MaxWire /\ \E answer \in InverterAnswers(range) : wire' = Append(late, answer)

\* Checksum, address, function and the number of registers are as expected.
Accepted(reply, range) == reply.says # "bad" /\ reply.of[2] = range[2]

-----------------------------------------------------------------------------
(* read_status and collect_register_ranges. *)

\* Each poll makes a client of its own; nothing is connected yet.
StartPoll ==
    /\ phase = "idle" /\ polls < MaxPolls
    /\ polls' = polls + 1
    /\ phase' = "probe" /\ open' = TRUE
    /\ chunk' = 1 /\ attempt' = 0 /\ taken' = <<>> /\ errors' = {}
    /\ Request(wire, Probe)
    /\ UNCHANGED state

\* Mutant: the client is closed when the poll went well.
EndPollOpen ==
    /\ phase' = "idle"
    /\ open' = (open /\ state'.status = "error")
    /\ UNCHANGED <<polls, chunk, attempt, taken, errors>>

\* The poll ends and the client is closed, whether it went well or not.
EndPoll ==
    /\ phase' = "idle"
    /\ open' = FALSE
    /\ UNCHANGED <<polls, chunk, attempt, taken, errors>>

\* Mutant: an error is dated as a success is.
KeepReadingAsNew ==
    state' = [status |-> "error", reading |-> state.reading,
              successAt |-> IF state.reading = None THEN None ELSE polls]

\* The last good reading and its time stay beside the error.
KeepReading ==
    state' = [status |-> "error", reading |-> state.reading, successAt |-> state.successAt]

\* The reading is parsed out of all registers read: one of the core registers
\* must be defined, and no checked register may be out of its range.
Parse(registers, failed) ==
    LET said(address) == IF IndexOf[address] \in DOMAIN registers
                           THEN registers[IndexOf[address]].says ELSE "blank"
    IN IF /\ \E a \in CORE_TELEMETRY_ADDRESSES : said(a) # "blank"
          /\ \A a \in Checked : said(a) # "implausible"
         THEN state' = [status |-> IF failed = {} THEN "ok" ELSE "degraded",
                        reading |-> [poll |-> polls, registers |-> registers],
                        successAt |-> polls]
         ELSE KeepReading

\* The first request is not answered, or not as it should be.
FailProbe ==
    /\ phase = "probe"
    /\ \/ UNCHANGED wire
       \/ wire # <<>> /\ ~Accepted(Head(wire), Probe) /\ wire' = Tail(wire)
    /\ KeepReading
    /\ EndPoll

\* The port cannot be opened, or the logger not reached, in mid-poll.
FailOpen ==
    /\ phase = "probe"
    /\ KeepReading /\ EndPoll /\ UNCHANGED wire

TakeProbe ==
    /\ phase = "probe" /\ wire # <<>> /\ Accepted(Head(wire), Probe)
    /\ phase' = "ranges"
    /\ Request(Tail(wire), Chunks[1])
    /\ UNCHANGED <<polls, open, chunk, attempt, taken, errors, state>>

\* The next chunk is asked for, or the registers are parsed after the last one.
Proceed(registers, failed, rest) ==
    IF chunk < Len(Chunks)
      THEN /\ chunk' = chunk + 1 /\ attempt' = 0
           /\ taken' = registers /\ errors' = failed
           /\ Request(rest, Chunks[chunk + 1])
           /\ UNCHANGED <<polls, phase, open, state>>
      ELSE /\ Parse(registers, failed)
           /\ wire' = rest
           /\ EndPoll

TakeChunk ==
    /\ phase = "ranges" /\ wire # <<>>
    /\ Accepted(Head(wire), Chunks[chunk])
    /\ Proceed([i \in DOMAIN taken \union {chunk} |->
                  IF i = chunk THEN Head(wire) ELSE taken[i]], errors, Tail(wire))

\* An attempt fails by a timeout or by the reply that came.
Attempt(rest) ==
    /\ phase = "ranges"
    /\ \/ rest = wire
       \/ wire # <<>> /\ ~Accepted(Head(wire), Chunks[chunk]) /\ rest = Tail(wire)

Retry ==
    /\ attempt < Retries
    /\ \E rest \in {wire, IF wire = <<>> THEN wire ELSE Tail(wire)} :
         Attempt(rest) /\ Request(rest, Chunks[chunk])
    /\ attempt' = attempt + 1
    /\ UNCHANGED <<polls, phase, open, chunk, taken, errors, state>>

\* Mutant: a chunk without values is left out without a word.
GiveUpSilently ==
    /\ attempt = Retries
    /\ \E rest \in {wire, IF wire = <<>> THEN wire ELSE Tail(wire)} :
         Attempt(rest) /\ Proceed(taken, errors, rest)

\* continue_on_error: the chunk is noted and the next one is read.
GiveUp ==
    /\ attempt = Retries
    /\ \E rest \in {wire, IF wire = <<>> THEN wire ELSE Tail(wire)} :
         Attempt(rest) /\ Proceed(taken, errors \union {chunk}, rest)

InverterNext == StartPoll \/ FailProbe \/ FailOpen \/ TakeProbe \/ TakeChunk \/ Retry \/ GiveUp

InverterSpec == InverterInit /\ [][InverterNext]_inverterVars

-----------------------------------------------------------------------------
(* Properties. *)

Read == state.reading.registers
Own(i) == Read[i].of = Chunks[i]

\* Besides the types: no connection outlives its poll, however the poll ends.
InverterTypeOK ==
    /\ polls \in 0..MaxPolls
    /\ phase \in {"idle", "probe", "ranges"} /\ open = (phase # "idle")
    /\ chunk \in DOMAIN Chunks /\ attempt \in 0..Retries
    /\ Len(wire) <= MaxWire
    /\ DOMAIN taken \subseteq DOMAIN Chunks /\ errors \subseteq DOMAIN Chunks
    /\ state.status \in {"pending", "ok", "degraded", "error"}

\* A reading and the time of the last success are of one poll, in whatever state
\* they are served; an inverter that is well has both of the last poll that ended
\* (docs/renogy-x-telemetry.md:344).
ReadingPairedWithSuccess ==
    /\ (state.reading = None) = (state.successAt = None)
    /\ state.reading # None => state.reading.poll = state.successAt
    /\ state.status \in {"ok", "degraded"} =>
         state.successAt = (IF phase = "idle" THEN polls ELSE polls - 1)

\* "ok" says that all ranges were read, "degraded" that one was not
\* (docs/renogy-x-telemetry.md:338).
OkMeansAllRanges ==
    state.status \in {"ok", "degraded"} =>
        (state.status = "ok") = (DOMAIN Read = DOMAIN Chunks)

\* The inverter's status tells which poll its reading is of and whether all of
\* that poll succeeded.
StatusTellsThePoll == ReadingPairedWithSuccess /\ OkMeansAllRanges

\* Grid, load, PV, battery and energy are never read out of a reply that belongs
\* to other registers: the chunks that hold them are the only ones of their size,
\* so that a late reply to another request is refused (renogy_x.py:268).
TelemetryIsOwn ==
    state.reading # None => \A i \in TelemetryChunks \cap DOMAIN Read : Own(i)

\* A sum of several registers is of all of them or missing, and the two words of
\* a counter are of one reply, although ranges may fail one by one and the
\* reading adds up whatever is present (megarevo.py:455).
SumsAreWhole ==
    state.reading # None =>
        \A sum \in SumChunks : \A i, j \in sum :
            i \in DOMAIN Read => j \in DOMAIN Read /\ Read[i] = Read[j]

=============================================================================

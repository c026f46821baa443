------------------------------ MODULE PackBus ------------------------------
(***************************************************************************)
(* The collector reading its battery packs, one after another, over one    *)
(* RS485 adapter: the battery loop of poll_once (poller.py) with the       *)
(* drivers of the two kinds of pack (pylontech.py, ecoworthy.py).          *)
(*                                                                         *)
(* A request is one step: it empties the input buffer, and the reply it    *)
(* causes, if any, may come before the timeout of the read, or after it,   *)
(* when the adapter is already waiting for another reply.  What a reply    *)
(* answers is history: the driver sees its bytes, its sender and its       *)
(* return code.                                                            *)
(***************************************************************************)
EXTENDS PylontechReplies

CONSTANTS
    Packs,          \* the packs on the adapter, in the order they are polled
    Protocol,       \* "pylontech" or "ecoworthy", of every pack
    Disabled,       \* packs switched off in the configuration
    Payloads,       \* command -> the payloads the packs may answer it with
    Unknown,        \* commands the firmware refuses
    MaxPackPolls,   \* bound: polls
    MaxBus          \* bound: replies on their way at once

ASSUME PackBusAssumption ==
    /\ Packs \in Seq(1..255) /\ IsInjective(Packs)
    /\ Protocol \in {"pylontech", "ecoworthy"}
    /\ Disabled \subseteq Range(Packs)
    /\ MaxPackPolls \in Nat /\ MaxBus \in Nat

VARIABLES
    packPolls,  \* polls begun
    turn,       \* index of the pack being read; Len(Packs) + 1 between polls
    query,      \* index of the command being waited for, 0 before the first
    bus,        \* replies not read yet, in order of arrival
    parsed,     \* this pack: command -> the reply taken for it and what it said
    states      \* pack -> the state the collector serves

packVars == <<packPolls, turn, query, bus, parsed, states>>

\* An Eco-worthy pack answers everything in one reply.
Queries == IF Protocol = "pylontech" THEN Commands ELSE <<"status">>

Pack == Packs[turn]
Command == Queries[query]
Reading == turn <= Len(Packs)

\* The state of a pack without a reading.  "at" is history: the command whose reply
\* failed, or "port" when the serial port itself raised.
Without(status, at) ==
    [status |-> status, poll |-> packPolls, at |-> at, reading |-> None, sources |-> None]

Nothing == [c \in Range(Queries) |-> None]

PackInit ==
    /\ packPolls = 0 /\ turn = Len(Packs) + 1 /\ query = 0
    /\ bus = <<>> /\ parsed = Nothing
    /\ states = [p \in Range(Packs) |-> Without("pending", None)]

\* What the packs answer, what is read out of it by the parser of each command,
\* what is kept of a reply, and the readings built of that.
Bodies == UNION {Payloads[c] : c \in Range(Queries) \ Unknown}
Meanings(command) ==
    IF Protocol = "pylontech"
      THEN {ParseReply(command, body) : body \in {b \in Bodies : Fits(command, b)}}
      ELSE Bodies
Takens(command) == [said : Meanings(command), from : Range(Packs), to : Range(Queries)]
PackReadings ==
    IF Protocol = "pylontech"
      THEN {BuildReading(said) : said \in
              [analog : Meanings("analog"), alarm : Meanings("alarm") \union {None},
               management : Meanings("management") \union {None},
               manufacturer : Meanings("manufacturer") \union {None},
               serial : Meanings("serial") \union {None}]}
      ELSE Bodies

ASSUME PayloadAssumption ==
    /\ Protocol = "pylontech" => Bodies \subseteq Seq(0..255)
    /\ None \notin PackReadings /\ \A c \in Range(Queries) : None \notin Takens(c)

-----------------------------------------------------------------------------
(* Requests and replies. *)

\* What a pack may answer: a refusal where its firmware does not know the
\* command, else a payload, or a reply damaged on the way.
PackAnswers(pack, command) ==
    [from : {pack}, to : {command}, body : {<<>>}, intact : {FALSE}, code : {0}]
      \union
    IF command \in Unknown
      THEN [from : {pack}, to : {command}, body : {<<>>}, intact : {TRUE}, code : {4}]
      ELSE [from : {pack}, to : {command}, body : Payloads[command], intact : {TRUE}, code : {0}]

\* reset_input_buffer drops what arrived meanwhile, the request goes out, and
\* the pack's answer, if it gives one, comes after what is still on its way.
Transact(rest, pack, command) ==
    \E dropped \in 0..Len(rest) :
      LET late == SubSeq(rest, dropped + 1, Len(rest)) IN
      \/ bus' = late
      \/ /\ Len(late) < MaxBus
         /\ \E answer \in PackAnswers(pack, command) : bus' = Append(late, answer)

\* Mutant: the sender of a reply is not looked at.
TrustedFromAnyone(reply) == reply.intact /\ reply.code = 0

\* The Pylontech driver checks both checksums, the sender and the return code;
\* the Eco-worthy driver the checksum, the function and the registers asked
\* for, which are the same for every pack.
Trusted(reply) ==
    /\ reply.intact
    /\ reply.code = 0
    /\ Protocol = "pylontech" => reply.from = Pack

Understood(reply) == Protocol = "pylontech" => Fits(Command, reply.body)

Meaning(reply) == IF Protocol = "pylontech" THEN ParseReply(Command, reply.body) ELSE reply.body

-----------------------------------------------------------------------------
(* The loop over the packs. *)

\* Mutant: what one pack answered is kept for the next one.
FinishKeepingReplies(state) ==
    /\ states' = [states EXCEPT ![Pack] = state]
    /\ turn' = turn + 1 /\ query' = 0 /\ parsed' = parsed

\* The pack's state is set and the next pack has its turn.
Finish(state) ==
    /\ states' = [states EXCEPT ![Pack] = state]
    /\ turn' = turn + 1 /\ query' = 0 /\ parsed' = Nothing

\* The reading once the last command is done with, and where it came from.
Complete(all) ==
    LET said == [c \in Range(Queries) |-> IF all[c] = None THEN None ELSE all[c].said]
    IN [status |-> "ok", poll |-> packPolls, at |-> None,
        reading |-> IF Protocol = "pylontech" THEN BuildReading(said) ELSE said["status"],
        sources |-> [c \in Range(Queries) |->
                       IF all[c] = None THEN None ELSE <<all[c].from, all[c].to>>]]

\* A command is done with: the next one goes out, or the reading is complete.
ProceedPack(all, rest) ==
    IF query < Len(Queries)
      THEN /\ query' = query + 1 /\ parsed' = all
           /\ Transact(rest, Pack, Queries[query + 1])
           /\ UNCHANGED <<turn, states>>
      ELSE Finish(Complete(all)) /\ bus' = rest

StartPackPoll ==
    /\ ~Reading /\ packPolls < MaxPackPolls
    /\ packPolls' = packPolls + 1 /\ turn' = 1
    /\ UNCHANGED <<query, bus, parsed, states>>

SkipDisabled ==
    /\ Reading /\ query = 0 /\ Pack \in Disabled
    /\ Finish(Without("disabled", None))
    /\ UNCHANGED <<packPolls, bus>>

\* The port is opened and the first command goes out.
OpenPort ==
    /\ Reading /\ query = 0 /\ Pack \notin Disabled
    /\ query' = 1
    /\ Transact(bus, Pack, Queries[1])
    /\ UNCHANGED <<packPolls, turn, parsed, states>>

Waiting == Reading /\ query > 0

\* The first reply to come is trusted and understood.
TakeReply ==
    /\ Waiting /\ bus # <<>>
    /\ LET reply == Head(bus) IN
        /\ Trusted(reply) /\ Understood(reply)
        /\ ProceedPack([parsed EXCEPT ![Command] = [said |-> Meaning(reply),
                                                from |-> reply.from, to |-> reply.to]],
                   Tail(bus))
    /\ UNCHANGED packPolls

\* Mutant: of the optional commands only a timeout is forgiven.
RaisesAlways(reply) == ~(Trusted(reply) /\ Understood(reply))

\* A reply that is of no use ends the read when it answers the first command.
\* Of the others it leaves the detail out, whatever is wrong with it; but
\* parse_serial_number is called without _optional, and raises when the reply
\* holds no byte.
Raises(reply) ==
    /\ ~(Trusted(reply) /\ Understood(reply))
    /\ query = 1 \/ (Command = "serial" /\ Trusted(reply))

\* An optional command times out, or its reply is of no use.
LeaveOut ==
    /\ Waiting
    /\ \/ query > 1 /\ ProceedPack(parsed, bus)
       \/ /\ bus # <<>>
          /\ LET reply == Head(bus) IN ~(Trusted(reply) /\ Understood(reply)) /\ ~Raises(reply)
          /\ ProceedPack(parsed, Tail(bus))
    /\ UNCHANGED packPolls

\* The first command times out, or a reply raises: the pack is in error.
FailPack ==
    /\ Waiting
    /\ \/ query = 1 /\ bus' = bus
       \/ bus # <<>> /\ Raises(Head(bus)) /\ bus' = Tail(bus)
    /\ Finish(Without("error", Command))
    /\ UNCHANGED packPolls

\* The port raises, while it is opened or at any request, optional or not:
\* _query_optional forgives a timeout and a reply of no use, nothing else.
PortRaises ==
    /\ Reading /\ Pack \notin Disabled
    /\ Finish(Without("error", "port"))
    /\ UNCHANGED <<packPolls, bus>>

PackNext ==
    \/ StartPackPoll \/ SkipDisabled \/ OpenPort \/ TakeReply \/ LeaveOut
    \/ FailPack \/ PortRaises

PackSpec == PackInit /\ [][PackNext]_packVars

-----------------------------------------------------------------------------
(* Properties. *)

Ok(p) == states[p].status = "ok"

PackTypeOK ==
    /\ packPolls \in 0..MaxPackPolls /\ turn \in 1..(Len(Packs) + 1)
    /\ query \in 0..Len(Queries)
    /\ Len(bus) <= MaxBus /\ \A r \in Range(bus) : r \in PackAnswers(r.from, r.to)
    /\ DOMAIN parsed = Range(Queries)
    /\ query <= 1 => parsed = Nothing
    /\ \A p \in Range(Packs) :
         /\ states[p].status \in {"pending", "ok", "error", "disabled"}
         /\ Ok(p) <=> states[p].reading # None
         /\ states[p].poll \in {packPolls, packPolls - 1}

\* What is shown as a pack's reading came from that pack: no reply of the pack
\* read before it, late on the shared adapter, is taken for its own
\* (pylontech.py:613).
ReadingIsItsPacks ==
    \A p \in Range(Packs) : Ok(p) =>
        \A c \in Range(Queries) : states[p].sources[c] # None => states[p].sources[c][1] = p

\* Voltage, current and charge are read out of an answer to the command for
\* them: a late answer to another command, which nothing in it gives away, is
\* too short for the analog parser whatever it holds (pylontech.py:265).
AnalogIsAnalog ==
    \A p \in Range(Packs) : Ok(p) /\ Protocol = "pylontech" =>
        states[p].sources["analog"][2] = "analog"

\* What the driver says of itself: a detail that a firmware leaves out does not take
\* the pack offline (pylontech.py:622).  A port that raises is no such detail.
DetailNeverCostsThePack ==
    \A p \in Range(Packs) : states[p].status = "error" => states[p].at \in {Queries[1], "port"}

\* What holds of it: of the details only the serial number, whose parser is called
\* outside _optional (pylontech.py:599), takes the pack offline, whatever reply comes
\* late, refused or garbled to the others.
OnlyTheSerialNumberCostsThePack ==
    \A p \in Range(Packs) :
        states[p].status = "error" => states[p].at \in {Queries[1], "port", "serial"}

\* The sensor a reading names as the warmest, and as the coldest, is the one
\* that measured the temperature shown beside it (pylontech.py:481).
SensorsAreNamedRight ==
    \A p \in Range(Packs) : Ok(p) /\ Protocol = "pylontech" =>
        LET r == states[p].reading IN
        r.highSensor # None =>
            /\ r.temperatures[r.highSensor] = r.highDegrees
            /\ r.temperatures[r.lowSensor] = r.lowDegrees

=============================================================================

-------------------------- MODULE PylontechReplies --------------------------
(***************************************************************************)
(* What the collector reads out of the replies of a pack that speaks the   *)
(* Pylontech protocol (pylontech.py).  A payload is a sequence of bytes;   *)
(* offsets count from 0 as in the code.  No reply says which request it    *)
(* answers: a payload is whatever the parser that gets it makes of it, or  *)
(* is refused because it is too short.                                     *)
(***************************************************************************)
EXTENDS PythonNone, Integers, Sequences, FiniteSets, SequencesExt

Commands == <<"analog", "alarm", "management", "manufacturer", "serial">>

\* A slice beyond the end would be empty, and 0 as a number; the parsers check.
U8(info, offset) == IF offset < Len(info) THEN info[offset + 1] ELSE 0
U16(info, offset) == 256 * U8(info, offset) + U8(info, offset + 1)
S16(info, offset) ==
    LET word == U16(info, offset) IN IF word >= 32768 THEN word - 65536 ELSE word

\* Every 16-bit word from one offset to another.
Words(info, from, count) == [i \in 1..count |-> U16(info, from + 2 * (i - 1))]
Bytes(info, from, count) == SubSeq(info, from + 1, from + count)

-----------------------------------------------------------------------------
(* 0x42, analog values: the cells, the temperatures, the current, the      *)
(* voltage, the remaining capacity and up to two values more.              *)

Cells(info) == U8(info, 2)
TempsAt(info) == 3 + 2 * Cells(info)
Temps(info) == U8(info, TempsAt(info))
CurrentAt(info) == TempsAt(info) + 1 + 2 * Temps(info)
UserDefined(info) == U8(info, CurrentAt(info) + 6)
AnalogEnd(info) ==
    CurrentAt(info) + 7
      + (IF UserDefined(info) >= 2 THEN 4 ELSE IF UserDefined(info) >= 1 THEN 2 ELSE 0)

\* Mutant: only the header is checked; a slice beyond the end is shorter.
AnalogFitsHeader(info) == Len(info) >= 7

AnalogFits(info) ==
    /\ Len(info) >= 3
    /\ Len(info) > TempsAt(info)
    /\ Len(info) >= CurrentAt(info) + 7
    /\ Len(info) >= AnalogEnd(info)

ParseAnalog(info) ==
    [cells |-> Words(info, 3, Cells(info)),
     temperatures |-> Words(info, TempsAt(info) + 1, Temps(info)),
     current |-> S16(info, CurrentAt(info)),
     remaining |-> U16(info, CurrentAt(info) + 4),
     full |-> IF UserDefined(info) >= 1 THEN U16(info, CurrentAt(info) + 7) ELSE None]

-----------------------------------------------------------------------------
(* 0x44, alarm info: a status per cell and per temperature, three statuses *)
(* of the pack and, in the last five bytes, the status words.              *)

StatusCodes == {0, 1, 2, 240}

AlarmTempsAt(info) == 3 + U8(info, 2)
TrailingAt(info) == AlarmTempsAt(info) + 1 + U8(info, AlarmTempsAt(info))

AlarmFits(info) ==
    /\ Len(info) >= 3
    /\ Len(info) > AlarmTempsAt(info)
    /\ Len(info) >= TrailingAt(info) + 3

\* The three statuses of the pack are the first run of three valid codes that
\* starts in the first three trailing bytes, else the first three bytes.
ItemStatuses(trailing) ==
    LET starts == {s \in 0..2 : /\ s <= Len(trailing) - 3
                                /\ \A i \in 1..3 : trailing[s + i] \in StatusCodes}
        first == IF starts = {} THEN 0 ELSE CHOOSE s \in starts : \A t \in starts : s <= t
    IN SubSeq(trailing, first + 1, first + 3)

ParseAlarm(info) ==
    LET trailing == SubSeq(info, TrailingAt(info) + 1, Len(info)) IN
    [cells |-> Bytes(info, 3, U8(info, 2)),
     temperatures |-> Bytes(info, AlarmTempsAt(info) + 1, U8(info, AlarmTempsAt(info))),
     items |-> ItemStatuses(trailing),
     words |-> IF Len(trailing) >= 5 THEN SubSeq(trailing, Len(trailing) - 4, Len(trailing))
               ELSE <<>>]

\* Which cells, temperatures and items of the pack are in alarm.  The current
\* statuses know no "below the limit".
Alarms(alarm) ==
    LET bad(codes) == {i \in DOMAIN codes : codes[i] \in StatusCodes \ {0}} IN
    [cells |-> bad(alarm.cells),
     temperatures |-> bad(alarm.temperatures),
     pack |-> {i \in bad(alarm.items) : i = 2 \/ alarm.items[i] # 1}]

Bits(word) == {b \in 0..7 : (word \div 2^b) % 2 = 1}
ProtectionBits == {0, 1, 2, 3, 5, 6, 7}

Faults(alarm) == IF alarm.words = <<>> THEN {} ELSE Bits(alarm.words[1]) \cap ProtectionBits

-----------------------------------------------------------------------------
(* 0x92, 0x51 and 0x93: limits, names and the serial number.               *)

ManagementFits(info) == Len(info) >= 10

ParseManagement(info) ==
    [chargeVoltage |-> U16(info, 1), dischargeVoltage |-> U16(info, 3),
     chargeCurrent |-> U16(info, 5), dischargeCurrent |-> U16(info, 7),
     chargeEnabled |-> 7 \in Bits(U8(info, 9)), dischargeEnabled |-> 6 \in Bits(U8(info, 9))]

ManufacturerFits(info) == Len(info) >= 12

ParseManufacturer(info) ==
    [device |-> Bytes(info, 0, 10), version |-> Bytes(info, 10, 2)]

SerialFits(info) == Len(info) >= 1

\* The text is left as its bytes.
ParseSerial(info) == Tail(info)

\* The parser of each command accepts a payload when no read goes past its end.
Fits(command, info) ==
    CASE command = "analog" -> AnalogFits(info)
      [] command = "alarm" -> AlarmFits(info)
      [] command = "management" -> ManagementFits(info)
      [] command = "manufacturer" -> ManufacturerFits(info)
      [] command = "serial" -> SerialFits(info)

ParseReply(command, info) ==
    CASE command = "analog" -> ParseAnalog(info)
      [] command = "alarm" -> ParseAlarm(info)
      [] command = "management" -> ParseManagement(info)
      [] command = "manufacturer" -> ParseManufacturer(info)
      [] command = "serial" -> ParseSerial(info)

-----------------------------------------------------------------------------
(* The reading put together from what was parsed: build_reading.           *)

\* The first of the largest and of the smallest entries, as max and min pick.
FirstMax(s) == CHOOSE i \in DOMAIN s : /\ \A j \in DOMAIN s : s[j] <= s[i]
                                       /\ \A j \in 1..(i - 1) : s[j] < s[i]
FirstMin(s) == CHOOSE i \in DOMAIN s : /\ \A j \in DOMAIN s : s[j] >= s[i]
                                       /\ \A j \in 1..(i - 1) : s[j] > s[i]

\* The first temperature is the board's when there is more than one.
CellTemps(analog) ==
    IF Len(analog.temperatures) > 1 THEN Tail(analog.temperatures) ELSE analog.temperatures

\* Mutant: the number counts within the cell sensors.
SensorOffsetOfList(analog) == 0

SensorOffset(analog) == IF Len(analog.temperatures) > 1 THEN 1 ELSE 0

Operation(current) == IF current > 1 THEN "charging"
                      ELSE IF current < -1 THEN "discharging" ELSE "idle"

\* What the alarm reply says of the switches, else what management enables.
MosfetState(alarm, management) ==
    IF alarm # None /\ alarm.words # <<>>
      THEN {s \in {"discharge", "charge", "precharge"} :
              (CASE s = "discharge" -> 1 [] s = "charge" -> 2 [] s = "precharge" -> 3)
                \in Bits(alarm.words[2])}
    ELSE IF management # None
      THEN {s \in {"charge", "discharge"} :
              IF s = "charge" THEN management.chargeEnabled ELSE management.dischargeEnabled}
    ELSE {}

BuildReading(parsed) ==
    LET analog == parsed["analog"]
        temps == CellTemps(analog)
        sensor(pick(_)) == IF temps = <<>> THEN None ELSE pick(temps) + SensorOffset(analog)
        degrees(pick(_)) == IF temps = <<>> THEN None ELSE temps[pick(temps)]
        cell(pick(_)) == IF analog.cells = <<>> THEN None ELSE pick(analog.cells)
    IN [temperatures |-> analog.temperatures,
        highCell |-> cell(FirstMax), lowCell |-> cell(FirstMin),
        highSensor |-> sensor(FirstMax), highDegrees |-> degrees(FirstMax),
        lowSensor |-> sensor(FirstMin), lowDegrees |-> degrees(FirstMin),
        operation |-> Operation(analog.current),
        soc |-> IF analog.full \in {None, 0} THEN None
                ELSE (1000 * analog.remaining) \div analog.full,
        mosfets |-> MosfetState(parsed["alarm"], parsed["management"]),
        alarms |-> IF parsed["alarm"] = None THEN None ELSE Alarms(parsed["alarm"]),
        faults |-> IF parsed["alarm"] = None THEN {} ELSE Faults(parsed["alarm"]),
        limits |-> parsed["management"], device |-> parsed["manufacturer"],
        serial |-> parsed["serial"]]

=============================================================================

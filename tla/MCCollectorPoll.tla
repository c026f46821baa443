-------------------------- MODULE MCCollectorPoll --------------------------
(***************************************************************************)
(* What poll_once of the collector reads and publishes, for TLC: packs on  *)
(* one adapter (PackBus), the inverter (InverterPoll) and the gauges       *)
(* (Metrics).  The three share nothing that the properties speak of, so a  *)
(* behaviour moves in one of them and leaves the others at the start.      *)
(*                                                                         *)
(* The first payload of each command is the one captured from the          *)
(* floor-standing unit (tests/test_pylontech.py:11); the second answer for *)
(* the serial number is a well-formed frame that carries nothing.          *)
(***************************************************************************)
EXTENDS PackBus, InverterPoll, Metrics

MCThreePacks == <<1, 2, 3>>
MCOnePack == <<1>>

Captured ==
    <<0, 2, 16, 13, 11, 13, 11, 13, 12, 13, 17, 13, 14, 13, 11, 13, 12, 13, 18, 13, 9, 13, 14,
      13, 13, 13, 18, 13, 18, 13, 13, 13, 12, 13, 12, 5, 11, 129, 11, 96, 11, 91, 11, 94, 11, 91,
      1, 130, 208, 231, 44, 97, 2, 122, 168, 0, 1>>

\* One cell and one temperature, discharging, without a full capacity.
SmallAnalog == <<0, 2, 1, 13, 11, 1, 11, 129, 254, 112, 208, 231, 44, 97, 0>>

CapturedAlarm ==
    <<0, 2, 16, 0, 0, 0, 0, 0, 0, 0, 0, 0, 0, 0, 0, 0, 0, 0, 0, 5, 0, 0, 0, 0, 0,
      0, 6, 0, 0, 0, 0, 6, 128, 0, 0>>

MCPayloads ==
    [analog |-> {Captured, SmallAnalog},
     alarm |-> {CapturedAlarm},
     management |-> {<<2, 226, 244, 175, 0, 6, 34, 7, 158, 192>>},
     manufacturer |-> {<<52, 56, 49, 48, 48, 45, 57, 53, 51, 56, 1, 0, 83, 104, 101, 110,
                         90, 104, 101, 110, 32, 80, 65, 67, 69>>},
     serial |-> {<<2, 32, 32>>, <<>>}]

VARIABLE part   \* "packs", "inverter" or "gauges"

PollInit ==
    /\ part \in {"packs", "inverter", "gauges"}
    /\ PackInit /\ InverterInit /\ MetricsInit

PollNext ==
    /\ UNCHANGED part
    /\ \/ part = "packs" /\ PackNext /\ UNCHANGED <<inverterVars, gaugeVars>>
       \/ part = "inverter" /\ InverterNext /\ UNCHANGED <<packVars, gaugeVars>>
       \/ part = "gauges" /\ MetricsNext /\ UNCHANGED <<packVars, inverterVars>>

PollSpec == PollInit /\ [][PollNext]_<<part, packVars, inverterVars, gaugeVars>>

\* The types of the three, and no connection to the inverter that outlives its poll.
PollTypeOK == PackTypeOK /\ InverterTypeOK /\ MetricsTypeOK

\* What is shown of a pack is that pack's: every answer in its reading, its
\* voltage, current and charge, and the sensor named; and no detail but the serial
\* number takes away what the pack itself has said (pylontech.py:613, 622, 599).
PacksAreShownAsTheyAre ==
    /\ ReadingIsItsPacks /\ AnalogIsAnalog /\ SensorsAreNamedRight
    /\ OnlyTheSerialNumberCostsThePack

\* The inverter's values are read out of their own registers, and sums and counters
\* out of all of theirs, whichever replies are late and ranges lost (megarevo.py:455).
RegistersAreTheirOwn == TelemetryIsOwn /\ SumsAreWhole

=============================================================================

----------------------------- MODULE MCPrograms -----------------------------
(***************************************************************************)
(* The programs that run beside collector and monitor, for TLC: the two    *)
(* commands of inverter_probe.py that read registers, map (RegisterMap)    *)
(* and snapshot with its comparison (RegisterSnapshot), and the kiosk      *)
(* supervisor (Kiosk).  They share nothing, so a behaviour is of one of    *)
(* them and the variables of the others stay as they are.                  *)
(***************************************************************************)
EXTENDS RegisterMap, RegisterSnapshot, Kiosk

MCNested == <<<<0, 6>>, <<3, 6>>>>

\* Seven registers in three chunks that are all refused whole: one register that does
\* not answer between two that do, which costs two splits; the edge of two pages, with
\* the setting on it, which costs the third; and two that no split is left for, unless
\* one of the others was lost.
MCRanges == <<<<0, 2>>, <<3, 4>>, <<5, 6>>>>
MCPage == [a \in 0..6 |-> CASE a \in {1, 6} -> 0 [] a \in {4, 5} -> 2 [] OTHER -> 1]
MCTelemetry == {1, 2, 5, 6}

VARIABLE program   \* "map", "snapshot" or "kiosk"

programVars == <<program, mapVars, snapshotVars, kioskVars>>

\* What is not read by the program of a behaviour has one value.
ProgramInit ==
    /\ program \in {"map", "snapshot", "kiosk"}
    /\ program # "map" => page = [a \in Address |-> NoPage]
    /\ program # "snapshot" => device = [a \in SampledAddress \ Telemetry |-> 0]
    /\ program # "kiosk" => refresh = 0 /\ monitorUp = TRUE
    /\ MapInit /\ SnapshotInit /\ KioskInit

RunMap == program = "map" /\ MapNext /\ UNCHANGED <<program, snapshotVars, kioskVars>>
RunSnapshot == program = "snapshot" /\ SnapshotNext /\ UNCHANGED <<program, mapVars, kioskVars>>
RunKiosk(step) == program = "kiosk" /\ step /\ UNCHANGED <<program, mapVars, snapshotVars>>

ProgramNext == RunMap \/ RunSnapshot \/ RunKiosk(KioskNext)

\* A sweep goes on while it can, the supervisor's loop goes round.
ProgramSpec ==
    /\ ProgramInit /\ [][ProgramNext]_programVars
    /\ WF_programVars(RunMap) /\ WF_programVars(RunKiosk(Round))

\* The types of all programs' state.
ProgramTypeOK == MapTypeOK /\ SnapshotTypeOK /\ KioskTypeOK

\* A sweep ends, whatever the link does (register_discovery.py:303).
MapEnds == program = "map" => SweepEnds

\* The screen follows the monitor in the end (kiosk.py:195).
KioskFollowsMonitor == program = "kiosk" => ScreenFollowsMonitor

\* The map says what was read, and of everything that was found
\* (register_discovery.py:278).
MapIsTrueAndComplete == ReadableIsProven /\ BlocksAreAccountedFor

\* A snapshot drops no register, hides none behind a refused one, and two of them
\* show the setting that was changed between (register_discovery.py:89, 526).
SnapshotsFindTheSetting == EveryRegisterAccounted /\ RefusalHidesNoNeighbour /\ SettingIsFound

=============================================================================

------------------------------ MODULE Metrics ------------------------------
(***************************************************************************)
(* The Prometheus gauges of the collector (MetricsPublisher): what         *)
(* /metrics shows between polls.  Each gauge keeps its value until it is   *)
(* set again.  One pack and one inverter; of their many gauges those that  *)
(* a reading always sets, those it sets when it has a value, and those     *)
(* that are numbered.                                                      *)
(***************************************************************************)
EXTENDS PythonNone, Integers, Sequences

CONSTANTS
    MaxPower,    \* grid power lies in -MaxPower..MaxPower
    MaxCells,    \* cells a pack reports
    MaxRanges    \* optional ranges of the inverter

ASSUME MetricsAssumption == MaxPower \in Nat /\ MaxCells \in Nat /\ MaxRanges \in Nat
ASSUME GaugeAssumption == None \notin Int

VARIABLES
    pack,        \* the pack's gauges
    inverter     \* the inverter's gauges

gaugeVars == <<pack, inverter>>

Powers == -MaxPower..MaxPower

MetricsInit ==
    /\ pack = [success |-> None, soc |-> None, alarms |-> None,
               cells |-> [i \in 1..MaxCells |-> None]]
    /\ inverter = [success |-> None, readErrors |-> None, grid |-> None,
                   gridImport |-> None, gridExport |-> None, home |-> None]

\* Mutant: a zero is taken for no value.
SetIfTruthy(gauge, value) == IF value \in {None, 0} THEN gauge ELSE value

SetIfPresent(gauge, value) == IF value = None THEN gauge ELSE value

\* record_reading: cells the reading lacks keep their gauges.
RecordReading(soc, alarms, cells) ==
    /\ pack' = [success |-> 1, soc |-> SetIfPresent(pack.soc, soc), alarms |-> alarms,
                cells |-> [i \in 1..MaxCells |->
                    IF i \in DOMAIN cells THEN cells[i] ELSE pack.cells[i]]]
    /\ UNCHANGED inverter

RecordError == pack' = [pack EXCEPT !.success = 0] /\ UNCHANGED inverter

\* Mutant: the other direction is not cut off.
Signed(power) == power

\* What is imported or exported, as the driver derives it from the grid power.
Positive(power) == IF power = None THEN None ELSE IF power > 0 THEN power ELSE 0
Negated(power) == IF power = None THEN None ELSE -power

RecordInverterReading(grid, home, failed) ==
    /\ inverter' = [
         success |-> 1, readErrors |-> failed,
         grid |-> SetIfPresent(inverter.grid, grid),
         gridImport |-> SetIfPresent(inverter.gridImport, Positive(Negated(grid))),
         gridExport |-> SetIfPresent(inverter.gridExport, Positive(grid)),
         home |-> SetIfPresent(inverter.home, home)]
    /\ UNCHANGED pack

\* The number of failed ranges stays that of the last poll that succeeded.
RecordInverterError == inverter' = [inverter EXCEPT !.success = 0] /\ UNCHANGED pack

MetricsNext ==
    \/ \E soc \in {None, 0, 1}, alarms \in 0..1, cells \in UNION {[1..n -> {0, 1}] : n \in 1..MaxCells} :
         RecordReading(soc, alarms, cells)
    \/ RecordError
    \/ \E grid, home \in Powers \cup {None}, failed \in 0..MaxRanges :
         RecordInverterReading(grid, home, failed)
    \/ RecordInverterError

MetricsSpec == MetricsInit /\ [][MetricsNext]_gaugeVars

-----------------------------------------------------------------------------
(* Properties. *)

MetricsTypeOK ==
    /\ pack.success \in {0, 1, None} /\ pack.soc \in {0, 1, None} /\ pack.alarms \in {0, 1, None}
    /\ inverter.success \in {0, 1, None} /\ inverter.readErrors \in 0..MaxRanges \cup {None}
    /\ inverter.home \in Powers \cup {None}
    /\ inverter.grid \in Powers \cup {None}
    /\ {inverter.gridImport, inverter.gridExport} \subseteq 0..MaxPower \cup {None}

\* The three grid gauges are of one reading, whatever later readings lack: a graph
\* of imports and exports agrees with that of the signed power (metrics.py:209).
GridGaugesAgree ==
    IF inverter.grid = None THEN inverter.gridImport = None /\ inverter.gridExport = None
    ELSE /\ None \notin {inverter.gridExport, inverter.gridImport}
         /\ inverter.gridExport - inverter.gridImport = inverter.grid
         /\ 0 \in {inverter.gridExport, inverter.gridImport}

=============================================================================

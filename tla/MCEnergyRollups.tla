--------------------------- MODULE MCEnergyRollups ---------------------------
(***************************************************************************)
(* Instances of EnergyRollups for TLC.                                     *)
(***************************************************************************)
EXTENDS EnergyRollups

\* Thursday and a Friday that is a holiday, 2026-07-02 and 03.
MCFirstDay == Ordinal(2026, 7, 2)

\* A counter that rises, dips without restarting, restarts, or is not read, with
\* solar power of three strengths; the evening's reading is high or missing.
MCReadings == {[meter |-> Missing, power |-> 2], [meter |-> 10, power |-> Missing],
               [meter |-> 7, power |-> 1], [meter |-> 2, power |-> 2]}
MCSamples == {s \in [Times -> MCReadings] : s[22].meter \in {Missing, 10}}

=============================================================================

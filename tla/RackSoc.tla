------------------------------ MODULE RackSoc ------------------------------
(***************************************************************************)
(* The rack's state of charge, computed twice by the monitor: live, from   *)
(* the last readings (rack_state_of_charge), and in the power history,     *)
(* from the archived readings of a time bucket (RetentionStore             *)
(* .power_history).  A figure is a fraction <<numerator, denominator>>, in *)
(* percent.                                                                *)
(***************************************************************************)
EXTENDS PythonNone, Integers, Sequences, FiniteSets, SequencesExt, FiniteSetsExt

CONSTANTS
    Packs,
    Readings,     \* what a pack may report: [soc, remaining, full, rated]
    MaxSamples    \* bound: readings of a pack in a bucket, at most 3

ASSUME RackSocAssumption ==
    /\ None \notin Int /\ IsFiniteSet(Packs) /\ MaxSamples \in 1..3
    /\ LET amount == Nat \cup {None}
           report == [soc : amount, remaining : amount, full : amount, rated : amount]
       IN Readings \subseteq report /\ None \notin report

VARIABLES
    latest,    \* pack -> the reading in the live snapshot, None for a pack in error
    bucket     \* pack -> its readings archived in the bucket, in order

rackVars == <<latest, bucket>>

RackInit ==
    /\ latest = [p \in Packs |-> None]
    /\ bucket = [p \in Packs |-> <<>>]

ReadPack ==
    \E p \in Packs, r \in Readings :
        /\ Len(bucket[p]) < MaxSamples
        /\ latest' = [latest EXCEPT ![p] = r]
        /\ bucket' = [bucket EXCEPT ![p] = Append(@, r)]

\* A pack in error has no reading; its row says so and is in no average.
FailPack ==
    \E p \in Packs :
        /\ latest' = [latest EXCEPT ![p] = None]
        /\ UNCHANGED bucket

NextBucket ==
    /\ bucket' = [p \in Packs |-> <<>>]
    /\ UNCHANGED latest

RackNext == ReadPack \/ FailPack \/ NextBucket

RackSpec == RackInit /\ [][RackNext]_rackVars

-----------------------------------------------------------------------------
(* The live figure: rack_state_of_charge, over readings by pack. *)

SumOver(S, f(_)) == MapThenSumSet(f, S)
Positive(x) == x # None /\ x > 0
NotNegative(x) == x # None /\ x >= 0

\* The packs that report a state of charge.
WithSoc(readings) == {p \in Packs : readings[p] # None /\ readings[p].soc # None}

\* Mutant: the rating is taken where a worn pack reports less.
FullOfNew(r) == IF Positive(r.rated) THEN r.rated ELSE r.full

\* Full-charge ampere-hours, or rated ones where a pack does not know them.
FullOf(r) == IF Positive(r.full) THEN r.full ELSE r.rated

\* Mutant: no ampere-hours at all are a capacity too.
HasAnyCapacity(r) == NotNegative(r.remaining) /\ NotNegative(FullOf(r))

HasCapacity(r) == NotNegative(r.remaining) /\ Positive(FullOf(r))

\* Mutant: packs without a state of charge weigh too.
CapacityOfAll(readings) ==
    LET packs == {p \in Packs : readings[p] # None /\ HasCapacity(readings[p])}
    IN <<100 * SumOver(packs, LAMBDA p : readings[p].remaining),
         SumOver(packs, LAMBDA p : FullOf(readings[p]))>>

Capacity(readings) ==
    LET packs == {p \in WithSoc(readings) : HasCapacity(readings[p])}
    IN <<100 * SumOver(packs, LAMBDA p : readings[p].remaining),
         SumOver(packs, LAMBDA p : FullOf(readings[p]))>>

Mean(readings) ==
    <<SumOver(WithSoc(readings), LAMBDA p : readings[p].soc), Cardinality(WithSoc(readings))>>

\* Mutant: the packs that report their capacity are weighed, the others left out.
WeighableWhenAny(readings) == \E p \in WithSoc(readings) : HasCapacity(readings[p])

Weighable(readings) == \A p \in WithSoc(readings) : HasCapacity(readings[p])

RackStateOfCharge(readings) ==
    IF WithSoc(readings) = {} THEN None
    ELSE IF Weighable(readings) THEN Capacity(readings)
    ELSE Mean(readings)

-----------------------------------------------------------------------------
(* The archived figure: battery_by_pack and battery_by_bucket. *)

Valid(r) == r.soc # None /\ r.soc \in 0..100
Weighed(r) == Valid(r) /\ NotNegative(r.remaining) /\ Positive(r.full)

\* An average over 1, 2 or 3 readings, six times its value.
Average(rows, field) ==
    (6 * SumOver(DOMAIN rows, LAMBDA i : rows[i][field])) \div Cardinality(DOMAIN rows)

\* Mutant: readings without a capacity count as readings of no charge.
RowsWithUnknownAsZero(p) ==
    LET known(r) == IF NotNegative(r.remaining) /\ Positive(r.full) THEN r
                    ELSE [r EXCEPT !.remaining = 0, !.full = 30]
        rows == RestrictValues(bucket[p], Valid)
    IN [i \in DOMAIN rows |-> known(rows[i])]

\* The readings of a pack that say how much it holds of how much, by their place.
CapacityRows(p) == RestrictValues(bucket[p], Weighed)

SocRows(p) == RestrictValues(bucket[p], Valid)

BucketSoc ==
    LET packs == {p \in Packs : DOMAIN SocRows(p) # {}}
        weighed == {p \in packs : DOMAIN CapacityRows(p) # {}}
    IN IF packs = {} THEN None
       ELSE IF weighed = packs
         THEN <<100 * SumOver(packs, LAMBDA p : Average(CapacityRows(p), "remaining")),
                SumOver(packs, LAMBDA p : Average(CapacityRows(p), "full"))>>
       ELSE <<SumOver(packs, LAMBDA p : Average(SocRows(p), "soc")),
              6 * Cardinality(packs)>>

-----------------------------------------------------------------------------
(* Properties. *)

AtMost(x, y) == x[1] * y[2] <= y[1] * x[2]

RackTypeOK ==
    /\ latest \in [Packs -> Readings \union {None}]
    /\ \A p \in Packs : Len(bucket[p]) <= MaxSamples /\ Range(bucket[p]) \subseteq Readings
    /\ RackStateOfCharge(latest) # None => RackStateOfCharge(latest)[2] > 0
    /\ BucketSoc # None => BucketSoc[2] > 0

\* A rack is never fuller than its fullest pack nor emptier than its emptiest, live
\* and in the history, whichever packs know their capacity or their rating only, and
\* however the readings of a bucket differ (README.md:142).  Packs whose state of
\* charge is not what they hold of their capacity may break it.
NoFullerThanItsPacks ==
    LET live == WithSoc(latest)
        archived == UNION {Range(SocRows(p)) : p \in Packs}
    IN /\ live # {} =>
            /\ \E p \in live : AtMost(<<latest[p].soc, 1>>, RackStateOfCharge(latest))
            /\ \E p \in live : AtMost(RackStateOfCharge(latest), <<latest[p].soc, 1>>)
       /\ archived # {} =>
            /\ \E r \in archived : AtMost(<<r.soc, 1>>, BucketSoc)
            /\ \E r \in archived : AtMost(BucketSoc, <<r.soc, 1>>)

\* Each pack that reports a state of charge moves the rack's: filling it up
\* raises the figure, also when another pack does not know its capacity
\* (rack_state.py:4).
EveryPackMovesTheRack ==
    \A p \in WithSoc(latest) : latest[p].soc < 100 =>
        LET filled == [latest EXCEPT ![p].soc = 100,
                                     ![p].remaining = IF @ = None THEN None ELSE FullOf(latest[p])]
        IN ~AtMost(RackStateOfCharge(filled), RackStateOfCharge(latest))

\* A pack without a state of charge moves nothing.
SilentPackMovesNothing ==
    LET heard == [p \in Packs |-> IF p \in WithSoc(latest) THEN latest[p] ELSE None]
    IN RackStateOfCharge(latest) = RackStateOfCharge(heard)

=============================================================================

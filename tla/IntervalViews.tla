--------------------------- MODULE IntervalViews ---------------------------
(***************************************************************************)
(* The Date and the Hour view of the energy history: the bars              *)
(* RetentionStore._energy_interval_history makes out of the readings of    *)
(* one daily counter of one inverter.  What the house used, slot by slot,  *)
(* is history; the store sees the readings only.  The Hour view's buckets  *)
(* are one slot long, those of the Date view several.                      *)
(***************************************************************************)
EXTENDS PythonNone, Integers, Sequences, FiniteSets, FiniteSetsExt

CONSTANTS
    Horizon,        \* bound: slots
    WindowStart,    \* the selected day: its first slot
    WindowEnd,      \* and the one after its last
    PerHour,        \* slots of a bucket of the Date view
    Rolling,        \* slots of the Hour view
    SeedReach,      \* slots before a window that are searched for its seed
    StartsAt,       \* what the counter reads at the beginning
    ResetSlots,     \* slots at whose beginning the inverter may have its midnight
    MayMiss         \* a slot may have no reading, or one without the counter

ASSUME IntervalViewsAssumption ==
    /\ Horizon \in Nat /\ PerHour \in Nat \ {0} /\ Rolling \in Nat
    /\ WindowStart \in Nat /\ WindowEnd \in Nat
    /\ SeedReach \in Nat /\ SeedReach >= PerHour
    /\ StartsAt \in Nat /\ ResetSlots \subseteq Nat
    /\ MayMiss \in BOOLEAN

VARIABLES
    now,      \* slots that have passed
    midnight, \* the slot at whose beginning the counter restarts
    meter,    \* the inverter's counter
    used,     \* history: slot -> energy used in it
    reads     \* slot -> the counter as stored, None for a reading without it

viewVars == <<now, midnight, meter, used, reads>>

ViewsInit ==
    /\ now = 0 /\ meter = StartsAt /\ midnight \in ResetSlots
    /\ used = <<>> /\ reads = <<>>

Extend(f, x, v) == [y \in DOMAIN f \union {x} |-> IF y = x THEN v ELSE f[y]]

\* The counter restarts at the inverter's midnight and counts what is used.
Counts(e) == (IF now = midnight THEN 0 ELSE meter) + e

\* A slot passes and its reading, if there is one, is stored.
Read ==
    /\ now < Horizon
    /\ \E e \in {0, 1} :
        /\ now' = now + 1
        /\ meter' = Counts(e)
        /\ used' = Extend(used, now, e)
        /\ \/ reads' = Extend(reads, now, Counts(e))
           \/ MayMiss /\ reads' = reads
           \/ MayMiss /\ reads' = Extend(reads, now, None)
    /\ UNCHANGED midnight

ViewsNext == Read

ViewsSpec == ViewsInit /\ [][ViewsNext]_viewVars

-----------------------------------------------------------------------------
(* A view: [start, end) in slots and the width of its buckets. *)

DateView == [start |-> WindowStart, end |-> WindowEnd, width |-> PerHour, first |-> TRUE]
HourView == [start |-> now - Rolling, end |-> now, width |-> 1, first |-> FALSE]

\* Mutant: the division is not cut to whole buckets.
BucketUncut(v, slot) == slot

\* A bucket is named by its first slot.
Bucket(v, slot) == v.start + ((slot - v.start) \div v.width) * v.width

Within(v) == {s \in DOMAIN reads : v.start <= s /\ s < v.end}

\* Mutant: no reading from before the window is looked at.
WithoutSeed(v) == {}

\* The last reading before the window, wherever it is within reach.
Seed(v) ==
    LET before == {s \in DOMAIN reads : v.start - SeedReach <= s /\ s < v.start}
    IN IF before = {} THEN {} ELSE {Max(before)}

\* The intervals: of each bucket its last reading, and the seed as a bucket
\* before the first.
Intervals(v) ==
    LET buckets == {Bucket(v, s) : s \in Within(v)}
        seeds == Seed(v)
        of(b) == IF b < v.start THEN Max(seeds)
                 ELSE Max({s \in Within(v) : Bucket(v, s) = b})
    IN [b \in buckets \union (IF seeds = {} THEN {} ELSE {v.start - v.width}) |->
          reads[of(b)]]

\* Mutant: the interval before is taken whatever lies between.
MeasuredAcrossGaps(v, intervals, b) ==
    LET earlier == {c \in DOMAIN intervals : c < b} IN
    IF earlier = {} THEN (IF v.first /\ b < v.start + v.width THEN intervals[b] ELSE None)
    ELSE LET prev == Max(earlier) IN
      IF intervals[b] = None \/ intervals[prev] = None THEN None
      ELSE IF intervals[b] < intervals[prev] THEN intervals[b]
      ELSE intervals[b] - intervals[prev]

\* _interval_energy_expression.  A bucket without another one right before it
\* is not measured; the first of the Date view shows its counter.
Measured(v, intervals, b) ==
    LET earlier == {c \in DOMAIN intervals : c < b} IN
    IF earlier = {} THEN (IF v.first /\ b < v.start + v.width THEN intervals[b] ELSE None)
    ELSE LET prev == Max(earlier) IN
      IF b - prev # v.width \/ intervals[b] = None \/ intervals[prev] = None THEN None
      ELSE IF intervals[b] < intervals[prev] THEN intervals[b]
      ELSE intervals[b] - intervals[prev]

\* The bars of a view, bucket by bucket, and their sum.
Points(v) ==
    LET intervals == Intervals(v)
        bars == [b \in {b \in DOMAIN intervals : b >= v.start} |-> Measured(v, intervals, b)]
    IN [b \in {b \in DOMAIN bars : bars[b] # None} |-> bars[b]]

Total(v) ==
    LET points == Points(v)
    IN IF DOMAIN points = {} THEN None ELSE MapThenSumSet(LAMBDA b : points[b], DOMAIN points)

-----------------------------------------------------------------------------
(* Properties. *)

Used(from, to) == MapThenSumSet(LAMBDA s : used[s], {s \in DOMAIN used : from <= s /\ s < to})

Views == {DateView, HourView}

\* Besides the types: a reading never shows more than the counter did, and the
\* bars of a view are whole buckets from its start.
ViewsTypeOK ==
    /\ now \in 0..Horizon /\ midnight \in ResetSlots
    /\ DOMAIN used = 0..(now - 1) /\ DOMAIN reads \subseteq DOMAIN used
    /\ \A s \in DOMAIN reads : reads[s] # None => reads[s] \in 0..(StartsAt + Used(0, s + 1))
    /\ \A v \in Views : \A b \in DOMAIN Points(v) :
         v.start <= b /\ b < v.end /\ (b - v.start) % v.width = 0

\* A bar shows energy of its own bucket and of the one before it, never of
\* hours without readings and never a counter's whole day, wherever the
\* counter restarts (storage.py:1963).  The first bar may show more when its seed
\* is older than the bucket before it.
NoBarTooHigh ==
    \A v \in Views : \A b \in DOMAIN Points(v) :
        \/ Points(v)[b] <= Used(b - v.width, b + v.width)
        \/ b = v.start /\ \A s \in (v.start - v.width)..(v.start - 1) : s \notin DOMAIN reads

\* Each slot from the last one before a window up to the last reading was read.
ReadThroughout(v) ==
    /\ v.start > 0 /\ Within(v) # {}
    /\ \A s \in (v.start - 1)..(Max(Within(v))) : s \in DOMAIN reads /\ reads[s] # None

\* The bars of a window that was read throughout add up to what was used in it,
\* when the counter restarts between two buckets or not at all (storage.py:1939).
WholeHoursAddUp ==
    \A v \in Views :
        ReadThroughout(v) /\ (midnight - v.start) % v.width = 0
          => Total(v) = Used(v.start, Max(Within(v)) + 1)

=============================================================================

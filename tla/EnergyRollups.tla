---------------------------- MODULE EnergyRollups ----------------------------
(***************************************************************************)
(* The tables the monitor's store derives from the inverter's readings:    *)
(* the time-of-use split of each tariff-local day (tou_energy), the day's  *)
(* strongest solar reading (solar_peaks) and the day's highest counter     *)
(* (daily_energy, by UTC day), as inserts, retention, purges and the two   *)
(* backfills maintain them.                                                *)
(*                                                                         *)
(* A time is in hours since the tariff-local midnight of day 0; no clock   *)
(* change falls into the span.  A sample is an inverter reading, named by  *)
(* its time.  The three counters of a reading go through the same code and *)
(* are one counter here, and there is one inverter.                        *)
(***************************************************************************)
EXTENDS Tariff, FiniteSetsExt, Functions

CONSTANTS
    Times,       \* the times at which a reading is sampled
    Samples,     \* what may be read at these times: meter and solar power
    Cutoffs,     \* the times before which retention may delete
    PageSize,    \* bound: snapshots inserted by one call
    FirstDay,    \* ordinal of day 0
    Year,        \* the calendar year of the days modelled
    UtcShift     \* hours the tariff's clock is behind UTC

\* A column that is NULL.
Missing == -1

\* An archive has finitely many readings.
ASSUME TimesAssumption  == Times \subseteq Nat /\ IsFiniteSet(Times) /\ Cutoffs \subseteq Nat
ASSUME SamplesAssumption ==
    Samples \subseteq [Times -> [meter : Nat \cup {Missing}, power : Nat \cup {Missing}]]
ASSUME ClockAssumption  == FirstDay \in Nat /\ Year \in Nat \ {0}
                           /\ UtcShift \in 0..23 /\ PageSize \in Nat \ {0}

VARIABLES
    sample,    \* what is read at each time; never changes
    rows,      \* inverter_readings: the times of the rows
    tou,       \* tou_energy: day -> kWh per period
    peaks,     \* solar_peaks: day -> the time of its strongest reading
    daily,     \* daily_energy: UTC day -> [at, kwh]
    pending,   \* history: rows of a failed insert that was not repeated
    partial    \* history: days with readings no peak row was built from

vars == <<sample, rows, tou, peaks, daily, pending, partial>>

Day(t) == t \div 24
UtcDay(t) == (t + UtcShift) \div 24
Hour(t) == t % 24
Days == {Day(t) : t \in Times}

Rated(t) == sample[t].meter # Missing
Lit(t) == sample[t].power >= 0

InDay(R, d) == {t \in R : Day(t) = d}
RowDays(R) == {Day(t) : t \in R}

\* Fold over readings in the order of their times.
FoldTimes(op(_, _), base, R) ==
    MapThenFoldSet(LAMBDA t, acc : op(acc, t), base, LAMBDA t : t, Max, R)

-----------------------------------------------------------------------------
(* Time-of-use split of a day.                                             *)

IsCounterReset(previous, meter) == 2 * meter < previous

CounterRise(previous, meter) ==
    IF previous = Missing \/ IsCounterReset(previous, meter) THEN meter
    ELSE IF meter < previous THEN 0 ELSE meter - previous

NoEnergy == [p \in TOU_PERIODS |-> 0]

Period == [t \in Times |-> PeriodFor(FirstDay + Day(t), Year, Hour(t))]

\* Faulty: a glitch is measured against as well.
BaselineAlways(previous, meter) == meter

\* What the next reading is measured against: a glitch is not.
Baseline(previous, meter) ==
    IF \/ previous = Missing
       \/ meter >= previous
       \/ IsCounterReset(previous, meter)
    THEN meter
    ELSE previous

\* One reading of a day: its rise goes to the period it falls in.
Credit(acc, t) ==
    LET meter == sample[t].meter
    IN  IF ~Rated(t) THEN acc
        ELSE [last |-> Baseline(acc.last, meter),
              split |-> [acc.split EXCEPT ![Period[t]] =
                            @ + CounterRise(acc.last, meter)]]

\* The split of the readings R of one day, measured against a seed.
Split(R, seed) ==
    FoldTimes(Credit, [last |-> seed, split |-> NoEnergy], R).split

Lookback(R, d) == {t \in R : 24 * d - 6 <= t /\ t < 24 * d}

\* The counter of the last row within six hours before the day, NULL included.
Seed(R, d) ==
    IF Lookback(R, d) = {} THEN Missing ELSE sample[Max(Lookback(R, d))].meter

\* Each of the days is deleted and, if it has readings, rebuilt from them.
RecomputeTou(f, days, R) ==
    [d \in (DOMAIN f \ days) \cup (days \cap RowDays(R)) |->
        IF d \in days THEN Split(InDay(R, d), Seed(R, d)) ELSE f[d]]

-----------------------------------------------------------------------------
(* Solar peaks and daily counters.                                         *)

\* A table with the row of a key written, and without the rows of some keys.
With(f, key, row) == [x \in DOMAIN f \cup {key} |-> IF x = key THEN row ELSE f[x]]
Without(f, S) == [x \in DOMAIN f \ S |-> f[x]]

\* Faulty: the last reading wins.
RaisePeakLast(f, t) == IF Lit(t) THEN With(f, Day(t), t) ELSE f

\* A stronger reading replaces the day's record, an equal one does not.
RaisePeak(f, t) ==
    IF /\ Lit(t)
       /\ Day(t) \in DOMAIN f => sample[t].power > sample[f[Day(t)]].power
    THEN With(f, Day(t), t)
    ELSE f

\* The strongest reading of R, the earliest of equals.
Strongest(R) ==
    CHOOSE t \in R : \A u \in R :
        \/ sample[u].power < sample[t].power
        \/ sample[u].power = sample[t].power /\ t <= u

RaiseDaily(f, t) ==
    LET d == UtcDay(t)
        new == [at |-> t, kwh |-> sample[t].meter]
        Larger(x, y) == IF x < y THEN y ELSE x
    IN  IF ~Rated(t) THEN f
        ELSE IF d \notin DOMAIN f THEN With(f, d, new)
        ELSE [f EXCEPT ![d] = [at |-> Larger(@.at, new.at),
                               kwh |-> Larger(@.kwh, new.kwh)]]

-----------------------------------------------------------------------------
(* The operations of the store; each holds its lock throughout.            *)

Empty == [d \in {} |-> 0]

\* What initialize() leaves of an archive an earlier version wrote: its rows and
\* daily counters, peaks unless it had no such table, and no roll-up.
Init ==
    /\ sample \in Samples
    /\ rows \in SUBSET Times
    /\ tou = Empty
    /\ daily = FoldTimes(RaiseDaily, Empty, rows)
    /\ \/ peaks = FoldTimes(RaisePeak, Empty, rows) /\ partial = {}
       \/ peaks = Empty /\ partial = RowDays({t \in rows : Lit(t)})
    /\ pending = {}

\* The days whose roll-up an insert rebuilds.
TouDaysFor(S) == {Day(t) : t \in {u \in S : Rated(u)}}

\* insert_snapshot(s): a live reading or a replayed page, in the order sampled.
InsertSnapshots(S) ==
    /\ rows' = rows \cup S
    /\ peaks' = FoldTimes(RaisePeak, peaks, S)
    /\ daily' = FoldTimes(RaiseDaily, daily, S)
    /\ tou' = RecomputeTou(tou, TouDaysFor(S), rows')
    /\ pending' = pending \ S
    /\ UNCHANGED <<sample, partial>>

\* The call raises after the samples S, the last of them perhaps only as far as its
\* row; what it did is in the transaction the next successful call commits.
InsertFails(S, torn) ==
    LET done == IF torn THEN S \ {Max(S)} ELSE S
    IN  /\ rows' = rows \cup S
        /\ peaks' = FoldTimes(RaisePeak, peaks, done)
        /\ daily' = FoldTimes(RaiseDaily, daily, done)
        /\ pending' = pending \cup (S \ rows)
        /\ UNCHANGED <<sample, tou, partial>>

\* The call raises in the roll-up of day d: earlier days are rebuilt, that one is
\* as it was or already deleted.
RollupFails(S, d, deleted) ==
    LET earlier == {x \in TouDaysFor(S) : x < d}
    IN  /\ rows' = rows \cup S
        /\ peaks' = FoldTimes(RaisePeak, peaks, S)
        /\ daily' = FoldTimes(RaiseDaily, daily, S)
        /\ tou' = Without(RecomputeTou(tou, earlier, rows'), deleted)
        /\ pending' = pending \cup (S \ rows)
        /\ UNCHANGED <<sample, partial>>

\* Faulty: a day keeps its roll-up as long as one of its readings is kept.
RolledBeforeEntirely(cutoff) ==
    {d \in DOMAIN tou : \A t \in InDay(rows, d) : t < cutoff}

\* Roll-ups of the days that begin before the cutoff.
RolledBefore(cutoff) == {d \in DOMAIN tou : 24 * d < cutoff}

\* Faulty: the counters of the day of the cutoff go as well.
CountedUntil(cutoff) == 0..UtcDay(cutoff)

\* The UTC days before that of the cutoff.
CountedBefore(cutoff) == 0..UtcDay(cutoff) - 1

\* prune_older_than_days: each table by its own time.
PruneOlder(cutoff) ==
    LET gone == {d \in DOMAIN peaks : peaks[d] < cutoff}
        left == {t \in rows : t >= cutoff}
    IN  /\ rows' = left
        /\ daily' = Without(daily, CountedBefore(cutoff))
        /\ tou' = Without(tou, RolledBefore(cutoff))
        /\ peaks' = Without(peaks, gone)
        /\ pending' = pending \cap left
        /\ partial' = (partial \cup gone) \cap RowDays({t \in left : Lit(t)})
        /\ UNCHANGED sample

\* Faulty: the roll-ups are taken for metadata and survive.
PurgeReadings ==
    /\ rows' = {} /\ peaks' = Empty /\ daily' = Empty
    /\ pending' = {} /\ partial' = {}
    /\ UNCHANGED <<sample, tou>>

\* POST /api/admin/reset.
PurgeAll ==
    /\ rows' = {} /\ tou' = Empty /\ peaks' = Empty /\ daily' = Empty
    /\ pending' = {} /\ partial' = {}
    /\ UNCHANGED sample

UnrolledDays == RowDays(rows) \ DOMAIN tou

\* Faulty: a day without any counter gets no roll-up, and comes up again.
BackfillTouRated ==
    /\ UnrolledDays # {}
    /\ UNCHANGED <<sample, rows, peaks, daily, pending, partial>>
    /\ LET day == Max(UnrolledDays)
       IN  tou' = RecomputeTou(tou, {day} \cap RowDays({t \in rows : Rated(t)}), rows)

\* backfill_tou_energy, one day: the newest day with rows and no roll-up.
BackfillTou ==
    /\ UnrolledDays # {}
    /\ UNCHANGED <<sample, rows, peaks, daily, pending, partial>>
    /\ tou' = RecomputeTou(tou, {Max(UnrolledDays)}, rows)

DaysWithoutPeak == RowDays({t \in rows : Lit(t)}) \ DOMAIN peaks

\* backfill_solar_peaks, one day.
BackfillPeaks ==
    /\ DaysWithoutPeak # {}
    /\ UNCHANGED <<sample, rows, tou, daily, pending>>
    /\ LET day == Max(DaysWithoutPeak)
       IN  /\ peaks' = With(peaks, day, Strongest({t \in InDay(rows, day) : Lit(t)}))
           /\ partial' = partial \ {day}

Pages == {S \in SUBSET Times : Cardinality(S) \in 1..PageSize}

RollupRaises ==
    \E S \in Pages : \E d \in TouDaysFor(S) : \E deleted \in {{}, {d}} :
        RollupFails(S, d, deleted)

Next ==
    \/ \E S \in Pages : InsertSnapshots(S)
    \/ \E S \in Pages, torn \in BOOLEAN : InsertFails(S, torn)
    \/ RollupRaises
    \/ \E cutoff \in Cutoffs : PruneOlder(cutoff)
    \/ PurgeAll
    \/ BackfillTou
    \/ BackfillPeaks

Spec == Init /\ [][Next]_vars

\* The backfill of roll-ups runs every hour of the service's loop, in slices that
\* end when nothing is left to do.  A roll-up may raise any number of times, but
\* not for ever.
FairSpec ==
    /\ Spec
    /\ WF_vars(BackfillTou)
    /\ <>[][~RollupRaises]_vars

-----------------------------------------------------------------------------
(* Properties.                                                             *)

TypeOK ==
    /\ sample \in Samples
    /\ rows \subseteq Times /\ pending \subseteq rows /\ partial \subseteq Days
    /\ DOMAIN tou \subseteq RowDays(rows)
    /\ \A d \in DOMAIN tou : tou[d] \in [TOU_PERIODS -> Nat]
    /\ \A d \in DOMAIN peaks : Day(peaks[d]) = d /\ Lit(peaks[d])
    /\ \A d \in DOMAIN daily : UtcDay(daily[d].at) = d

\* What a day's readings may have been measured against: the seed is read when
\* the day is rebuilt, from rows that may have come or gone since.
Seeds(d) == {Missing} \cup {sample[t].meter : t \in Lookback(Times, d)}

\* The roll-up of a day is the split of exactly the readings stored of it: no
\* order of live, replayed and repeated inserts, retention and purges leaves one
\* that counts readings no longer there or leaves out some that are
\* (_recompute_tou_day_locked, "keeps the rollup self-healing").
RollupExact ==
    \A d \in DOMAIN tou : InDay(pending, d) = {} =>
        \E seed \in Seeds(d) : tou[d] = Split(InDay(rows, d), seed)

Plus(x, y) == x + y
Total(split) == FoldFunctionOnSet(Plus, 0, split, TOU_PERIODS)

\* What the counter says of a day in which it never restarts.
CounterTotal(R, seed) ==
    LET meters == {sample[t].meter : t \in {u \in R : Rated(u)}}
        start  == IF seed = Missing THEN 0 ELSE seed
    IN  Max(meters \cup {start}) - start

NeverRestarts(R, seed) ==
    \A t \in {u \in R : Rated(u)} :
        /\ seed # Missing => 2 * sample[t].meter >= seed
        /\ \A u \in R : u < t => 2 * sample[t].meter >= sample[u].meter

\* Missing readings and glitches add nothing: while the counter does not restart,
\* the periods of a day sum to what the counter rose from its seed to its highest
\* reading ("how a 30 kWh day billed as 45", COUNTER_RESET_FRACTION).
DayTotalIsCounter ==
    \A d \in DOMAIN tou :
        LET R == InDay(rows, d)
        IN  InDay(pending, d) = {} /\ (\A seed \in Seeds(d) : NeverRestarts(R, seed))
            => \E seed \in Seeds(d) : Total(tou[d]) = CounterTotal(R, seed)

\* No stored reading of a measured day is stronger than the day's peak, in
\* whatever order readings arrive, however often they are repeated, and whatever
\* retention takes (_upsert_solar_peak_locked, prune_older_than_days).
PeakCovers ==
    \A t \in rows \ pending : Lit(t) /\ Day(t) \notin partial =>
        Day(t) \in DOMAIN peaks /\ sample[t].power <= sample[peaks[Day(t)]].power

\* The daily counter is at least as high and as late as every stored reading of
\* its UTC day, although retention cuts the two tables by different days
\* (_upsert_daily_energy_locked, prune_older_than_days).
DailyCovers ==
    \A t \in rows \ pending : Rated(t) =>
        /\ UtcDay(t) \in DOMAIN daily
        /\ sample[t].meter <= daily[UtcDay(t)].kwh /\ t <= daily[UtcDay(t)].at

\* A day's roll-up is of its readings and adds up to its counter
\* (_recompute_tou_day_locked).
RollupIsTheCounter == RollupExact /\ DayTotalIsCounter

\* The two tables of maxima hold at least what the readings stored beside them say
\* (insert_snapshots).
MaximaCover == PeakCovers /\ DailyCovers

\* The archive fills in: a day with readings is rolled up unless its readings are
\* deleted; a day that yields no energy does not hold up the others, whatever is
\* inserted or pruned meanwhile (backfill_tou_energy, _next_unrolled_day_locked).
ArchiveFillsIn == \A d \in Days : d \in UnrolledDays ~> d \notin UnrolledDays

=============================================================================

------------------------------ MODULE Savings ------------------------------
(***************************************************************************)
(* The savings panel of the monitor: the windows RetentionStore            *)
(* .savings_energy reports and what build_savings_payload prices them at,  *)
(* over the day totals of the energy history and the time-of-use roll-ups  *)
(* of those days (EnergyRollups), while days go by and roll-ups come late. *)
(*                                                                         *)
(* Energy is in whole kWh and prices are whole numbers.  Days count from   *)
(* 0; a time is a half day, even at midnight, so that a day can be in      *)
(* progress.  Months are short.  Viewer and tariff share a time zone.      *)
(***************************************************************************)
EXTENDS PythonNone, Integers, Sequences, FiniteSets, SequencesExt, FiniteSetsExt

CONSTANTS
    MonthLengths,    \* days of each month
    Stride,          \* the 32 days of a step into the next month
    Summer,          \* months of the summer season; the others are winter
    YearStart,       \* month in which the current year begins
    Retention,       \* retention_days
    Charges,         \* season -> period -> energy charge
    Riders,          \* riders on every kWh of either schedule
    Tier1, Tier2,    \* energy charges of the standard plan
    PerDay,          \* kWh of the first block a day earns
    PeriodDays,      \* days of a billing period
    Energies         \* what a day may have used: [solar, grid, unsplit]

TOU_PERIODS == {"on_peak", "off_peak", "super_off_peak"}
SEASONS == {"winter", "summer"}

Sum(S, f(_)) == MapThenSumSet(f, S)
SumSeq(s) == FoldSeq(LAMBDA x, y : x + y, 0, s)

Months == 1..Len(MonthLengths)
First(m) == SumSeq(SubSeq(MonthLengths, 1, m - 1))
Days == 0..(SumSeq(MonthLengths) - 1)
MonthOf == [d \in Days |-> CHOOSE m \in Months : First(m) <= d /\ d < First(m) + MonthLengths[m]]

\* A step of 32 days from the first of any month lands in the next month.
ASSUME SavingsAssumption ==
    /\ None \notin Int /\ MonthLengths \in Seq(Nat \ {0}) /\ Stride \in Nat
    /\ \A m \in Months : MonthLengths[m] <= Stride
    /\ \A m \in Months : m < Len(MonthLengths) =>
         Stride < MonthLengths[m] + MonthLengths[m + 1]
    /\ YearStart \in Months /\ Retention \in Nat \ {0}
    /\ Riders \in Nat /\ Tier1 \in Nat /\ Tier2 \in Nat /\ PerDay \in Nat /\ PeriodDays \in Nat
    /\ Charges \in [SEASONS -> [TOU_PERIODS -> Nat]]
    /\ LET amounts == [TOU_PERIODS -> Nat]
           reports == [solar : Nat \union {None}, grid : Nat]
       IN /\ Energies \subseteq [solar : amounts \union {None}, grid : amounts, unsplit : Nat]
          /\ None \notin amounts \union reports

VARIABLES
    clock,    \* half days since the first midnight
    total,    \* day -> [solar, grid] as the energy history measures them, or None
    split     \* day -> period -> [solar, grid], the rows of its roll-up, or None

savingsVars == <<clock, total, split>>

Today == clock \div 2

SavingsInit ==
    /\ clock = 0
    /\ total = [d \in Days |-> None] /\ split = [d \in Days |-> None]

\* A day has been read, with its roll-up or before roll-ups were kept.  The
\* history measures a day's first reading otherwise and can run higher.
RecordDay ==
    /\ clock % 2 = 1
    /\ \E d \in 0..Today, e \in Energies, rolled \in BOOLEAN :
        /\ total[d] = None
        /\ total' = [total EXCEPT ![d] =
             [solar |-> IF e.solar = None THEN None
                        ELSE Sum(TOU_PERIODS, LAMBDA p : e.solar[p]),
              grid |-> Sum(TOU_PERIODS, LAMBDA p : e.grid[p]) + e.unsplit]]
        /\ split' = IF ~rolled THEN split ELSE
             [split EXCEPT ![d] = [p \in TOU_PERIODS |->
                [solar |-> IF e.solar = None THEN 0 ELSE e.solar[p], grid |-> e.grid[p]]]]
    /\ UNCHANGED clock

\* Mutant: a roll-up is written for any day.
BackfillAnyDay ==
    /\ \E d \in Days, e \in Energies :
        /\ split[d] = None
        /\ split' = [split EXCEPT ![d] = [p \in TOU_PERIODS |->
             [solar |-> IF e.solar = None THEN 0 ELSE e.solar[p], grid |-> e.grid[p]]]]
    /\ UNCHANGED <<clock, total>>

\* The backfill rolls up a day; the readings say how it falls into periods.
RollUpDay ==
    /\ \E d \in Days, e \in Energies :
        /\ total[d] # None /\ split[d] = None
        /\ total[d].grid = Sum(TOU_PERIODS, LAMBDA p : e.grid[p]) + e.unsplit
        /\ (total[d].solar = None) = (e.solar = None)
        /\ e.solar # None => total[d].solar = Sum(TOU_PERIODS, LAMBDA p : e.solar[p])
        /\ split' = [split EXCEPT ![d] = [p \in TOU_PERIODS |->
             [solar |-> IF e.solar = None THEN 0 ELSE e.solar[p], grid |-> e.grid[p]]]]
    /\ UNCHANGED <<clock, total>>

HalfDayPasses ==
    /\ clock < 2 * Cardinality(Days) - 1
    /\ clock' = clock + 1
    /\ UNCHANGED <<total, split>>

SavingsNext == RecordDay \/ RollUpDay \/ HalfDayPasses

SavingsSpec == SavingsInit /\ [][SavingsNext]_savingsVars

-----------------------------------------------------------------------------
(* The windows: savings_energy. *)

DateWindow(d) == [start |-> 2 * d, end |-> 2 * d + 2]
MonthWindow(m) == [start |-> 2 * First(m), end |-> 2 * (First(m) + MonthLengths[m])]
YearWindow == [start |-> 2 * First(YearStart), end |-> 2 * Cardinality(Days)]
RetainedWindow == [start |-> clock - 2 * Retention, end |-> clock + 1]

\* The retained archive may begin before the first day of the model.
Windows == {DateWindow(d) : d \in 0..Today} \union {MonthWindow(m) : m \in Months}
             \union {YearWindow}
             \union (IF clock >= 2 * Retention THEN {RetainedWindow} ELSE {})

\* Days that begin inside a window.
DaysIn(w) == {d \in Days : w.start <= 2 * d /\ 2 * d < w.end}

\* The history sums what it has: the retained window everything, the others
\* the days they hold.
TotalOf(w, side) ==
    LET days == {d \in IF w = RetainedWindow THEN Days ELSE DaysIn(w) :
                   total[d] # None /\ total[d][side] # None}
    IN IF days = {} THEN None ELSE Sum(days, LAMBDA d : total[d][side])

SeasonFor(m) == IF m \in Summer THEN "summer" ELSE "winter"

\* tou_energy_totals: each period's energy, and by season.
TouTotals(w) ==
    LET of(p, season, side) ==
          Sum({d \in DaysIn(w) : split[d] # None /\ SeasonFor(MonthOf[d]) = season},
              LAMBDA d : split[d][p][side])
        both(p, side) == of(p, "winter", side) + of(p, "summer", side)
    IN [p \in TOU_PERIODS |->
          [solar |-> both(p, "solar"), grid |-> both(p, "grid"),
           seasons |-> [s \in SEASONS |->
                          [solar |-> of(p, s, "solar"), grid |-> of(p, s, "grid")]]]]

\* The first day of the month of a day, and of the month after it, reached by
\* a step of 32 days.
MonthStart(d) == IF d \in Days THEN First(MonthOf[d]) ELSE Cardinality(Days)

\* Mutant: the step is taken from the day itself.
NextMonthFromDay(d) == MonthStart(d + Stride)

NextMonth(d) == MonthStart(MonthStart(d) + Stride)

\* Mutant: a day in progress is no billing day.
DaysBetweenMidnights(day, end) == end \div 2 - day

\* The days from one day to a time; a day in progress counts.
BillingDays(day, end) == end \div 2 - day + (end % 2)

\* _tier_plan: the months of a window up to now, each with the days the window
\* covers of it and the grid draw rolled up for them.
TierPlan(w) ==
    LET last == IF w.end < clock THEN w.end ELSE clock
        grid(m) == Sum({d \in DaysIn(w) : split[d] # None /\ MonthOf[d] = m},
                       LAMBDA d : Sum(TOU_PERIODS, LAMBDA p : split[d][p].grid))
        from[cursor \in 0..Cardinality(Days)] ==
          IF 2 * cursor >= last THEN <<>>
          ELSE LET end == IF 2 * NextMonth(cursor) < last THEN 2 * NextMonth(cursor) ELSE last
                   days == BillingDays(cursor, end)
               IN (IF days > 0
                     THEN <<[month |-> MonthOf[cursor], days |-> days,
                             grid |-> grid(MonthOf[cursor])]>>
                     ELSE <<>>)
                  \o from[NextMonth(cursor)]
    IN from[w.start \div 2]

-----------------------------------------------------------------------------
(* The prices: build_savings_payload, with riders as a parameter. *)

Rate(season, period, riders) == Charges[season][period] + riders

\* Mutant: all energy is priced at the current season's rate.
PricedNow(energy, p, side, riders) ==
    energy[p][side] * Rate(SeasonFor(MonthOf[Today]), p, riders)

\* _priced_period: each season's share at its own rate, what no season accounts
\* for at the current one.
PricedPeriod(energy, p, side, riders) ==
    LET shares == energy[p].seasons
        rest == energy[p][side] - Sum(SEASONS, LAMBDA s : shares[s][side])
    IN Sum(SEASONS, LAMBDA s : shares[s][side] * Rate(s, p, riders))
         + (IF rest > 0 THEN rest ELSE 0) * Rate(SeasonFor(MonthOf[Today]), p, riders)

Classified(energy, side) == Sum(TOU_PERIODS, LAMBDA p : energy[p][side])

\* settle: each side by the clock where it is rolled up, else at the season's
\* off-peak rate; what was not measured stays unknown.
Settle(w, side, riders) ==
    LET energy == TouTotals(w) IN
    IF TotalOf(w, side) = None THEN None
    ELSE IF Classified(energy, side) = 0
      THEN TotalOf(w, side) * Rate(SeasonFor(MonthOf[Today]), "off_peak", riders)
    ELSE Sum(TOU_PERIODS, LAMBDA p : PricedPeriod(energy, p, side, riders))

\* _tiered_cost: each month's draw fills the block its days earn, and the energy
\* is split in that proportion; without roll-ups one block is for all of it.
TieredCost(grid, plan, riders) ==
    LET drawn == SumSeq([i \in DOMAIN plan |-> plan[i].grid])
        within == SumSeq([i \in DOMAIN plan |->
                            Min({plan[i].grid, PerDay * plan[i].days})])
        days == SumSeq([i \in DOMAIN plan |-> plan[i].days])
        block == PerDay * (IF days = 0 THEN PeriodDays ELSE days)
        tier1 == IF drawn > 0 THEN (grid * within) \div drawn ELSE Min({grid, block})
    IN tier1 * (Tier1 + riders) + (grid - tier1) * (Tier2 + riders)

\* Mutant: the standard plan is billed for what the history measured.
ComparedWithTotal(w) == TotalOf(w, "grid")

\* The energy both bills are for.
Compared(w) ==
    IF Classified(TouTotals(w), "grid") > 0 THEN Classified(TouTotals(w), "grid")
    ELSE TotalOf(w, "grid")

GridCost(w, riders) == Settle(w, "grid", riders)

ComparisonCost(w, riders) ==
    IF Compared(w) = None THEN None ELSE TieredCost(Compared(w), TierPlan(w), riders)

RateSavings(w, riders) ==
    IF ComparisonCost(w, riders) = None \/ GridCost(w, riders) = None THEN None
    ELSE ComparisonCost(w, riders) - GridCost(w, riders)

-----------------------------------------------------------------------------
(* Properties. *)

\* Besides the types: only a day that was read has a roll-up, and nothing in it
\* that was not used.
SavingsTypeOK ==
    /\ clock \in 0..(2 * Cardinality(Days) - 1)
    /\ \A d \in Days :
        /\ total[d] # None => d <= Today
        /\ split[d] # None =>
             /\ total[d] # None
             /\ Sum(TOU_PERIODS, LAMBDA p : split[d][p].grid) <= total[d].grid

\* Riders and credits cancel out of the saving between the two plans: whatever
\* they are, both bills are for the same kilowatt-hours, in every window and
\* however much of it is rolled up (config.py:56, savings.py:263).
RidersCancel ==
    \A w \in Windows : RateSavings(w, Riders) = RateSavings(w, 0)

\* A window whose days are all rolled up costs what its days cost, each at the
\* rates of its own season, also across the change of season (savings.py:360).
PricedByOwnSeason ==
    \A w \in Windows \ {RetainedWindow}, side \in {"solar", "grid"} :
        /\ TotalOf(w, side) # None
        /\ Classified(TouTotals(w), side) > 0
        /\ \A d \in DaysIn(w) : total[d] # None => split[d] # None
        => Settle(w, side, Riders) =
             Sum({d \in DaysIn(w) : split[d] # None}, LAMBDA d :
               Sum(TOU_PERIODS, LAMBDA p :
                 split[d][p][side] * Rate(SeasonFor(MonthOf[d]), p, Riders)))

\* What the standard plan would have billed for the year is what it would have
\* billed for its months, the one in progress included: a month owns the block
\* its days earn, no matter which window it is seen in (storage.py:747).
YearIsItsMonths ==
    LET months == {m \in Months : m >= YearStart /\ TotalOf(MonthWindow(m), "grid") # None}
    IN (\A m \in months : Classified(TouTotals(MonthWindow(m)), "grid") > 0)
         => IF months = {} THEN ComparisonCost(YearWindow, Riders) = None
            ELSE ComparisonCost(YearWindow, Riders) =
                   Sum(months, LAMBDA m : ComparisonCost(MonthWindow(m), Riders))

\* No kilowatt-hour is priced without a month to earn its block: what the plan
\* of a window holds is what its roll-ups hold, from the first hour of a month
\* on (storage.py:756).
EveryKwhHasABlock ==
    \A w \in Windows :
        SumSeq([i \in DOMAIN TierPlan(w) |-> TierPlan(w)[i].grid])
          = Classified(TouTotals(w), "grid")

=============================================================================

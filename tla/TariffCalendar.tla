--------------------------- MODULE TariffCalendar ---------------------------
(***************************************************************************)
(* The tariff followed day by day through the calendar.                    *)
(***************************************************************************)
EXTENDS Tariff

CONSTANTS
    FirstYear,   \* the walk starts on January 1 of this year
    LastYear     \* bound: and ends with this year

VARIABLES
    today,   \* the current day
    year     \* the year it belongs to

Init ==
    /\ year = FirstYear
    /\ today = Ordinal(FirstYear, 1, 1)

NextDay ==
    /\ today' = today + 1
    /\ year' = IF today + 1 = Ordinal(year + 1, 1, 1) THEN year + 1 ELSE year
    /\ year' <= LastYear

Spec == Init /\ [][NextDay]_<<today, year>>

\* The holidays of fixed date that are observed today, of whatever year.
FixedHolidaysToday ==
    {y \in {year, year + 1} :
        today \in {Observed(Ordinal(y, 1, 1)), Observed(Ordinal(y, 7, 4)),
                   Observed(Ordinal(y, 12, 25))}}

\* "A holiday landing on a Saturday is observed the Friday before"
\* (tariff.py:78) and carries no on-peak hours: on the day on which a holiday is
\* observed, is_off_peak_day holds, and period_for names no hour on-peak.
HolidaysObserved ==
    FixedHolidaysToday # {} =>
        \A hour \in 0..23 : PeriodFor(today, year, hour) # "on_peak"
=============================================================================

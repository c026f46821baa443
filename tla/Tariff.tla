------------------------------- MODULE Tariff -------------------------------
(***************************************************************************)
(* The period structure of PSE Schedule 327 as tariff.py computes it.  A   *)
(* day is its proleptic Gregorian ordinal, as in Python's datetime; where  *)
(* the code asks a date for its year, the year is a parameter.             *)
(***************************************************************************)
EXTENDS Integers

TOU_PERIODS == {"on_peak", "off_peak", "super_off_peak"}

\* date(year, month, day).toordinal()
Ordinal(year, month, day) ==
    LET leap == (year % 4 = 0 /\ year % 100 # 0) \/ year % 400 = 0
        before == <<0, 31, 59, 90, 120, 151, 181, 212, 243, 273, 304, 334>>
    IN  365 * (year - 1) + (year - 1) \div 4 - (year - 1) \div 100
            + (year - 1) \div 400
            + before[month] + (IF leap /\ month > 2 THEN 1 ELSE 0) + day

\* date.weekday(): Monday is 0, Saturday 5, Sunday 6.
Weekday(day) == (day + 6) % 7

\* A holiday on a Saturday moves to Friday, one on a Sunday to Monday.
Observed(day) ==
    CASE Weekday(day) = 5 -> day - 1
      [] Weekday(day) = 6 -> day + 1
      [] OTHER -> day

NthWeekdayOf(year, month, weekday, count) ==
    LET first == Ordinal(year, month, 1)
    IN  first + ((weekday - Weekday(first)) % 7) + 7 * (count - 1)

LastWeekdayOf(year, month, weekday) ==
    LET last == IF month = 12 THEN Ordinal(year + 1, 1, 1) - 1
                              ELSE Ordinal(year, month + 1, 1) - 1
    IN  last - ((Weekday(last) - weekday) % 7)

ObservedHolidays(year) ==
    {Observed(Ordinal(year, 1, 1)),   \* New Year's Day
     LastWeekdayOf(year, 5, 0),       \* Memorial Day
     Observed(Ordinal(year, 7, 4)),   \* Independence Day
     NthWeekdayOf(year, 9, 0, 1),     \* Labor Day
     NthWeekdayOf(year, 11, 3, 4),    \* Thanksgiving
     Observed(Ordinal(year, 12, 25))} \* Christmas Day

\* A day without on-peak hours; `year` is the calendar year `day` is in.
IsOffPeakDay(day, year) == Weekday(day) >= 5 \/ day \in ObservedHolidays(year)

ON_PEAK_WINDOWS == (7..9) \cup (17..19)

PeriodFor(day, year, hour) ==
    IF hour >= 23 \/ hour < 7 THEN "super_off_peak"
    ELSE IF hour \in ON_PEAK_WINDOWS /\ ~IsOffPeakDay(day, year) THEN "on_peak"
    ELSE "off_peak"
=============================================================================

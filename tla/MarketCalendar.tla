--------------------------- MODULE MarketCalendar ---------------------------
(***************************************************************************)
(* strategy_engine/daemon/scheduler.py: western_easter and MarketCalendar, *)
(* which compute the exchange's holidays, short days, and the first and    *)
(* last trading days that the cadences hang on.                            *)
(*                                                                         *)
(* A date is its ordinal, as date.toordinal gives it: day 1 is Monday, 1   *)
(* January of year 1.  Hours are left to CadenceScheduler, which takes the *)
(* minute the market closes; is_last_trading_day_of_month has no caller.   *)
(***************************************************************************)
EXTENDS Integers

-----------------------------------------------------------------------------
(* Python's dates                                                          *)

Leap(year) == year % 4 = 0 /\ (year % 100 # 0 \/ year % 400 = 0)

DaysBefore(year, month) ==
    <<0, 31, 59, 90, 120, 151, 181, 212, 243, 273, 304, 334, 365>>[month]
        + IF month > 2 /\ Leap(year) THEN 1 ELSE 0

MonthLength(year, month) == DaysBefore(year, month + 1) - DaysBefore(year, month)

Date(year, month, dayOfMonth) ==
    LET past == year - 1
    IN 365 * past + past \div 4 - past \div 100 + past \div 400
         + DaysBefore(year, month) + dayOfMonth

YearOf(d) ==
    CHOOSE y \in (d \div 366)..(d \div 365 + 1) : Date(y, 1, 1) <= d /\ d < Date(y + 1, 1, 1)

MonthStart(d) ==
    LET year == YearOf(d)
        ordinal == d - Date(year - 1, 12, 31)
        month == CHOOSE m \in 1..12 : DaysBefore(year, m) < ordinal
                                        /\ ordinal <= DaysBefore(year, m + 1)
    IN Date(year, month, 1)

\* Monday is 0.
Weekday(d) == (d + 6) % 7

-----------------------------------------------------------------------------
(* Holidays                                                                *)

western_easter(year) ==
    LET a == year % 19
        b == year \div 100
        c == year % 100
        g == (b - (b + 8) \div 25 + 1) \div 3
        h == (19 * a + b - b \div 4 - g + 15) % 30
        l == (32 + 2 * (b % 4) + 2 * (c \div 4) - h - (c % 4)) % 7
        m == (a + 11 * h + 22 * l) \div 451
        n == h + l - 7 * m + 114
    IN Date(year, n \div 31, (n % 31) + 1)

NthWeekday(year, month, weekday, n) ==
    LET first == Date(year, month, 1)
    IN first + ((weekday - Weekday(first)) % 7) + 7 * (n - 1)

LastWeekday(year, month, weekday) ==
    LET end == Date(year, month, MonthLength(year, month))
    IN end - ((Weekday(end) - weekday) % 7)

\* A holiday on a Saturday is observed the day before, one on a Sunday the day after.
Observed(d) == CASE Weekday(d) = 5 -> d - 1 [] Weekday(d) = 6 -> d + 1 [] OTHER -> d

\* New Year's Day on a Saturday is not observed.
NewYear(year) == {Observed(Date(year, 1, 1))} \ {Date(year, 1, 1) - 1}
Juneteenth(year) == IF year >= 2021 THEN {Observed(Date(year, 6, 19))} ELSE {}
Thanksgiving(year) == NthWeekday(year, 11, 3, 4)

get_holidays(year) ==
    NewYear(year) \cup Juneteenth(year) \cup
    {NthWeekday(year, 1, 0, 3), NthWeekday(year, 2, 0, 3),  \* Dr. King's and Washington's
     western_easter(year) - 2, LastWeekday(year, 5, 0),     \* Good Friday, Memorial Day
     Observed(Date(year, 7, 4)), NthWeekday(year, 9, 0, 1), \* Independence Day, Labor Day
     Thanksgiving(year), Observed(Date(year, 12, 25))}

get_early_closes(year) ==
    {Thanksgiving(year) + 1}
    \cup {d \in {Date(year, 7, 3)} : Weekday(d + 1) \in 1..4}
    \cup {d \in {Date(year, 12, 24)} : Weekday(d) < 5 /\ d \notin get_holidays(year)}

-----------------------------------------------------------------------------
(* Trading days                                                            *)

is_trading_day(d) == Weekday(d) < 5 /\ d \notin get_holidays(YearOf(d))

is_short_day(d) == is_trading_day(d) /\ d \in get_early_closes(YearOf(d))

is_first_trading_day_of_month(d) ==
    is_trading_day(d) /\ \A other \in MonthStart(d)..(d - 1) : ~is_trading_day(other)

\* Mutant: Friday is the last trading day, or there is none.
is_trading_friday(d) == is_trading_day(d) /\ Weekday(d) = 4

is_last_trading_day_of_week(d) ==
    is_trading_day(d) /\ \A other \in (d + 1)..(d - Weekday(d) + 4) : ~is_trading_day(other)
=============================================================================

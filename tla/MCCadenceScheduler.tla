------------------------- MODULE MCCadenceScheduler -------------------------
(***************************************************************************)
(* CadenceScheduler on dates of 2026 picked for what they are: a Thursday  *)
(* that ends its week because Good Friday follows, Good Friday, a month's  *)
(* first trading day that also ends its week, and the short Friday after   *)
(* Thanksgiving (tests/unit/test_daemon.py:47-115 expects the same of      *)
(* them).  Windows are three minutes long and the retry interval is two,   *)
(* so a cadence is attempted, fails and is retried in one window.          *)
(***************************************************************************)
EXTENDS CalendarScheduler

Picked == <<Date(2026, 4, 2), Date(2026, 4, 3), Date(2026, 5, 1), Date(2026, 11, 27)>>

PickedDays == 1..4
Trading == {d \in PickedDays : is_trading_day(Picked[d])}
Firsts == {d \in PickedDays : is_first_trading_day_of_month(Picked[d])}
Lasts == {d \in PickedDays : is_last_trading_day_of_week(Picked[d])}
Closes == [d \in PickedDays |-> IF is_short_day(Picked[d]) THEN 4 ELSE 5]

\* The values of the constants, so named that TLC computes each only once.
MCDates == Picked
MCTrading == Trading
MCFirsts == Firsts
MCLasts == Lasts
MCCloses == Closes

MCSessions == <<
    [open |-> TRUE, closes |-> Regular, cadences |-> {"daily", "weekly"}],
    [open |-> FALSE, closes |-> Regular, cadences |-> {}],
    [open |-> TRUE, closes |-> Regular, cadences |-> {"monthly", "daily", "weekly"}],
    [open |-> TRUE, closes |-> Short, cadences |-> {"daily", "weekly"}] >>

-----------------------------------------------------------------------------
(* The calendar itself, over the years                                     *)

Years == 2015..2045

\* Easter by its definition: the Sunday after the ecclesiastical full moon.
Epact(year) == (19 * (year % 19) + 24) % 30
FullMoon(year) ==
    Date(year, 3, 21) + (IF Epact(year) = 29 \/ (Epact(year) = 28 /\ year % 19 > 10)
                           THEN Epact(year) - 1 ELSE Epact(year))
Easter(year) == CHOOSE d \in (FullMoon(year) + 1)..(FullMoon(year) + 7) : Weekday(d) = 6

\* The closures the exchange published for 2026.
Published == {Date(2026, 1, 1), Date(2026, 1, 19), Date(2026, 2, 16), Date(2026, 4, 3),
              Date(2026, 5, 25), Date(2026, 6, 19), Date(2026, 7, 3), Date(2026, 9, 7),
              Date(2026, 11, 26), Date(2026, 12, 25)}

ASSUME CalendarSound ==
    /\ get_holidays(2026) = Published
    /\ \A y \in Years :
        /\ western_easter(y) = Easter(y)
        /\ \A h \in get_holidays(y) : Weekday(h) < 5 /\ YearOf(h) = y
        /\ \A e \in get_early_closes(y) : is_trading_day(e)
        /\ \A m \in 1..12 : \E d \in Date(y, m, 1)..(Date(y, m, 1) + 4) :
                is_first_trading_day_of_month(d)
=============================================================================

-------------------------- MODULE CalendarScheduler --------------------------
(***************************************************************************)
(* The scheduler on the dates that MarketCalendar computes, against the    *)
(* calendar the exchange published.                                        *)
(***************************************************************************)
EXTENDS CadenceScheduler, MarketCalendar, Sequences

CONSTANTS
    Dates,          \* the date of each day
    Regular, Short, \* when the market closes on a full and on a short day
    Sessions        \* the exchange's calendar: what it says of each day

ASSUME CalendarAssumption ==
    /\ Len(Dates) = MaxDay
    /\ TradingDays = {d \in Days : is_trading_day(Dates[d])}
    /\ FirstDays = {d \in Days : is_first_trading_day_of_month(Dates[d])}
    /\ LastDays = {d \in Days : is_last_trading_day_of_week(Dates[d])}
    /\ Close = [d \in Days |-> IF is_short_day(Dates[d]) THEN Short ELSE Regular]
    /\ Sessions \in [Days -> [open : BOOLEAN, closes : Nat,
                              cadences : SUBSET Cadences]]

Session == Sessions[day]

\* Cadences follow the exchange, not only the program's own arithmetic: none is
\* attempted on a day the exchange was closed, none but those its calendar calls
\* for, none that is dispatched on time misses the exchange's close by more than
\* the handlers before it took; and a process that was up before the close has
\* attempted every one of them by then (tick, on get_holidays, get_early_closes
\* and the first and last trading days computed from them).
KeepsExchangeHours ==
    /\ \A c \in Cadences : attempt[c].day = day =>
        /\ Session.open /\ c \in Session.cadences
        /\ attempt[c].minute < Session.closes + 2 * MaxRun
    /\ (up /\ pc = "sleep" /\ Session.open /\ bootAt < Session.closes
          /\ Session.closes <= minute) =>
        \A c \in Session.cadences : last[c] = day \/ attempt[c].day = day
=============================================================================

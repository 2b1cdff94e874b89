-------------------------- MODULE CadenceScheduler --------------------------
(***************************************************************************)
(* strategy_engine/daemon/scheduler.py: MarketScheduler, its tick loop on  *)
(* a clock that moves while handlers run, and the completed-cadence dates  *)
(* that bot/service.py saves and restores.                                 *)
(*                                                                         *)
(* A tick reads the clock once (tickAt, the code's now_et) and considers   *)
(* the three cadences in turn against that reading, however long the       *)
(* handlers before them took.  A handler is an arbitrary computation of at *)
(* most MaxRun minutes that completes or does not.  The market calendar is *)
(* given by constants.  Minutes stand for any unit of time.                *)
(***************************************************************************)
EXTENDS Naturals

CONSTANTS
    MaxDay,         \* bound: days modelled
    DayEnd,         \* the last minute of a day
    TradingDays,    \* is_trading_day
    FirstDays,      \* is_first_trading_day_of_month
    LastDays,       \* is_last_trading_day_of_week
    Close,          \* get_market_hours: the minute the market closes on a day
    Offset,         \* daily_close_offset
    Lead,           \* how much earlier the monthly window opens
    Retry,          \* retry_interval
    MaxRun,         \* bound: the longest a handler runs
    MaxRestarts,    \* bound: restarts
    StorageFaults   \* whether SQLite calls may raise

Days == 1..MaxDay

ASSUME SchedulerAssumption ==
    /\ MaxDay \in Nat \ {0} /\ DayEnd \in Nat
    /\ TradingDays \subseteq Days
    /\ FirstDays \subseteq TradingDays /\ LastDays \subseteq TradingDays
    /\ Close \in [Days -> 0..DayEnd]
    /\ Offset \in Nat /\ Lead \in Nat /\ Retry \in Nat \ {0}
    /\ MaxRun \in Nat /\ MaxRestarts \in Nat
    /\ StorageFaults \in BOOLEAN
    \* Windows open after midnight; what runs in them ends before the next one.
    /\ \A d \in TradingDays : /\ Offset + Lead <= Close[d]
                              /\ Close[d] + Retry + 3 * MaxRun <= DayEnd

Cadences == {"monthly", "daily", "weekly"}
Never == [day |-> 0, minute |-> 0]

VARIABLES
    day, minute,    \* the wall clock
    up,             \* whether the process runs
    bootAt,         \* the minute it was started, 0 if on an earlier day
    pc,             \* "sleep", or the cadence that the tick has come to
    ticked,         \* whether the loop has ticked since the clock last moved
    tickAt,         \* now_et: the minute the current tick started
    running,        \* whether the handler of pc is running
    last,           \* _last_executed: the day of each cadence's completion
    retryAt,        \* _next_retry_at
    saved,          \* the table scheduler_state
    attempt,        \* history: when each cadence's handler was last started
    restarts        \* restarts so far

vars == <<day, minute, up, bootAt, pc, ticked, tickAt, running, last, retryAt, saved,
          attempt, restarts>>

clockVars == <<day, minute, bootAt, up, restarts>>

Times == [day : 0..MaxDay, minute : 0..DayEnd]

TypeOK ==
    /\ day \in Days /\ minute \in 0..DayEnd /\ bootAt \in 0..DayEnd
    /\ up \in BOOLEAN /\ ticked \in BOOLEAN /\ running \in BOOLEAN
    /\ pc \in Cadences \cup {"sleep"} /\ tickAt \in 0..DayEnd
    /\ last \in [Cadences -> 0..MaxDay] /\ saved \in [Cadences -> 0..MaxDay]
    /\ retryAt \in [Cadences -> Times] /\ attempt \in [Cadences -> Times]
    /\ \A c \in Cadences : retryAt[c] = Never \/ retryAt[c].minute < Close[retryAt[c].day] + Retry
    /\ restarts \in 0..MaxRestarts

Init ==
    /\ day = 1 /\ minute = 0 /\ bootAt = 0 /\ up = TRUE
    /\ pc = "sleep" /\ ticked = FALSE /\ tickAt = 0 /\ running = FALSE
    /\ last = [c \in Cadences |-> 0] /\ saved = [c \in Cadences |-> 0]
    /\ retryAt = [c \in Cadences |-> Never] /\ attempt = [c \in Cadences |-> Never]
    /\ restarts = 0

-----------------------------------------------------------------------------
(* tick() and _run_cadence().                                               *)

Opens(c) == Close[day] - Offset - (IF c = "monthly" THEN Lead ELSE 0)
InWindow(c, m) == Opens(c) <= m /\ m < Close[day]

\* Is the tick at tickAt to run the cadence, as far as the calendar goes?
Scheduled(c) ==
    /\ InWindow(c, tickAt)
    /\ c = "monthly" => day \in FirstDays
    /\ c = "weekly" => day \in LastDays

\* A retry time of an earlier day has passed.
Waits(c) == retryAt[c].day = day /\ tickAt < retryAt[c].minute

\* Mutant: a completed cadence is run again, a retry apart.
DueAgain(c) == Scheduled(c) /\ ~Waits(c)

Due(c) == Scheduled(c) /\ last[c] # day /\ ~Waits(c)

After(c) == CASE c = "monthly" -> "daily" [] c = "daily" -> "weekly" [] c = "weekly" -> "sleep"

\* run(): one tick per check interval; nothing is due on a day without trading.
Tick ==
    /\ up /\ pc = "sleep" /\ ~ticked
    /\ ticked' = TRUE /\ tickAt' = minute
    /\ pc' = IF day \in TradingDays THEN "monthly" ELSE "sleep"
    /\ UNCHANGED <<clockVars, running, last, retryAt, saved, attempt>>

Pass(c) ==
    /\ pc = c /\ ~running /\ ~Due(c)
    /\ pc' = After(c)
    /\ UNCHANGED <<clockVars, ticked, tickAt, running, last, retryAt, saved, attempt>>

Dispatch(c) ==
    /\ pc = c /\ ~running /\ Due(c)
    /\ running' = TRUE
    /\ attempt' = [attempt EXCEPT ![c] = [day |-> day, minute |-> minute]]
    /\ UNCHANGED <<clockVars, pc, ticked, tickAt, last, retryAt, saved>>

\* Every handler finished.  A failure to record that is only logged.
Completes(c) ==
    /\ pc = c /\ running
    /\ last' = [last EXCEPT ![c] = day]
    /\ retryAt' = [retryAt EXCEPT ![c] = Never]
    /\ \/ saved' = [saved EXCEPT ![c] = day]
       \/ StorageFaults /\ UNCHANGED saved
    /\ running' = FALSE /\ pc' = After(c)
    /\ UNCHANGED <<clockVars, ticked, tickAt, attempt>>

\* Mutant: every failure pushes the retry one more interval away.
FailsBackingOff(c) ==
    /\ pc = c /\ running
    /\ retryAt' = [retryAt EXCEPT ![c] =
            [day |-> day, minute |-> (IF @.day = day THEN @.minute + Retry ELSE tickAt) + Retry]]
    /\ running' = FALSE /\ pc' = After(c)
    /\ UNCHANGED <<clockVars, ticked, tickAt, last, saved, attempt>>

\* A handler raised or skipped.
Fails(c) ==
    /\ pc = c /\ running
    /\ retryAt' = [retryAt EXCEPT ![c] = [day |-> day, minute |-> tickAt + Retry]]
    /\ running' = FALSE /\ pc' = After(c)
    /\ UNCHANGED <<clockVars, ticked, tickAt, last, saved, attempt>>

-----------------------------------------------------------------------------
(* The clock and the process.                                               *)

\* A minute passes while the loop sleeps, a handler runs or nothing is up.
MayPass == \/ ~up
           \/ pc = "sleep" /\ ticked
           \/ running /\ minute < attempt[pc].minute + MaxRun

Minute ==
    /\ MayPass /\ minute < DayEnd
    /\ minute' = minute + 1 /\ ticked' = FALSE
    /\ UNCHANGED <<day, bootAt, up, restarts, pc, tickAt, running, last, retryAt, saved, attempt>>

Midnight ==
    /\ MayPass /\ minute = DayEnd /\ day < MaxDay
    /\ day' = day + 1 /\ minute' = 0 /\ bootAt' = 0 /\ ticked' = FALSE
    /\ UNCHANGED <<up, restarts, pc, tickAt, running, last, retryAt, saved, attempt>>

\* The process ends, with whatever ran in it, and is started later.
Dies ==
    /\ up /\ restarts < MaxRestarts
    /\ up' = FALSE /\ restarts' = restarts + 1
    /\ pc' = "sleep" /\ running' = FALSE /\ tickAt' = 0
    /\ UNCHANGED <<day, minute, bootAt, ticked, last, retryAt, saved, attempt>>

\* _init_scheduler_state seeds a new scheduler, from nothing if it cannot read.
Boots ==
    /\ ~up
    /\ up' = TRUE /\ bootAt' = minute /\ ticked' = FALSE
    /\ retryAt' = [c \in Cadences |-> Never]
    /\ \/ last' = saved
       \/ StorageFaults /\ last' = [c \in Cadences |-> 0]
    /\ UNCHANGED <<day, minute, restarts, pc, tickAt, running, saved, attempt>>

-----------------------------------------------------------------------------

Next ==
    \/ Tick \/ Minute \/ Midnight \/ Dies \/ Boots
    \/ \E c \in Cadences : Pass(c) \/ Dispatch(c) \/ Completes(c) \/ Fails(c)

Spec == Init /\ [][Next]_vars

-----------------------------------------------------------------------------
(* Properties.                                                              *)

Today(f) == {c \in Cadences : f[c] = day}

\* The abstract scheduler.  A process that is down knows what it would find.
Contract == INSTANCE CadenceContract WITH
    current <- IF running THEN pc ELSE "none",
    seen <- IF up THEN \/ last["daily"] = day \/ retryAt["daily"].day = day
                       \/ running /\ pc = "daily"
            ELSE saved["daily"] = day,
    done <- IF up THEN Today(last) ELSE Today(saved),
    logged <- Today(saved)

\* One date per cadence, a retry time and a single clock reading per tick are
\* enough to keep CadenceContract: nothing done is run again, the weekly
\* rebalance comes after a daily close, a restart knows what was recorded.
ImplementsContract == Contract!Spec

\* No retry is lost: inside the window a sleeping scheduler whose daily close
\* is not done has a next attempt coming within the retry interval.
RetryPending ==
    (/\ up /\ pc = "sleep" /\ ticked /\ day \in TradingDays
     /\ InWindow("daily", tickAt) /\ last["daily"] # day) =>
        /\ retryAt["daily"].day = day
        /\ tickAt < retryAt["daily"].minute /\ retryAt["daily"].minute <= tickAt + Retry
=============================================================================

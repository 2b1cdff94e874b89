--------------------------- MODULE CadenceContract ---------------------------
(***************************************************************************)
(* What a user of strategy_engine/daemon/scheduler.py may rely on, without *)
(* clocks, windows or retry intervals: which cadence can be running when,  *)
(* and what is known of the day's cadences.  CadenceScheduler implements   *)
(* it on a clock, StrategyService under the handlers it is dispatching to. *)
(***************************************************************************)
EXTENDS Naturals

CONSTANTS
    LastDays,       \* the days that are the last trading day of their week
    StorageFaults   \* whether SQLite calls may raise

Cadences == {"monthly", "daily", "weekly"}

VARIABLES
    day,        \* the calendar day
    current,    \* the cadence whose handler is running, or "none"
    seen,       \* whether the daily close of the day was attempted or is done
    done,       \* cadences known to be completed today
    logged      \* those recorded in storage

vars == <<day, current, seen, done, logged>>

Init ==
    /\ day = 1 /\ current = "none"
    /\ seen = FALSE /\ done = {} /\ logged = {}

\* A new day starts with a clean slate, and never under a running handler.
NewDay ==
    /\ current = "none"
    /\ day' = day + 1
    /\ seen' = FALSE /\ done' = {} /\ logged' = {}
    /\ UNCHANGED current

\* A cadence that is done is not run again that day.  The weekly rebalance
\* comes after an attempt at the daily close, on the week's last trading day.
Dispatch(c) ==
    /\ current = "none" /\ c \notin done
    /\ c = "weekly" => day \in LastDays /\ seen
    /\ current' = c
    /\ seen' = (seen \/ c = "daily")
    /\ UNCHANGED <<day, done, logged>>

Completes(c) ==
    /\ current = c /\ current' = "none"
    /\ done' = done \cup {c}
    /\ \/ logged' = logged \cup {c}
       \/ StorageFaults /\ UNCHANGED logged
    /\ UNCHANGED <<day, seen>>

\* It raised, skipped or was cancelled.
Fails(c) ==
    /\ current = c /\ current' = "none"
    /\ UNCHANGED <<day, seen, done, logged>>

\* What survives a restart is what was recorded, if it can be read.
Restart ==
    /\ current' = "none"
    /\ \/ done' = logged
       \/ StorageFaults /\ done' = {}
    /\ seen' = ("daily" \in done')
    /\ UNCHANGED <<day, logged>>

Next == \/ NewDay \/ Restart
        \/ \E c \in Cadences : Dispatch(c) \/ Completes(c) \/ Fails(c)

Spec == Init /\ [][Next]_vars
=============================================================================

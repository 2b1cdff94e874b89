--------------------------- MODULE StrategyService ---------------------------
(***************************************************************************)
(* bot/service.py: the asyncio service that evaluates the market once a    *)
(* day, rebalances once a week, answers operator requests and de-risks on  *)
(* a crash bar.                                                            *)
(*                                                                         *)
(* Every coroutine is cut at its awaits.  Between two awaits it owns the   *)
(* event loop, so no other coroutine (and no feed transition, which is a   *)
(* coroutine too) interleaves there; the reset endpoint alone runs in a    *)
(* worker thread (asyncio.to_thread) and may interleave anywhere.  The     *)
(* stretches are therefore cut again where such a thread can be seen:      *)
(* program counters in Busy are points inside a stretch.                   *)
(*                                                                         *)
(* Data is abstracted to what the properties tell apart: how much of the   *)
(* portfolio is in risk assets, that is outside cash and the havens SHV,   *)
(* TLT and GLD; an allocation is one of the kinds of Kinds; the SPY bar    *)
(* cache has an origin and a day.                                          *)
(***************************************************************************)
EXTENDS Naturals, Sequences

CONSTANTS
    Requests,       \* web requests that may call manual_rebalance
    LastDays,       \* the days that are the last trading day of their week
    MaxDay,         \* bound: days modelled
    MaxAge,         \* days after which a saved decision is not restored
    MaxRestarts,    \* bound: crashes and shutdowns
    MaxResets,      \* bound: calls of the reset endpoint
    StorageFaults   \* whether SQLite writes may raise

ASSUME ServiceAssumption ==
    /\ Requests \cap {"scheduler", "breaker", "toggle"} = {}
    /\ MaxDay \in Nat \ {0}
    /\ LastDays \subseteq 1..MaxDay
    /\ MaxAge \in Nat /\ MaxRestarts \in Nat /\ MaxResets \in Nat
    /\ StorageFaults \in BOOLEAN

Tasks == Requests \cup {"scheduler", "breaker", "toggle"}
Cadences == {"daily", "weekly"}
Jobs == Cadences \cup {"manual", "forced", "derisk", "toggle", "none"}

\* hold: STALE_DATA_HOLD; emergency: the breaker's 100% SHV; shv: a BEAR_CRISIS
\* target, havens only
Kinds == {"none", "risk", "shv", "hold", "emergency"}

\* risk: a position in a risk asset lies outside the drift band around zero;
\* residue: there are such positions and all lie within it; safe: there are none.
Holdings == {"risk", "residue", "safe"}

VARIABLES
    svc,        \* _service_state
    frozen,     \* history: the started service granted a pause, not yet resumed
    boot,       \* how far start() has come, or "down" after shutdown()
    feed,       \* feed_manager._feed_source
    sm,         \* the relay client's data state machine: is it MONITORING_STREAM?
    day,        \* the calendar day
    cache,      \* _cached_daily_bars["SPY"]: origin and day
    alloc,      \* _latest_allocation
    saved,      \* the last allocation row in SQLite
    tripped,    \* whether the breaker flag is up since a bar of today
    tried,      \* whether the scheduler has attempted DAILY_CLOSE today
    done,       \* cadences with _last_executed = today
    logged,     \* cadences with a scheduler_state row for today
    skipped,    \* _cadence_skipped, one flag for every handler
    lockQ,      \* _rebalance_lock: its holder, then its waiters in FIFO order
    task,       \* each coroutine: where it is suspended and what it works on
    book,       \* the paper account: what it holds, how often it was wiped
    wiping,     \* the reset thread is between its two effects
    restarts    \* process restarts so far

vars == <<svc, frozen, boot, feed, sm, day, cache, alloc, saved, tripped, tried,
          done, logged, skipped, lockQ, task, book, wiping, restarts>>

feedVars == <<feed, sm>>
decisionVars == <<alloc, saved>>
cadenceVars == <<tried, done, logged, skipped>>
processVars == <<boot, day, restarts>>
accountVars == <<book, wiping>>

NoAlloc == [kind |-> "none", day |-> 0]
NoBars == [src |-> "none", day |-> 0]
Entered(pc, job) == [pc |-> pc, job |-> job, order |-> "none", wipes |-> 0]
IdleTask == Entered("idle", "none")

\* Points inside a stretch that owns the event loop.
Busy == {"close", "evaluate", "target", "decide", "execute", "post"}
LoopFree == \A t \in Tasks : task[t].pc \notin Busy
Safe == feed = "live" /\ sm = "monitoring"
Goto(t, p) == task' = [task EXCEPT ![t].pc = p]
HasLock(t) == lockQ # <<>> /\ Head(lockQ) = t

TypeOK ==
    /\ svc \in {"INITIALIZING", "RUNNING", "PAUSED", "STOPPED"}
    /\ boot \in {"feed", "warmup", "up", "down"}
    /\ feed \in {"live", "fallback"} /\ sm \in {"monitoring", "stale"}
    /\ day \in 1..MaxDay
    /\ cache \in [src : {"none", "empty", "live"}, day : 0..MaxDay]
    /\ alloc \in [kind : Kinds, day : 0..MaxDay]
    /\ saved \in [kind : Kinds, day : 0..MaxDay]
    /\ tripped \in BOOLEAN /\ frozen \in BOOLEAN
    /\ tried \in BOOLEAN /\ skipped \in BOOLEAN /\ wiping \in BOOLEAN
    /\ done \subseteq Cadences /\ logged \subseteq Cadences
    /\ lockQ \in Seq(Tasks)
    /\ task \in [Tasks -> [pc : Busy \cup {"idle", "lock", "warmup"}, job : Jobs,
                           order : Holdings \cup {"none"}, wipes : 0..MaxResets]]
    /\ book \in [held : Holdings, wipes : 0..MaxResets]
    /\ restarts \in 0..MaxRestarts

Init ==
    /\ svc = "INITIALIZING" /\ boot = "feed" /\ frozen = FALSE
    /\ feed = "fallback" /\ sm = "stale"
    /\ day = 1
    /\ cache = NoBars /\ alloc = NoAlloc /\ saved = NoAlloc
    /\ tripped = FALSE
    /\ tried = FALSE /\ done = {} /\ logged = {} /\ skipped = FALSE
    /\ lockQ = <<>>
    /\ task = [t \in Tasks |-> IdleTask]
    /\ book = [held |-> "safe", wipes |-> 0] /\ wiping = FALSE
    /\ restarts = 0

-----------------------------------------------------------------------------
(* The world: the relay feed and the calendar.                              *)

\* FeedManager and the client state machine move on their own coroutines.
FeedMoves ==
    /\ LoopFree /\ boot # "down"
    /\ \/ feed' = "live" /\ sm' = "monitoring" /\ ~Safe
       \/ feed' = "fallback" /\ feed = "live" /\ UNCHANGED sm
       \/ sm' = "stale" /\ sm = "monitoring" /\ UNCHANGED feed
       \/ feed' = "live" /\ feed = "fallback" /\ UNCHANGED sm
    /\ UNCHANGED <<svc, frozen, cache, tripped, lockQ, task>>
    /\ UNCHANGED <<decisionVars, cadenceVars, processVars, accountVars>>

\* A cadence handler is long finished when the next day's window opens.
NewDay ==
    /\ day < MaxDay /\ LoopFree
    /\ boot = "up" /\ task["scheduler"].pc = "idle"
    /\ day' = day + 1
    /\ tripped' = FALSE /\ tried' = FALSE /\ done' = {} /\ logged' = {}
    /\ UNCHANGED <<svc, frozen, boot, restarts, cache, skipped, lockQ, task>>
    /\ UNCHANGED <<feedVars, decisionVars, accountVars>>

-----------------------------------------------------------------------------
(* start(), shutdown() and a crash.                                         *)

\* Mutant: the warmup keeps whatever a request left behind on a dead feed.
FetchKeepingBars ==
    \E outcome \in {"bars", "error"} :
        /\ outcome = "error" => feed = "live"
        /\ feed' = IF outcome = "error" THEN "fallback" ELSE feed
        /\ cache' = [src |-> "live", day |-> day]
        /\ UNCHANGED sm

\* An awaited warmup: an error of the request has moved the feed to fallback,
\* a feed that is not live by now empties the cache whatever was returned, and
\* a failed save leaves the bars cached before.
Fetch ==
    \E outcome \in {"bars", "empty", "error", "unsaved"} :
        /\ outcome = "error" => feed = "live"
        /\ outcome = "unsaved" => StorageFaults
        /\ feed' = IF outcome = "error" THEN "fallback" ELSE feed
        /\ cache' = IF feed' # "live" THEN NoBars
                    ELSE IF outcome = "unsaved" THEN cache
                    ELSE [src |-> IF outcome = "bars" THEN "live" ELSE "empty",
                          day |-> day]
        /\ UNCHANGED sm

StartFeed ==
    /\ boot = "feed" /\ LoopFree
    /\ boot' = "warmup"
    /\ UNCHANGED <<svc, frozen, day, restarts, cache, tripped, lockQ, task>>
    /\ UNCHANGED <<feedVars, decisionVars, cadenceVars, accountVars>>

StartWarmup ==
    /\ boot = "warmup" /\ LoopFree
    /\ Fetch
    /\ boot' = "up" /\ svc' = "RUNNING"
    /\ UNCHANGED <<frozen, day, restarts, tripped, lockQ, task>>
    /\ UNCHANGED <<decisionVars, cadenceVars, accountVars>>

Shutdown ==
    /\ boot # "down" /\ LoopFree /\ restarts < MaxRestarts
    /\ svc' = "STOPPED" /\ boot' = "down" /\ frozen' = FALSE
    /\ UNCHANGED <<day, restarts, cache, tripped, lockQ, task>>
    /\ UNCHANGED <<feedVars, decisionVars, cadenceVars, accountVars>>

\* The scheduler task is cancelled at its await; leaving the async-with
\* releases the lock.  (A waiter leaves the queue when its turn comes.)
CancelScheduler ==
    /\ boot = "down" /\ LoopFree
    /\ task["scheduler"].pc \in {"lock", "warmup"}
    /\ IF task["scheduler"].job = "daily"
       THEN UNCHANGED lockQ
       ELSE HasLock("scheduler") /\ lockQ' = Tail(lockQ)
    /\ task' = [task EXCEPT !["scheduler"] = IdleTask]
    /\ UNCHANGED <<svc, frozen, cache, tripped>>
    /\ UNCHANGED <<feedVars, decisionVars, cadenceVars, processVars, accountVars>>

\* The process dies (or exits after shutdown()) and a new one runs the
\* constructor and the synchronous head of start().  What it reads back of the
\* cadences and of the decision is nothing if SQLite fails.
Restored(x, none) == {x} \cup (IF StorageFaults THEN {none} ELSE {})
Recent == day <= saved.day + MaxAge

Restart ==
    /\ restarts < MaxRestarts
    /\ restarts' = restarts + 1
    /\ svc' = "INITIALIZING" /\ boot' = "feed" /\ frozen' = FALSE
    /\ feed' = "fallback" /\ sm' = "stale"
    /\ cache' = NoBars
    /\ alloc' \in Restored(IF Recent THEN saved ELSE NoAlloc, NoAlloc)
    /\ tripped' = FALSE
    /\ tried' = FALSE /\ done' \in Restored(logged, {}) /\ skipped' = FALSE
    /\ lockQ' = <<>> /\ task' = [t \in Tasks |-> IdleTask]
    /\ wiping' = FALSE
    /\ UNCHANGED <<day, saved, logged, book>>

-----------------------------------------------------------------------------
(* Ends of a handler.                                                       *)

\* Mutant: a handler that raised counts as done.
FinishRegardless(t, ok) ==
    /\ task' = [task EXCEPT ![t] = IdleTask]
    /\ lockQ' = IF task[t].job = "daily" THEN lockQ ELSE Tail(lockQ)
    /\ IF t = "scheduler" /\ ~skipped'
       THEN /\ done' = done \cup {task[t].job}
            /\ \/ logged' = logged \cup {task[t].job}
               \/ StorageFaults /\ UNCHANGED logged
       ELSE UNCHANGED <<done, logged>>

\* A handler returns (ok) or raises, leaving its async-with.  The scheduler
\* counts a cadence as done unless it raised or the skip flag is up, then
\* tries to persist that; a failure to persist is only logged.
Finish(t, ok) ==
    /\ task' = [task EXCEPT ![t] = IdleTask]
    /\ lockQ' = IF task[t].job = "daily" THEN lockQ ELSE Tail(lockQ)
    /\ IF t = "scheduler" /\ ok /\ ~skipped'
       THEN /\ done' = done \cup {task[t].job}
            /\ \/ logged' = logged \cup {task[t].job}
               \/ StorageFaults /\ UNCHANGED logged
       ELSE UNCHANGED <<done, logged>>

\* Mutant: the skip is not flagged.
CloseSkipsQuietly(t) ==
    /\ UNCHANGED skipped
    /\ IF task[t].job = "daily"
       THEN Finish(t, TRUE)
       ELSE Goto(t, "target") /\ UNCHANGED <<lockQ, done, logged>>

\* A quiet return of _handle_daily_close.
CloseSkips(t) ==
    /\ skipped' = TRUE
    /\ IF task[t].job = "daily"
       THEN Finish(t, TRUE)
       ELSE Goto(t, "target") /\ UNCHANGED <<lockQ, done, logged>>

-----------------------------------------------------------------------------
(* Requests for work.                                                       *)

Enqueue(t, job) ==
    /\ LoopFree /\ task[t].pc = "idle" /\ boot # "down"
    /\ task' = [task EXCEPT ![t] = Entered("lock", job)]
    /\ lockQ' = Append(lockQ, t)

RequestRebalance(t) ==
    /\ t \in Requests
    /\ \E job \in {"manual", "forced"} : Enqueue(t, job)
    /\ UNCHANGED <<svc, frozen, cache, tripped>>
    /\ UNCHANGED <<feedVars, decisionVars, cadenceVars, processVars, accountVars>>

\* pause() or resume(): which of the two matters to nobody before it has the lock,
\* so that is left open until then (a reduction of the state space).
RequestToggle ==
    /\ Enqueue("toggle", "toggle")
    /\ UNCHANGED <<svc, frozen, cache, tripped>>
    /\ UNCHANGED <<feedVars, decisionVars, cadenceVars, processVars, accountVars>>

\* A tick in the window before the close tries DAILY_CLOSE ...
DispatchDaily ==
    /\ LoopFree /\ boot = "up"
    /\ task["scheduler"].pc = "idle" /\ "daily" \notin done
    /\ tried' = TRUE /\ skipped' = FALSE
    /\ task' = [task EXCEPT !["scheduler"] = Entered("close", "daily")]
    /\ UNCHANGED <<svc, frozen, cache, tripped, done, logged, lockQ>>
    /\ UNCHANGED <<feedVars, decisionVars, processVars, accountVars>>

\* Mutant: nothing says that a daily close came first.
DispatchWeeklyFirst ==
    /\ boot = "up" /\ day \in LastDays
    /\ "weekly" \notin done
    /\ Enqueue("scheduler", "weekly")
    /\ skipped' = FALSE
    /\ UNCHANGED <<svc, frozen, cache, tripped, tried, done, logged>>
    /\ UNCHANGED <<feedVars, decisionVars, processVars, accountVars>>

\* ... and then, on the week's last trading day, WEEKLY_REBALANCE.
DispatchWeekly ==
    /\ boot = "up" /\ day \in LastDays
    /\ "weekly" \notin done /\ (tried \/ "daily" \in done)
    /\ Enqueue("scheduler", "weekly")
    /\ skipped' = FALSE
    /\ UNCHANGED <<svc, frozen, cache, tripped, tried, done, logged>>
    /\ UNCHANGED <<feedVars, decisionVars, processVars, accountVars>>

\* _on_bar_received sees an SPY crash bar on the live feed with the flag down.
CrashBar ==
    /\ feed = "live" /\ ~tripped
    /\ tripped' = TRUE
    /\ Enqueue("breaker", "derisk")
    /\ UNCHANGED <<svc, frozen, cache>>
    /\ UNCHANGED <<feedVars, decisionVars, cadenceVars, processVars, accountVars>>

-----------------------------------------------------------------------------
(* The handlers, from the acquisition of the lock on.                       *)

Acquires(t) == LoopFree /\ task[t].pc = "lock" /\ HasLock(t)

Toggle ==
    /\ Acquires("toggle")
    /\ svc' \in {"PAUSED", "RUNNING"}
    /\ frozen' = (svc' = "PAUSED" /\ boot = "up")
    /\ task' = [task EXCEPT !["toggle"] = IdleTask] /\ lockQ' = Tail(lockQ)
    /\ UNCHANGED <<cache, tripped>>
    /\ UNCHANGED <<feedVars, decisionVars, cadenceVars, processVars, accountVars>>

\* Mutant: the weekly run forgets the operator's pause.
WeeklyRefusedUnsafe == ~Safe

WeeklyRefused == svc = "PAUSED" \/ ~Safe

\* Mutant: a refused weekly run ends without leaving its async-with.
StartWeeklyLeakingLock ==
    /\ Acquires("scheduler")
    /\ IF WeeklyRefused
       THEN skipped' = TRUE /\ task' = [task EXCEPT !["scheduler"] = IdleTask]
       ELSE /\ Goto("scheduler", IF alloc.kind = "none" THEN "close" ELSE "decide")
            /\ UNCHANGED skipped
    /\ UNCHANGED <<svc, frozen, cache, tripped, tried, done, logged, lockQ>>
    /\ UNCHANGED <<feedVars, decisionVars, processVars, accountVars>>

StartWeekly ==
    /\ Acquires("scheduler")
    /\ IF WeeklyRefused
       THEN skipped' = TRUE /\ Finish("scheduler", TRUE)
       ELSE /\ Goto("scheduler", IF alloc.kind = "none" THEN "close" ELSE "decide")
            /\ UNCHANGED <<skipped, done, logged, lockQ>>
    /\ UNCHANGED <<svc, frozen, cache, tripped, tried>>
    /\ UNCHANGED <<feedVars, decisionVars, processVars, accountVars>>

\* Mutant: an unforced request is not refused while paused.
ManualRefusedUnsafe(t) == ~Safe

\* REJECTED_PAUSED and REJECTED_UNSAFE_FEED.
ManualRefused(t) == (svc = "PAUSED" /\ task[t].job # "forced") \/ ~Safe

StartManual(t) ==
    /\ t \in Requests /\ Acquires(t)
    /\ IF ManualRefused(t)
       THEN task' = [task EXCEPT ![t] = IdleTask] /\ lockQ' = Tail(lockQ)
       ELSE Goto(t, "close") /\ UNCHANGED lockQ
    /\ UNCHANGED <<svc, frozen, cache, tripped>>
    /\ UNCHANGED <<feedVars, decisionVars, cadenceVars, processVars, accountVars>>

\* get_portfolio_state weighs the book at the prices of the moment: a position
\* may have left the drift band around zero since the last reading, or entered it.
Seen(held) == IF held = "safe" THEN {"safe"} ELSE {"risk", "residue"}

\* Mutant: STALE_DATA_HOLD is taken for weights to move to.
OrdersEvenOnHold(kind, held) ==
    CASE kind = "hold"                 -> {"hold"}
      [] kind = "risk"                 -> {"none", "risk", "residue"}
      [] kind \in {"shv", "emergency"} ->
            IF held = "risk" THEN {"residue", "safe"} ELSE {"none", held}

\* Orders are named by what they leave in the book: none for STALE_DATA_HOLD, and
\* each position within the drift band of its target is left alone.  A target
\* without risk assets therefore sells those outside the band around zero only; a
\* target with some may want them all within the band, or find no cash to buy.
Orders(kind, held) ==
    CASE kind = "hold"                 -> {"none"}
      [] kind = "risk"                 -> {"none", "risk", "residue"}
                                          \cup (IF held = "residue" THEN {} ELSE {"safe"})
      [] kind \in {"shv", "emergency"} ->
            IF held = "risk" THEN {"residue", "safe"} ELSE {"none", held}

\* Read the portfolio and compute t's orders: to be booked next, if there are any.
ComputeOrders(t, kind) ==
    \E held \in Seen(book.held) : \E o \in Orders(kind, held) :
        /\ book' = [book EXCEPT !.held = held]
        /\ task' = [task EXCEPT ![t].pc = IF o = "none" THEN "post" ELSE "execute",
                                ![t].order = o, ![t].wipes = book.wipes]

\* Mutant: the breaker trades on its target without recording it.
StartDeriskUnrecorded ==
    /\ Acquires("breaker")
    /\ ComputeOrders("breaker", "emergency")
    /\ UNCHANGED <<svc, frozen, cache, tripped, decisionVars, lockQ, wiping>>
    /\ UNCHANGED <<feedVars, cadenceVars, processVars>>

\* Mutant: the breaker obeys the operator's pause.
StartDeriskUnlessPaused ==
    /\ Acquires("breaker")
    /\ alloc' = [kind |-> "emergency", day |-> day]
    /\ ComputeOrders("breaker", IF svc = "PAUSED" THEN "hold" ELSE "emergency")
    /\ UNCHANGED <<svc, frozen, cache, tripped, saved, lockQ, wiping>>
    /\ UNCHANGED <<feedVars, cadenceVars, processVars>>

StartDerisk ==
    /\ Acquires("breaker")
    /\ alloc' = [kind |-> "emergency", day |-> day]
    /\ ComputeOrders("breaker", "emergency")
    /\ UNCHANGED <<svc, frozen, cache, tripped, saved, lockQ, wiping>>
    /\ UNCHANGED <<feedVars, cadenceVars, processVars>>

\* _handle_daily_close up to its only await.
CloseRefused(t) == (svc = "PAUSED" /\ task[t].job # "forced") \/ feed # "live"
Fresh == cache.src = "live" /\ cache.day = day

StartClose(t) ==
    /\ task[t].pc = "close"
    /\ IF CloseRefused(t)
       THEN CloseSkips(t)
       ELSE /\ Goto(t, IF Fresh THEN "evaluate" ELSE "warmup")
            /\ UNCHANGED <<skipped, done, logged, lockQ>>
    /\ UNCHANGED <<svc, frozen, cache, tripped, tried>>
    /\ UNCHANGED <<feedVars, decisionVars, processVars, accountVars>>

WarmupReturns(t) ==
    /\ task[t].pc = "warmup" /\ LoopFree
    /\ Fetch
    /\ Goto(t, "evaluate")
    /\ UNCHANGED <<svc, frozen, tripped, lockQ>>
    /\ UNCHANGED <<decisionVars, cadenceVars, processVars, accountVars>>

\* No SPY entry skips, an empty SPY list raises inside the signal engine.
NoEvaluation(t) ==
    /\ task[t].pc = "evaluate" /\ cache.src \in {"none", "empty"}
    /\ IF cache.src = "none" THEN CloseSkips(t) ELSE UNCHANGED skipped /\ Finish(t, FALSE)
    /\ UNCHANGED <<svc, frozen, cache, tripped, tried>>
    /\ UNCHANGED <<feedVars, decisionVars, processVars, accountVars>>

\* The row of a decision.  Once no restart is left that could read its kind, only
\* its day is kept (a reduction of the state space).
Row(a) == IF restarts < MaxRestarts THEN a ELSE [kind |-> "none", day |-> a.day]

\* The decision is taken in memory first; saving it (one transaction), and the
\* ledger writes after that, may raise.
Evaluate(t) ==
    /\ task[t].pc = "evaluate" /\ cache.src \notin {"none", "empty"}
    /\ \E kind \in IF Safe THEN {"risk", "shv"} ELSE {"hold"} :
        alloc' = [kind |-> kind, day |-> day]
    /\ UNCHANGED skipped
    /\ \/ /\ saved' = Row(alloc')
          /\ IF task[t].job = "daily"
             THEN Finish(t, TRUE)
             ELSE Goto(t, "target") /\ UNCHANGED <<lockQ, done, logged>>
       \/ /\ StorageFaults
          /\ saved' \in {saved, Row(alloc')}
          /\ Finish(t, FALSE)
    /\ UNCHANGED <<svc, frozen, cache, tripped, tried>>
    /\ UNCHANGED <<feedVars, processVars, accountVars>>

\* Mutant: a weekly run without an allocation returns without raising the flag.
CheckTargetQuietly(t) ==
    /\ task[t].pc = "target"
    /\ IF alloc.kind = "none"
       THEN UNCHANGED skipped /\ Finish(t, TRUE)
       ELSE Goto(t, "decide") /\ UNCHANGED <<skipped, lockQ, done, logged>>
    /\ UNCHANGED <<svc, frozen, cache, tripped, tried>>
    /\ UNCHANGED <<feedVars, decisionVars, processVars, accountVars>>

\* Back from _handle_daily_close: is there anything to trade on?
CheckTarget(t) ==
    /\ task[t].pc = "target"
    /\ IF alloc.kind = "none"
       THEN /\ skipped' = (skipped \/ task[t].job = "weekly")
            /\ Finish(t, TRUE)
       ELSE Goto(t, "decide") /\ UNCHANGED <<skipped, lockQ, done, logged>>
    /\ UNCHANGED <<svc, frozen, cache, tripped, tried>>
    /\ UNCHANGED <<feedVars, decisionVars, processVars, accountVars>>

\* Only the reset thread can have cleared the allocation since it was checked:
\* the rebalancer then raises.
Decide(t) ==
    /\ task[t].pc = "decide"
    /\ UNCHANGED skipped
    /\ \/ alloc.kind = "none" /\ Finish(t, FALSE) /\ UNCHANGED book
       \/ /\ alloc.kind # "none"
          /\ ComputeOrders(t, alloc.kind)
          /\ UNCHANGED <<lockQ, done, logged>>
    /\ UNCHANGED <<svc, frozen, cache, tripped, tried, wiping>>
    /\ UNCHANGED <<feedVars, decisionVars, processVars>>

\* One ledger transaction: every order is booked, or none.
Execute(t) ==
    /\ task[t].pc = "execute"
    /\ UNCHANGED skipped
    /\ \/ /\ book' = [book EXCEPT !.held = task[t].order]
          /\ Goto(t, "post") /\ UNCHANGED <<lockQ, done, logged>>
       \/ /\ StorageFaults \/ boot = "down"
          /\ Finish(t, FALSE) /\ UNCHANGED book
    /\ UNCHANGED <<svc, frozen, cache, tripped, tried, wiping>>
    /\ UNCHANGED <<feedVars, decisionVars, processVars>>

\* Save the orders, remember the weights, notify, audit.  A weekly run, and a
\* manual one with orders, dereferences _latest_allocation here.
NeedsAlloc(t) ==
    task[t].job = "weekly" \/ (task[t].job # "derisk" /\ task[t].order # "none")

Post(t) ==
    /\ task[t].pc = "post"
    /\ UNCHANGED skipped
    /\ \/ (NeedsAlloc(t) => alloc.kind # "none") /\ Finish(t, TRUE)
       \/ (NeedsAlloc(t) /\ alloc.kind = "none") /\ Finish(t, FALSE)
       \/ (StorageFaults \/ boot = "down") /\ task[t].order # "none" /\ Finish(t, FALSE)
    /\ UNCHANGED <<svc, frozen, cache, tripped, tried>>
    /\ UNCHANGED <<feedVars, decisionVars, processVars, accountVars>>

-----------------------------------------------------------------------------
(* reset_to_pristine, in a worker thread: the ledger first, memory after.   *)

ResetAccount ==
    /\ ~wiping /\ book.wipes < MaxResets /\ boot # "down"
    /\ book' = [held |-> "safe", wipes |-> book.wipes + 1]
    /\ wiping' = TRUE
    /\ UNCHANGED <<svc, frozen, cache, tripped, lockQ, task>>
    /\ UNCHANGED <<feedVars, decisionVars, cadenceVars, processVars>>

ResetMemory ==
    /\ wiping
    /\ wiping' = FALSE /\ tripped' = FALSE /\ alloc' = NoAlloc
    /\ UNCHANGED <<svc, frozen, cache, saved, lockQ, task, book>>
    /\ UNCHANGED <<feedVars, cadenceVars, processVars>>

-----------------------------------------------------------------------------

\* The event loop resumes the coroutine t.
Resumes(t) ==
    \/ t = "toggle" /\ Toggle
    \/ t = "scheduler" /\ StartWeekly
    \/ t = "breaker" /\ StartDerisk
    \/ StartManual(t)
    \/ StartClose(t) \/ WarmupReturns(t) \/ NoEvaluation(t) \/ Evaluate(t)
    \/ CheckTarget(t) \/ Decide(t) \/ Execute(t) \/ Post(t)

Proceeds == \E t \in Tasks : Resumes(t)

Asks == \/ RequestToggle \/ DispatchDaily \/ DispatchWeekly \/ CrashBar
        \/ \E t \in Requests : RequestRebalance(t)

Next == \/ FeedMoves \/ NewDay
        \/ StartFeed \/ StartWarmup \/ Shutdown \/ CancelScheduler \/ Restart
        \/ Asks \/ Proceeds
        \/ ResetAccount \/ ResetMemory

Spec == Init /\ [][Next]_vars

\* The event loop serves its ready coroutines in turn, so one that is ready
\* again and again between the stretches of others is resumed (strong
\* fairness); the lock is FIFO, and requests to the relay end because they have
\* timeouts and bounded retries.  Nothing is assumed of the feed, of operators
\* or of the market.
FairSpec ==
    /\ Spec
    /\ \A t \in Tasks : SF_vars(Resumes(t))
    /\ SF_vars(CancelScheduler)

-----------------------------------------------------------------------------
(* Properties.                                                              *)

\* The step that books t's orders, and a step of the running process.
Fills(t) == task[t].pc = "execute" /\ task'[t].pc = "post"
Running == restarts' = restarts

\* The weekly rebalance fails closed: whatever the feed and the operator did
\* while it waited for the lock or for bars, it books orders only on a live,
\* monitored feed and never while the operator's pause is in force.
ScheduledTradesFailClosed ==
    [][Fills("scheduler") => Safe /\ svc # "PAUSED"]_vars

\* pause(): once the started service has granted it, no unforced manual
\* rebalance trades until resume(), requests queued before it included.  Only a
\* shutdown ends it too.  (A pause granted while start() is still at its awaits is
\* not covered: start() ends by setting RUNNING over it.)
PauseFreezesManual ==
    [][\A t \in Requests : Fills(t) /\ task[t].job = "manual" => ~frozen]_vars

\* "Never evaluates signals unless the live relay feed is up": a new decision
\* is taken on a live feed although bars are awaited before it, and one that
\* can be traded on only while the feed is also monitored.
EvaluatesOnLiveFeed ==
    [][Running /\ alloc' # alloc /\ alloc'.kind \in {"risk", "shv", "hold"}
        => feed = "live" /\ (alloc'.kind # "hold" => Safe)]_vars

\* Orders always serve the decision in force when they are booked: no handler
\* trades on a target that the breaker or another handler has replaced (an
\* account wiped since the orders were computed is excepted, the code lets it
\* be traded on).
FillsFollowLatestDecision ==
    [][\A t \in Tasks : 
        Fills(t) /\ alloc.kind # "none" /\ task[t].wipes = book.wipes =>
            task[t].order \in Orders(alloc.kind, book.held)]_vars

\* DAILY_CLOSE counts as done only on days that have a decision in storage, for
\* a restart to find: through skips, failures, retries and restarts.
DailyDoneMeansEvaluated == "daily" \in done => saved.day = day

\* Skips, failures, cancellations, restarts and lost records under any load of
\* requests leave the cadences within CadenceContract: none is run again once
\* done, a restart knows those recorded, the weekly rebalance comes after an
\* attempt at the daily close.
Contract == INSTANCE CadenceContract WITH
    current <- task["scheduler"].job,
    seen <- tried \/ "daily" \in done
ImplementsContract == Contract!Spec

\* WEEKLY_REBALANCE counts as done only with a decision in force and with the
\* orders computed for it, if any, in the book; under a target without risk
\* assets no risk position is left outside the drift band around zero.  (An
\* account wiped since its orders were computed is excepted.)
WeeklyDoneMeansOnTarget ==
    [][Running /\ "weekly" \notin done /\ "weekly" \in done' =>
        /\ alloc.kind # "none"
        /\ task["scheduler"].wipes = book.wipes =>
            /\ task["scheduler"].order \in {"none", book.held}
            /\ alloc.kind \in {"shv", "emergency"} => book.held # "risk"]_vars

\* The emergency de-risk is not optional: when the breaker coroutine ends, no
\* risk position is left outside the drift band around zero, paused or not,
\* whoever traded while it waited.
BreakerEndsDerisked ==
    [][Running /\ task["breaker"].pc # "idle" /\ task'["breaker"].pc = "idle"
        => book'.held # "risk"]_vars

\* No handler waits for ever: every operator request, cadence and de-risk that
\* asked for the lock ends.
HandlersFinish == \A t \in Tasks : task[t].pc # "idle" ~> task[t].pc = "idle"

(* What the repository says of the program and the code does not keep.      *)

\* "force may override PAUSE, never a dead/synthetic feed" (service.py:778) and
\* "Synthetic ticks must never liquidate the account" (service.py:623): neither
\* a manual rebalance nor the breaker books orders at fallback prices.
SyntheticPricesNeverTrade ==
    [][\A t \in Requests \cup {"breaker"} : Fills(t) => feed = "live"]_vars
=============================================================================

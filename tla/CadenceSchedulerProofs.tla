----------------------- MODULE CadenceSchedulerProofs -----------------------
(***************************************************************************)
(* What CadenceScheduler promises for every calendar, every number of days *)
(* and restarts, any windows, retry intervals and lengths of handlers, and *)
(* with or without storage faults; and, of the calendar it runs on, that   *)
(* the cadences keep the exchange's hours if the calendar is the           *)
(* exchange's.                                                             *)
(***************************************************************************)
EXTENDS CalendarScheduler, TLAPS

\* How late after the tick's clock reading a cadence's handler may start: the
\* handlers before it have run.
Late(c) == CASE c = "monthly" -> 0 [] c = "daily" -> MaxRun [] c = "weekly" -> MaxRun + MaxRun

\* Between a tick's reading and its end, only handlers let the clock move.
TickInv ==
    pc # "sleep" =>
        /\ up /\ day \in TradingDays /\ tickAt <= minute
        /\ ~running => minute <= tickAt + Late(pc)

\* A running handler was due at the reading, and its length is bounded.
RunInv ==
    running =>
        /\ pc # "sleep" /\ Scheduled(pc) /\ last[pc] # day
        /\ attempt[pc].minute <= tickAt + Late(pc)
        /\ minute <= attempt[pc].minute + MaxRun

\* Nothing recorded or planned is of a day to come, and no retry time is
\* further away than the interval.
PastInv ==
    \A c \in Cadences :
        /\ last[c] <= day /\ saved[c] <= day /\ retryAt[c].day <= day
        /\ retryAt[c].day = day =>
            /\ retryAt[c].minute <= minute + Retry
            /\ pc # "sleep" => retryAt[c].minute <= tickAt + Retry

\* Once the tick is past it, a daily close in its window is done or has its
\* next attempt planned.
DailySeen ==
    (/\ up /\ day \in TradingDays /\ InWindow("daily", tickAt) /\ last["daily"] # day
     /\ (pc = "weekly" \/ (pc = "sleep" /\ ticked))) =>
        /\ retryAt["daily"].day = day
        /\ tickAt < retryAt["daily"].minute /\ retryAt["daily"].minute <= tickAt + Retry

SchedulerInv == TypeOK /\ TickInv /\ RunInv /\ PastInv /\ DailySeen
-----------------------------------------------------------------------------

\* The ends of the types' intervals belong to them.
LEMMA Bounds ==
    /\ 0 \in 0..MaxDay /\ 1 \in Days /\ 0 \in 0..DayEnd /\ 0 \in 0..MaxRestarts
    /\ Never \in Times /\ Never.day = 0
    /\ Days \subseteq 0..MaxDay /\ 0 \notin Days
  BY SchedulerAssumption DEF Days, Times, Never

LEMMA InvInit == Init => SchedulerInv
  <1> SUFFICES ASSUME Init PROVE SchedulerInv
    OBVIOUS
  <1> USE SchedulerAssumption DEF Init
  <1>1. TypeOK
    <2>1. /\ last \in [Cadences -> 0..MaxDay] /\ saved \in [Cadences -> 0..MaxDay]
          /\ retryAt \in [Cadences -> Times] /\ attempt \in [Cadences -> Times]
      BY Bounds
    <2> QED BY <2>1, Bounds DEF TypeOK
  <1>2. TickInv /\ RunInv
    BY DEF TickInv, RunInv
  <1>3. PastInv
    BY DEF PastInv, Never, Cadences
  <1>4. DailySeen
    BY DEF DailySeen
  <1> QED BY <1>1, <1>2, <1>3, <1>4 DEF SchedulerInv

\* A handler that runs ends before the day does: it started in a window, late by
\* at most two handlers.
LEMMA RunsEndToday ==
    ASSUME SchedulerInv, running
    PROVE  attempt[pc].minute + MaxRun <= DayEnd /\ tickAt + Retry <= DayEnd
  <1>1. pc \in Cadences /\ day \in TradingDays /\ tickAt < Close[day]
    BY DEF SchedulerInv, RunInv, TickInv, TypeOK, Scheduled, InWindow
  <1>2. Close[day] + Retry + 3 * MaxRun <= DayEnd
    BY <1>1, SchedulerAssumption
  <1>3. attempt[pc].minute <= tickAt + Late(pc) /\ attempt[pc].minute \in Nat
    BY <1>1 DEF SchedulerInv, RunInv, TypeOK, Times
  <1>4. Late(pc) \in Nat /\ Late(pc) <= 2 * MaxRun
    BY <1>1, SchedulerAssumption DEF Late, Cadences
  <1>5. /\ Close[day] \in Nat /\ tickAt \in Nat /\ MaxRun \in Nat
        /\ Retry \in Nat /\ DayEnd \in Nat
    BY <1>1, SchedulerAssumption DEF SchedulerInv, TypeOK, Days
  <1> QED BY <1>1, <1>2, <1>3, <1>4, <1>5

LEMMA TickStep ==
    ASSUME SchedulerInv, Tick
    PROVE  SchedulerInv'
  <1> USE DEF Tick, clockVars
  <1>1. TypeOK'
    BY DEF SchedulerInv, TypeOK, Cadences
  <1>2. TickInv'
    BY SchedulerAssumption DEF SchedulerInv, TypeOK, TickInv, Late
  <1>3. RunInv'
    BY DEF SchedulerInv, RunInv
  <1>4. PastInv'
    BY DEF SchedulerInv, PastInv
  <1>5. DailySeen'
    BY DEF DailySeen
  <1> QED BY <1>1, <1>2, <1>3, <1>4, <1>5 DEF SchedulerInv

LEMMA PassStep ==
    ASSUME NEW c \in Cadences, SchedulerInv, Pass(c)
    PROVE  SchedulerInv'
  <1> USE DEF Pass, clockVars, Cadences
  <1>1. TypeOK'
    BY DEF SchedulerInv, TypeOK, After
  <1>2. TickInv'
    BY SchedulerAssumption DEF SchedulerInv, TypeOK, TickInv, Late, After
  <1>3. RunInv'
    BY DEF RunInv
  <1>4. PastInv'
    BY DEF SchedulerInv, PastInv
  <1>5. DailySeen'
    <2> SUFFICES ASSUME up, day \in TradingDays, InWindow("daily", tickAt), last["daily"] # day,
                        pc = "daily" \/ pc = "weekly"
                 PROVE  /\ retryAt["daily"].day = day
                        /\ tickAt < retryAt["daily"].minute
                        /\ retryAt["daily"].minute <= tickAt + Retry
      BY DEF DailySeen, After, InWindow, Opens, SchedulerInv, TickInv
    <2>1. CASE pc = "weekly"
      BY <2>1 DEF SchedulerInv, DailySeen
    <2>2. CASE pc = "daily"
      <3>1. Waits("daily")
        BY <2>2 DEF Due, Scheduled
      <3> QED BY <2>2, <3>1 DEF Waits, SchedulerInv, PastInv
    <2> QED BY <2>1, <2>2
  <1> QED BY <1>1, <1>2, <1>3, <1>4, <1>5 DEF SchedulerInv

LEMMA DispatchStep ==
    ASSUME NEW c \in Cadences, SchedulerInv, Dispatch(c)
    PROVE  SchedulerInv'
  <1> USE DEF Dispatch, clockVars, Cadences
  <1>0. day \in 0..MaxDay /\ minute \in 0..DayEnd /\ minute <= minute + MaxRun
    BY SchedulerAssumption DEF SchedulerInv, TypeOK, Days
  <1>1. TypeOK'
    BY <1>0 DEF SchedulerInv, TypeOK, Times
  <1>2. TickInv'
    BY DEF SchedulerInv, TickInv, Late
  <1>3. RunInv'
    BY <1>0 DEF SchedulerInv, TypeOK, TickInv, RunInv, Due, Scheduled, InWindow, Opens, Late
  <1>4. PastInv'
    BY DEF SchedulerInv, PastInv
  <1>5. DailySeen'
    BY DEF SchedulerInv, DailySeen, InWindow, Opens
  <1> QED BY <1>1, <1>2, <1>3, <1>4, <1>5 DEF SchedulerInv

\* What both ends of a handler have in common.
LEMMA HandlerEnds ==
    ASSUME NEW c \in Cadences, SchedulerInv, pc = c, running, running' = FALSE,
           pc' = After(c), UNCHANGED <<clockVars, ticked, tickAt, attempt>>
    PROVE  TickInv' /\ RunInv' /\ pc' \in Cadences \cup {"sleep"}
  <1> USE DEF clockVars, Cadences
  <1>1. minute <= tickAt + Late(c) + MaxRun
    BY SchedulerAssumption DEF SchedulerInv, TypeOK, Times, RunInv, Late
  <1>2. TickInv'
    BY <1>1, SchedulerAssumption DEF SchedulerInv, TypeOK, TickInv, Late, After
  <1> QED BY <1>2 DEF RunInv, After

LEMMA CompletesStep ==
    ASSUME NEW c \in Cadences, SchedulerInv, Completes(c)
    PROVE  SchedulerInv'
  <1> USE DEF Completes
  <1>1. TickInv' /\ RunInv' /\ pc' \in Cadences \cup {"sleep"}
    BY HandlerEnds
  <1>2. day \in 0..MaxDay /\ Never \in Times /\ Never.day = 0 /\ day # 0
    BY SchedulerAssumption DEF SchedulerInv, TypeOK, Days, Never, Times
  <1>3. TypeOK'
    BY <1>1, <1>2 DEF SchedulerInv, TypeOK, clockVars
  <1>4. PastInv'
    BY <1>2 DEF SchedulerInv, TypeOK, PastInv, clockVars, After, Cadences
  <1>5. DailySeen'
    BY DEF SchedulerInv, TypeOK, TickInv, DailySeen, InWindow, Opens, After, clockVars, Cadences
  <1> QED BY <1>1, <1>3, <1>4, <1>5 DEF SchedulerInv

LEMMA FailsStep ==
    ASSUME NEW c \in Cadences, SchedulerInv, Fails(c)
    PROVE  SchedulerInv'
  <1> USE DEF Fails
  <1> DEFINE next == [day |-> day, minute |-> tickAt + Retry]
  <1>1. TickInv' /\ RunInv' /\ pc' \in Cadences \cup {"sleep"}
    BY HandlerEnds
  <1>2. /\ next \in Times /\ next.minute < Close[next.day] + Retry
        /\ tickAt < tickAt + Retry /\ tickAt <= minute
        /\ next.minute = tickAt + Retry /\ next.minute <= minute + Retry /\ next.day = day
    <2>1. day \in 1..MaxDay /\ minute \in Nat /\ tickAt \in Nat /\ Close[day] \in Nat
          /\ Retry \in Nat \ {0} /\ DayEnd \in Nat /\ MaxDay \in Nat
      BY SchedulerAssumption DEF SchedulerInv, TypeOK, Days
    <2>2. tickAt < Close[day] /\ tickAt <= minute
      BY DEF SchedulerInv, RunInv, TickInv, Scheduled, InWindow
    <2> QED BY <2>1, <2>2, RunsEndToday DEF Times
  <1>3. retryAt' = [retryAt EXCEPT ![c] = next]
    OBVIOUS
  <1> HIDE DEF next
  <1>4. TypeOK'
    BY <1>1, <1>2, <1>3 DEF SchedulerInv, TypeOK, clockVars
  <1>5. PastInv'
    <2> SUFFICES ASSUME NEW x \in Cadences
                 PROVE  /\ last[x] <= day /\ saved[x] <= day /\ retryAt'[x].day <= day
                        /\ retryAt'[x].day = day =>
                            retryAt'[x].minute <= minute + Retry /\ retryAt'[x].minute <= tickAt + Retry
      BY DEF PastInv, clockVars
    <2>1. retryAt'[x] = IF x = c THEN next ELSE retryAt[x]
      BY <1>3 DEF SchedulerInv, TypeOK
    <2>2. /\ last[x] <= day /\ saved[x] <= day /\ retryAt[x].day <= day
          /\ retryAt[x].day = day =>
                retryAt[x].minute <= minute + Retry /\ retryAt[x].minute <= tickAt + Retry
      BY DEF SchedulerInv, PastInv, Cadences
    <2>3. day <= day
      BY DEF SchedulerInv, TypeOK, Days
    <2>4. tickAt + Retry <= tickAt + Retry
      BY SchedulerAssumption DEF SchedulerInv, TypeOK
    <2> HIDE DEF Fails
    <2> QED BY <1>2, <2>1, <2>2, <2>3, <2>4
  <1>6. DailySeen'
    <2>1. retryAt'["daily"] = IF c = "daily" THEN next ELSE retryAt["daily"]
      BY <1>3 DEF SchedulerInv, TypeOK, Cadences
    <2>2. c = "daily" \/ (pc' # "weekly" /\ (pc' = "sleep" => pc = "weekly"))
      BY DEF After, Cadences
    <2>3. tickAt + Retry <= tickAt + Retry
      BY SchedulerAssumption DEF SchedulerInv, TypeOK
    <2>4. UNCHANGED <<day, minute, bootAt, up, restarts, tickAt, last>>
      BY DEF clockVars
    <2>5. InWindow("daily", tickAt)' => InWindow("daily", tickAt)
      BY <2>4 DEF InWindow, Opens
    <2> HIDE DEF Fails
    <2> QED BY <1>2, <2>1, <2>2, <2>3, <2>4, <2>5 DEF SchedulerInv, DailySeen
  <1> QED BY <1>1, <1>4, <1>5, <1>6 DEF SchedulerInv

LEMMA MinuteStep ==
    ASSUME SchedulerInv, Minute
    PROVE  SchedulerInv'
  <1> USE DEF Minute
  <1>1. TypeOK'
    <2>1. minute' \in 0..DayEnd
      BY SchedulerAssumption DEF SchedulerInv, TypeOK
    <2> QED BY <2>1 DEF SchedulerInv, TypeOK
  <1>2. TickInv' /\ RunInv'
    <2>1. pc # "sleep" => running /\ minute < attempt[pc].minute + MaxRun
      BY DEF MayPass, SchedulerInv, TickInv
    <2>2. minute \in Nat /\ tickAt \in Nat /\ MaxRun \in Nat
          /\ \A c \in Cadences : attempt[c].minute \in Nat
      BY SchedulerAssumption DEF SchedulerInv, TypeOK, Times
    <2>3. pc \in Cadences \cup {"sleep"}
      BY DEF SchedulerInv, TypeOK
    <2> QED BY <2>1, <2>2, <2>3 DEF SchedulerInv, TickInv, RunInv, Scheduled, InWindow, Opens
  <1>3. PastInv'
    BY SchedulerAssumption DEF SchedulerInv, TypeOK, Times, PastInv
  <1>4. DailySeen'
    BY DEF SchedulerInv, DailySeen, InWindow, Opens
  <1> QED BY <1>1, <1>2, <1>3, <1>4 DEF SchedulerInv

\* A day ends with nothing running.
LEMMA NothingAtMidnight ==
    ASSUME SchedulerInv, Midnight
    PROVE  ~running /\ pc = "sleep"
  <1>1. ~running
    <2> SUFFICES ASSUME running PROVE FALSE
      OBVIOUS
    <2>1. pc # "sleep" /\ up
      BY DEF SchedulerInv, RunInv, TickInv
    <2>2. minute < attempt[pc].minute + MaxRun
      BY <2>1 DEF Midnight, MayPass
    <2>3. attempt[pc].minute \in Nat /\ MaxRun \in Nat /\ DayEnd \in Nat
      BY <2>1, SchedulerAssumption DEF SchedulerInv, TypeOK, Times
    <2> QED BY <2>2, <2>3, RunsEndToday DEF Midnight
  <1> QED BY <1>1 DEF Midnight, MayPass, SchedulerInv, TickInv

LEMMA MidnightStep ==
    ASSUME SchedulerInv, Midnight
    PROVE  SchedulerInv'
  <1> USE NothingAtMidnight DEF Midnight
  <1>1. TypeOK'
    <2>1. day' \in Days
      BY SchedulerAssumption DEF SchedulerInv, TypeOK, Days
    <2> QED BY <2>1, Bounds DEF SchedulerInv, TypeOK
  <1>2. TickInv' /\ RunInv' /\ DailySeen'
    BY DEF TickInv, RunInv, DailySeen
  <1>3. PastInv'
    BY SchedulerAssumption DEF SchedulerInv, TypeOK, Days, Times, PastInv
  <1> QED BY <1>1, <1>2, <1>3 DEF SchedulerInv

LEMMA DiesStep ==
    ASSUME SchedulerInv, Dies
    PROVE  SchedulerInv'
  <1> USE DEF Dies
  <1>1. TypeOK'
    <2>1. restarts' \in 0..MaxRestarts
      BY SchedulerAssumption DEF SchedulerInv, TypeOK
    <2> QED BY <2>1, Bounds DEF SchedulerInv, TypeOK
  <1>2. TickInv' /\ RunInv' /\ DailySeen'
    BY DEF TickInv, RunInv, DailySeen
  <1>3. PastInv'
    BY DEF SchedulerInv, PastInv
  <1> QED BY <1>1, <1>2, <1>3 DEF SchedulerInv

LEMMA BootsStep ==
    ASSUME SchedulerInv, Boots
    PROVE  SchedulerInv'
  <1> USE DEF Boots
  <1>1. Never \in Times /\ Never.day = 0 /\ day # 0 /\ day \in Nat /\ MaxDay \in Nat
    BY SchedulerAssumption DEF SchedulerInv, TypeOK, Days, Never, Times
  <1>2. pc = "sleep" /\ ~running
    BY DEF SchedulerInv, TickInv, RunInv
  <1>3. TypeOK'
    <2>1. last' \in [Cadences -> 0..MaxDay]
      BY Bounds DEF SchedulerInv, TypeOK
    <2>2. retryAt' \in [Cadences -> Times] /\ \A c \in Cadences : retryAt'[c] = Never
      BY Bounds
    <2> QED BY <2>1, <2>2 DEF SchedulerInv, TypeOK
  <1>4. TickInv' /\ RunInv' /\ DailySeen'
    BY <1>2 DEF TickInv, RunInv, DailySeen
  <1>5. PastInv'
    BY <1>1 DEF SchedulerInv, TypeOK, PastInv
  <1> QED BY <1>3, <1>4, <1>5 DEF SchedulerInv

LEMMA InvStep == SchedulerInv /\ [Next]_vars => SchedulerInv'
  <1> SUFFICES ASSUME SchedulerInv, [Next]_vars PROVE SchedulerInv'
    OBVIOUS
  <1>1. CASE UNCHANGED vars
    BY <1>1 DEF vars, SchedulerInv, TypeOK, TickInv, RunInv, PastInv, DailySeen, Scheduled,
                InWindow, Opens
  <1>2. CASE Next
    BY <1>2, TickStep, PassStep, DispatchStep, CompletesStep, FailsStep, MinuteStep,
       MidnightStep, DiesStep, BootsStep DEF Next
  <1> QED BY <1>1, <1>2

-----------------------------------------------------------------------------
(* The steps of CadenceContract                                            *)

LEMMA ContractInit == Init => Contract!Init
  <1> SUFFICES ASSUME Init PROVE Contract!Init
    OBVIOUS
  <1>1. Today(last) = {} /\ Today(saved) = {}
    BY DEF Init, Today
  <1>2. last["daily"] # day /\ retryAt["daily"].day # day
    BY DEF Init, Never, Cadences
  <1> QED BY <1>1, <1>2 DEF Init, Contract!Init

\* A tick's reading, a cadence passed over and a minute are no steps of it.
LEMMA Stutters ==
    ASSUME SchedulerInv, Tick \/ Minute \/ \E c \in Cadences : Pass(c)
    PROVE  UNCHANGED Contract!vars
  <1>1. UNCHANGED <<day, up, running, last, saved, retryAt>>
    BY DEF Tick, Minute, Pass, clockVars
  <1>2. running => pc' = pc
    BY DEF Tick, Minute, Pass, SchedulerInv, RunInv
  <1>3. UNCHANGED <<IF running THEN pc ELSE "none", running /\ pc = "daily">>
    BY <1>1, <1>2
  <1>4. UNCHANGED <<Today(last), Today(saved)>>
    BY <1>1 DEF Today
  <1> QED BY <1>1, <1>3, <1>4 DEF Contract!vars

\* Weekly and daily windows are the same, and weekly is considered after daily.
LEMMA ContractDispatch ==
    ASSUME NEW c \in Cadences, SchedulerInv, Dispatch(c)
    PROVE  Contract!Dispatch(c)
  <1>1. c = "weekly" => /\ day \in LastDays
                        /\ last["daily"] = day \/ retryAt["daily"].day = day
    BY DEF Dispatch, Due, Scheduled, InWindow, Opens, SchedulerInv, TickInv, DailySeen
  <1>2. up /\ up' /\ pc = c /\ pc' = c /\ ~running /\ running' /\ c \notin Today(last)
    BY DEF Dispatch, clockVars, SchedulerInv, TickInv, Today, Due, Cadences
  <1>3. UNCHANGED <<day, last, saved, retryAt, Today(last), Today(saved)>>
    BY DEF Dispatch, clockVars, Today
  <1> QED BY <1>1, <1>2, <1>3 DEF Contract!Dispatch

LEMMA ContractCompletes ==
    ASSUME NEW c \in Cadences, SchedulerInv, Completes(c)
    PROVE  Contract!Completes(c)
  <1>1. up /\ up' /\ pc = c /\ running /\ ~running' /\ day' = day
    BY DEF Completes, clockVars, SchedulerInv, TickInv, Cadences
  <1>2. last' = [last EXCEPT ![c] = day] /\ last \in [Cadences -> 0..MaxDay]
        /\ saved \in [Cadences -> 0..MaxDay] /\ retryAt \in [Cadences -> Times]
    BY DEF Completes, SchedulerInv, TypeOK
  <1>3. Today(last)' = Today(last) \cup {c}
    BY <1>1, <1>2 DEF Today
  <1>4. \/ Today(saved)' = Today(saved) \cup {c}
        \/ StorageFaults /\ UNCHANGED Today(saved)
    BY <1>1, <1>2 DEF Completes, Today
  <1>5. c = "daily" => last'["daily"] = day
    BY <1>2
  <1>6. c # "daily" => last'["daily"] = last["daily"] /\ retryAt'["daily"] = retryAt["daily"]
    BY <1>2 DEF Completes, Cadences
  <1> QED BY <1>1, <1>3, <1>4, <1>5, <1>6 DEF Contract!Completes

LEMMA ContractFails ==
    ASSUME NEW c \in Cadences, SchedulerInv, Fails(c)
    PROVE  Contract!Fails(c)
  <1>1. up /\ up' /\ pc = c /\ running /\ ~running' /\ day' = day /\ UNCHANGED <<last, saved>>
    BY DEF Fails, clockVars, SchedulerInv, TickInv, Cadences
  <1>2. UNCHANGED <<Today(last), Today(saved)>>
    BY <1>1 DEF Today
  <1>3. c = "daily" => retryAt'["daily"].day = day
    BY DEF Fails, SchedulerInv, TypeOK
  <1>4. c # "daily" => retryAt'["daily"] = retryAt["daily"]
    BY DEF Fails, SchedulerInv, TypeOK, Cadences
  <1> QED BY <1>1, <1>2, <1>3, <1>4 DEF Contract!Fails

\* Nothing that was done or planned is of the new day.
LEMMA ContractNewDay ==
    ASSUME SchedulerInv, Midnight
    PROVE  Contract!NewDay
  <1>1. ~running /\ ~running' /\ day' = day + 1 /\ UNCHANGED <<up, last, saved, retryAt>>
    BY NothingAtMidnight DEF Midnight
  <1>2. \A c \in Cadences : last[c] # day' /\ saved[c] # day' /\ retryAt[c].day # day'
    BY <1>1 DEF SchedulerInv, TypeOK, Days, Times, PastInv
  <1>3. Today(last)' = {} /\ Today(saved)' = {}
    BY <1>1, <1>2 DEF Today
  <1>4. "daily" \in Cadences
    BY DEF Cadences
  <1> QED BY <1>1, <1>2, <1>3, <1>4 DEF Contract!NewDay

\* The process ends knowing what it recorded, and starts from it or from nothing.
LEMMA ContractRestart ==
    ASSUME SchedulerInv, Dies \/ Boots
    PROVE  Contract!Restart
  <1>1. /\ "daily" \in Cadences /\ day' = day /\ saved' = saved
        /\ ~running' /\ Today(saved)' = Today(saved)
    BY DEF Dies, Boots, Cadences, Today, SchedulerInv, RunInv, TickInv
  <1>2. CASE Dies
    <2>1. saved["daily"] = day <=> "daily" \in Today(saved)
      BY <1>1 DEF Today
    <2> QED BY <1>1, <1>2, <2>1 DEF Dies, Contract!Restart
  <1>3. CASE Boots
    <2>1. Never.day # day /\ day # 0
      BY Bounds DEF SchedulerInv, TypeOK
    <2>2. Today(last)' = Today(saved) \/ (StorageFaults /\ Today(last)' = {})
      <3>1. CASE last' = saved
        BY <1>1, <3>1 DEF Today
      <3>2. CASE StorageFaults /\ last' = [c \in Cadences |-> 0]
        <4>1. \A c \in Cadences : last'[c] # day'
          BY <1>1, <2>1, <3>2
        <4> QED BY <3>2, <4>1 DEF Today
      <3> QED BY <1>3, <3>1, <3>2 DEF Boots
    <2>3. (last["daily"] = day)' = ("daily" \in Today(last)')
      BY <1>1 DEF Today
    <2>4. (retryAt["daily"].day # day)' /\ ~(running /\ pc = "daily")'
      BY <1>1, <1>3, <2>1 DEF Boots
    <2>5. up' /\ ~up /\ pc' = pc
      BY <1>3 DEF Boots
    <2>6. (\/ last["daily"] = day \/ retryAt["daily"].day = day
           \/ running /\ pc = "daily")' = ("daily" \in Today(last)')
      <3>1. (\/ last["daily"] = day \/ retryAt["daily"].day = day
             \/ running /\ pc = "daily")' = (last["daily"] = day)'
        BY <2>4, Zenon
      <3> QED BY <2>3, <3>1, Zenon
    <2> QED BY <1>1, <2>2, <2>5, <2>6 DEF Contract!Restart
  <1> QED BY <1>2, <1>3

-----------------------------------------------------------------------------
(* Theorems                                                                *)

\* The scheduler's state keeps its types; in particular no retry time lies
\* further past the close than the retry interval (tick, _run_cadence).
THEOREM SchedulerTypeCorrect == Spec => []TypeOK
  BY InvInit, InvStep, PTL DEF Spec, SchedulerInv

\* No retry of the daily close is ever lost, whatever the handlers, restarts and
\* failed writes do (_run_cadence, _next_retry_at).
THEOREM RetriesAreKept == Spec => []RetryPending
  <1>1. SchedulerInv => RetryPending
    BY DEF SchedulerInv, DailySeen, RetryPending
  <1> QED BY <1>1, InvInit, InvStep, PTL DEF Spec

\* Clocks, windows and retries keep the contract that a user of the scheduler
\* relies on: nothing done is run again that day, the weekly rebalance follows
\* the daily close, restarts start from the record (tick, _run_cadence).
THEOREM SchedulerKeepsContract == Spec => ImplementsContract
  <1>1. SchedulerInv /\ [Next]_vars => [Contract!Next]_Contract!vars
    <2> SUFFICES ASSUME SchedulerInv, [Next]_vars PROVE Contract!Next \/ UNCHANGED Contract!vars
      OBVIOUS
    <2>1. CASE UNCHANGED vars
      <3>1. UNCHANGED <<day, up, running, pc, last, saved, retryAt>>
        BY <2>1 DEF vars
      <3>2. UNCHANGED <<Today(last), Today(saved)>>
        BY <3>1 DEF Today
      <3> QED BY <3>1, <3>2 DEF Contract!vars
    <2>2. CASE Next
      <3>1. CASE Tick \/ Minute \/ \E c \in Cadences : Pass(c)
        BY <3>1, Stutters
      <3>2. CASE Midnight
        BY <3>2, ContractNewDay DEF Contract!Next
      <3>3. CASE Dies \/ Boots
        BY <3>3, ContractRestart DEF Contract!Next
      <3>4. ASSUME NEW c \in Cadences, Dispatch(c) \/ Completes(c) \/ Fails(c)
            PROVE  Contract!Next
        BY <3>4, ContractDispatch, ContractCompletes, ContractFails
        DEF Contract!Next, Contract!Cadences, Cadences
      <3> QED BY <2>2, <3>1, <3>2, <3>3, <3>4 DEF Next
    <2> QED BY <2>1, <2>2
  <1> QED BY <1>1, ContractInit, InvInit, InvStep, PTL DEF Spec, ImplementsContract, Contract!Spec

-----------------------------------------------------------------------------
(* The exchange's hours                                                    *)

\* The calendar that was computed is the one the exchange published.
CalendarAgrees ==
    \A d \in Days :
        /\ Sessions[d].open <=> d \in TradingDays
        /\ d \in TradingDays =>
            /\ Sessions[d].closes = Close[d]
            /\ Sessions[d].cadences
                 = {c \in Cadences : (c = "monthly" => d \in FirstDays) /\ (c = "weekly" => d \in LastDays)}

\* The handler that may run before the daily window opens ends inside it.
RunsFit == Offset > 0 /\ MaxRun <= Offset

CallsFor(c) ==
    /\ day \in TradingDays
    /\ c = "monthly" => day \in FirstDays
    /\ c = "weekly" => day \in LastDays

\* What has been attempted today was called for, in time; what is done, recorded
\* or waits for its retry today has been attempted today.
TriedInv ==
    \A c \in Cadences :
        /\ attempt[c].day <= day
        /\ last[c] = day \/ saved[c] = day \/ retryAt[c].day = day \/ (running /\ pc = c)
             => attempt[c].day = day
        /\ attempt[c].day = day => CallsFor(c) /\ attempt[c].minute < Close[day] + 2 * MaxRun

UpTo(c) == IF c = "monthly" THEN {"monthly"} ELSE IF c = "daily" THEN {"monthly", "daily"} ELSE Cadences

\* A tick that will dispatch the cadence is under way, or comes before the close.
ToCome(c) ==
    \/ pc = "sleep" /\ minute < Close[day] /\ (ticked => minute < Opens(c))
    \/ /\ pc # "sleep" /\ tickAt < Opens(c)
       /\ minute <= tickAt + (IF c = "monthly" THEN 0 ELSE MaxRun)
    \/ pc \in UpTo(c) /\ InWindow(c, tickAt)

NoneMissed ==
    up /\ bootAt < Close[day] =>
        \A c \in Cadences : CallsFor(c) => attempt[c].day = day \/ ToCome(c)

TickFresh == up /\ ticked => minute = tickAt

HoursInv == TriedInv /\ NoneMissed /\ TickFresh

LEMMA WindowFacts ==
    ASSUME SchedulerInv, RunsFit, day \in TradingDays
    PROVE  /\ Close[day] \in Nat /\ minute \in Nat /\ tickAt \in Nat /\ MaxRun \in Nat
           /\ \A c \in Cadences :
                /\ Opens(c) \in Nat /\ Opens(c) < Close[day]
                /\ c # "monthly" => Opens(c) + MaxRun <= Close[day]
  <1>1. day \in Days /\ Close[day] \in Nat /\ minute \in Nat /\ tickAt \in Nat
    BY SchedulerAssumption DEF SchedulerInv, TypeOK
  <1>2. Offset + Lead <= Close[day] /\ Offset \in Nat /\ Lead \in Nat /\ MaxRun \in Nat
    BY SchedulerAssumption
  <1> QED BY <1>1, <1>2 DEF Opens, RunsFit

LEMMA HoursInit == SchedulerInv /\ RunsFit /\ Init => HoursInv
  <1> SUFFICES ASSUME SchedulerInv, RunsFit, Init PROVE HoursInv
    OBVIOUS
  <1>1. TriedInv
    BY DEF Init, TriedInv, Never
  <1>2. NoneMissed
    BY WindowFacts DEF Init, NoneMissed, ToCome, CallsFor
  <1>3. TickFresh
    BY DEF Init, TickFresh
  <1> QED BY <1>1, <1>2, <1>3 DEF HoursInv

LEMMA TickHours ==
    ASSUME SchedulerInv, RunsFit, HoursInv, Tick
    PROVE  HoursInv'
  <1> USE DEF Tick, clockVars
  <1>1. TriedInv'
    <2>1. ~running
      BY DEF SchedulerInv, RunInv
    <2> QED BY <2>1 DEF HoursInv, TriedInv, CallsFor
  <1>2. NoneMissed'
    <2> SUFFICES ASSUME NEW c \in Cadences, bootAt < Close[day], CallsFor(c), attempt[c].day # day
                 PROVE  ToCome(c)'
      BY DEF NoneMissed, CallsFor
    <2>1. ToCome(c) /\ day \in TradingDays
      BY DEF HoursInv, NoneMissed, CallsFor
    <2>2. minute < Close[day] /\ minute \in Nat /\ Opens(c) \in Nat /\ MaxRun \in Nat
      BY <2>1, WindowFacts DEF ToCome, UpTo, Cadences
    <2>3. Opens(c)' = Opens(c) /\ pc' = "monthly" /\ pc' \in UpTo(c)
      BY <2>1 DEF Opens, UpTo, Cadences
    <2> QED BY <2>2, <2>3 DEF ToCome, InWindow
  <1>3. TickFresh'
    BY DEF TickFresh
  <1> QED BY <1>1, <1>2, <1>3 DEF HoursInv

\* The tick goes on to the next cadence: whatever the one it leaves, it has been
\* attempted if this tick was to dispatch it.
LEMMA GoesOn ==
    ASSUME SchedulerInv, RunsFit, HoursInv, NEW c \in Cadences, pc = c, pc' = After(c),
           UNCHANGED <<clockVars, ticked, tickAt, attempt>>,
           InWindow(c, tickAt) /\ CallsFor(c) => attempt[c].day = day
    PROVE  NoneMissed' /\ TickFresh'
  <1> USE DEF clockVars
  <1>1. TickFresh'
    BY DEF HoursInv, TickFresh
  <1>2. NoneMissed'
    <2> SUFFICES ASSUME NEW x \in Cadences, up, bootAt < Close[day], CallsFor(x), attempt[x].day # day
                 PROVE  ToCome(x)'
      BY DEF NoneMissed, CallsFor
    <2>1. ToCome(x) /\ day \in TradingDays /\ pc # "sleep"
      BY DEF HoursInv, NoneMissed, CallsFor, Cadences
    <2>2. /\ Close[day] \in Nat /\ minute \in Nat /\ tickAt \in Nat /\ MaxRun \in Nat
          /\ Opens(x) \in Nat /\ Opens(x) < Close[day]
          /\ x # "monthly" => Opens(x) + MaxRun <= Close[day]
      BY <2>1, WindowFacts
    <2>3. Opens(x)' = Opens(x) /\ InWindow(x, tickAt)' = InWindow(x, tickAt)
      BY DEF Opens, InWindow
    <2>4. CASE tickAt < Opens(x) /\ minute <= tickAt + (IF x = "monthly" THEN 0 ELSE MaxRun)
      <3>1. minute < Close[day]
        BY <2>2, <2>4
      <3>2. ticked => minute < Opens(x)
        BY <2>4, <2>1, <1>1 DEF HoursInv, TickFresh
      <3> QED BY <2>3, <2>4, <3>1, <3>2 DEF ToCome
    <2>5. CASE pc \in UpTo(x) /\ InWindow(x, tickAt)
      <3>1. x # c
        BY <2>5
      <3>2. pc' \in UpTo(x)
        BY <2>5, <3>1 DEF UpTo, After, Cadences
      <3> QED BY <2>3, <2>5, <3>2 DEF ToCome
    <2> QED BY <2>1, <2>4, <2>5 DEF ToCome
  <1> QED BY <1>1, <1>2

LEMMA PassHours ==
    ASSUME SchedulerInv, RunsFit, HoursInv, NEW c \in Cadences, Pass(c)
    PROVE  HoursInv'
  <1>1. InWindow(c, tickAt) /\ CallsFor(c) => attempt[c].day = day
    BY DEF Pass, Due, Scheduled, Waits, CallsFor, HoursInv, TriedInv
  <1>2. NoneMissed' /\ TickFresh'
    BY <1>1, GoesOn DEF Pass
  <1>3. TriedInv'
    BY DEF Pass, clockVars, HoursInv, TriedInv, CallsFor
  <1> QED BY <1>2, <1>3 DEF HoursInv

LEMMA DispatchHours ==
    ASSUME SchedulerInv, RunsFit, HoursInv, NEW c \in Cadences, Dispatch(c)
    PROVE  HoursInv'
  <1> USE DEF Dispatch, clockVars
  <1>1. day \in TradingDays /\ CallsFor(c) /\ tickAt < Close[day] /\ minute <= tickAt + Late(c)
    BY DEF SchedulerInv, TickInv, Due, Scheduled, InWindow, CallsFor, Cadences
  <1>2. minute < Close[day] + 2 * MaxRun
    <2>1. Late(c) \in Nat /\ Late(c) <= 2 * MaxRun
      BY SchedulerAssumption DEF Late, Cadences
    <2> QED BY <1>1, <2>1, WindowFacts
  <1>3. attempt' = [attempt EXCEPT ![c] = [day |-> day, minute |-> minute]]
        /\ attempt \in [Cadences -> Times]
    BY DEF SchedulerInv, TypeOK
  <1>4. \A x \in Cadences : attempt'[x] = IF x = c THEN [day |-> day, minute |-> minute] ELSE attempt[x]
    BY <1>3
  <1>5. TriedInv'
    <2>1. day <= day
      BY DEF SchedulerInv, TypeOK, Days
    <2> QED BY <1>1, <1>2, <1>4, <2>1 DEF HoursInv, TriedInv, CallsFor
  <1>6. NoneMissed'
    <2> SUFFICES ASSUME NEW x \in Cadences, up, bootAt < Close[day], CallsFor(x), attempt'[x].day # day
                 PROVE  ToCome(x)'
      BY DEF NoneMissed, CallsFor
    <2>1. ToCome(x)
      BY <1>4 DEF HoursInv, NoneMissed
    <2> QED BY <2>1 DEF ToCome, Opens, InWindow
  <1>7. TickFresh'
    BY DEF HoursInv, TickFresh
  <1> QED BY <1>5, <1>6, <1>7 DEF HoursInv

LEMMA CompletesHours ==
    ASSUME SchedulerInv, RunsFit, HoursInv, NEW c \in Cadences, Completes(c)
    PROVE  HoursInv'
  <1>1. attempt[c].day = day
    BY DEF Completes, HoursInv, TriedInv
  <1>2. NoneMissed' /\ TickFresh'
    BY <1>1, GoesOn DEF Completes
  <1>3. TriedInv'
    <2>1. day # 0 /\ Never.day = 0
      BY DEF SchedulerInv, TypeOK, Days, Never
    <2>2. \A x \in Cadences : /\ last'[x] = IF x = c THEN day ELSE last[x]
                              /\ retryAt'[x] = IF x = c THEN Never ELSE retryAt[x]
                              /\ saved'[x] = saved[x] \/ x = c
      BY DEF Completes, SchedulerInv, TypeOK
    <2>3. UNCHANGED <<day, attempt>> /\ ~running'
      BY DEF Completes, clockVars
    <2> QED BY <1>1, <2>1, <2>2, <2>3 DEF HoursInv, TriedInv, CallsFor
  <1> QED BY <1>2, <1>3 DEF HoursInv

LEMMA FailsHours ==
    ASSUME SchedulerInv, RunsFit, HoursInv, NEW c \in Cadences, Fails(c)
    PROVE  HoursInv'
  <1>1. attempt[c].day = day
    BY DEF Fails, HoursInv, TriedInv
  <1>2. NoneMissed' /\ TickFresh'
    BY <1>1, GoesOn DEF Fails
  <1>3. TriedInv'
    <2>1. \A x \in Cadences : retryAt'[x] = retryAt[x] \/ x = c
      BY DEF Fails, SchedulerInv, TypeOK
    <2>2. UNCHANGED <<day, attempt, last, saved>> /\ ~running'
      BY DEF Fails, clockVars
    <2> QED BY <1>1, <2>1, <2>2 DEF HoursInv, TriedInv, CallsFor
  <1> QED BY <1>2, <1>3 DEF HoursInv

LEMMA MinuteHours ==
    ASSUME SchedulerInv, RunsFit, HoursInv, Minute
    PROVE  HoursInv'
  <1> USE DEF Minute
  <1>1. TriedInv'
    BY DEF HoursInv, TriedInv, CallsFor
  <1>2. NoneMissed'
    <2> SUFFICES ASSUME NEW c \in Cadences, up, bootAt < Close[day], CallsFor(c), attempt[c].day # day
                 PROVE  ToCome(c)'
      BY DEF NoneMissed, CallsFor
    <2>1. ToCome(c) /\ day \in TradingDays
      BY DEF HoursInv, NoneMissed, CallsFor
    <2>2. /\ Close[day] \in Nat /\ minute \in Nat /\ tickAt \in Nat /\ MaxRun \in Nat
          /\ Opens(c) \in Nat /\ Opens(c) < Close[day]
      BY <2>1, WindowFacts
    <2>3. Opens(c)' = Opens(c) /\ InWindow(c, tickAt)' = InWindow(c, tickAt)
      BY DEF Opens, InWindow
    <2>4. CASE pc = "sleep"
      <3>1. ticked /\ minute < Opens(c)
        <4>1. ticked
          BY <2>4 DEF MayPass, SchedulerInv, RunInv
        <4> QED BY <2>1, <2>4, <4>1 DEF ToCome, UpTo, Cadences
      <3>2. minute' < Close[day]
        BY <2>2, <3>1
      <3> QED BY <2>4, <3>2 DEF ToCome
    <2>5. CASE tickAt < Opens(c) /\ pc # "sleep"
      <3>1. /\ running /\ Scheduled(pc) /\ pc \in Cadences
            /\ attempt[pc].minute <= tickAt + Late(pc) /\ minute < attempt[pc].minute + MaxRun
        BY <2>5 DEF MayPass, SchedulerInv, RunInv, TypeOK
      <3>2. pc = "monthly" /\ c # "monthly"
        <4>1. Opens(pc) <= tickAt
          BY <3>1 DEF Scheduled, InWindow
        <4>2. /\ Close[day] \in Nat /\ Offset \in Nat /\ Lead \in Nat
              /\ Offset + Lead <= Close[day]
          BY <2>1, SchedulerAssumption, <2>2
        <4>3. Opens("monthly") <= Opens("daily") /\ Opens("weekly") = Opens("daily")
          BY <4>2 DEF Opens
        <4>4. /\ tickAt < Opens(c) /\ tickAt \in Nat
              /\ Opens("monthly") \in Int /\ Opens("daily") \in Int
          BY <4>2, <2>2, <2>5 DEF Opens
        <4> QED BY <3>1, <4>1, <4>3, <4>4 DEF Cadences
      <3>3. attempt["monthly"].minute <= tickAt /\ attempt["monthly"].minute \in Nat
        BY <2>2, <3>1, <3>2 DEF Late, SchedulerInv, TypeOK, Times
      <3>4. minute' <= tickAt + MaxRun
        BY <2>2, <3>1, <3>2, <3>3
      <3> QED BY <2>3, <2>5, <3>2, <3>4 DEF ToCome
    <2>6. CASE pc \in UpTo(c) /\ InWindow(c, tickAt)
      BY <2>3, <2>6 DEF ToCome
    <2> QED BY <2>1, <2>4, <2>5, <2>6 DEF ToCome
  <1>3. TickFresh'
    BY DEF TickFresh
  <1> QED BY <1>1, <1>2, <1>3 DEF HoursInv

LEMMA MidnightHours ==
    ASSUME SchedulerInv, SchedulerInv', RunsFit, HoursInv, Midnight
    PROVE  HoursInv'
  <1> USE NothingAtMidnight DEF Midnight
  <1>1. day \in Nat
    BY DEF SchedulerInv, TypeOK, Days
  <1>2. TriedInv'
    <2>1. ~running /\ ~running' /\ day' = day + 1
      BY DEF MayPass
    <2>2. ASSUME NEW c \in Cadences
          PROVE  /\ attempt'[c].day <= day /\ last'[c] <= day /\ saved'[c] <= day
                 /\ retryAt'[c].day <= day /\ attempt'[c].day \in Nat /\ last'[c] \in Nat
                 /\ saved'[c] \in Nat /\ retryAt'[c].day \in Nat
      BY DEF HoursInv, TriedInv, SchedulerInv, PastInv, TypeOK, Times
    <2> HIDE DEF Midnight
    <2> QED BY <1>1, <2>1, <2>2 DEF TriedInv
  <1>3. NoneMissed'
    <2> SUFFICES ASSUME day' \in TradingDays PROVE minute' < Close[day']
      BY DEF NoneMissed, CallsFor, ToCome
    <2>1. /\ day' \in Days /\ Close[day'] \in Nat /\ Offset + Lead <= Close[day']
          /\ Offset \in Nat /\ Lead \in Nat
      BY SchedulerAssumption
    <2> QED BY <2>1 DEF RunsFit
  <1>4. TickFresh'
    BY DEF TickFresh
  <1> QED BY <1>2, <1>3, <1>4 DEF HoursInv

LEMMA DiesHours ==
    ASSUME SchedulerInv, HoursInv, Dies
    PROVE  HoursInv'
  BY DEF Dies, HoursInv, TriedInv, CallsFor, NoneMissed, TickFresh

LEMMA BootsHours ==
    ASSUME SchedulerInv, RunsFit, HoursInv, Boots
    PROVE  HoursInv'
  <1> USE DEF Boots
  <1>1. day # 0 /\ Never.day = 0 /\ pc = "sleep" /\ ~running
    BY DEF SchedulerInv, TypeOK, Days, Never, TickInv, RunInv
  <1>2. TriedInv'
    <2>1. \A c \in Cadences : (last'[c] = saved[c] \/ last'[c] = 0) /\ retryAt'[c] = Never
      OBVIOUS
    <2>2. UNCHANGED <<day, attempt, saved, running>>
      OBVIOUS
    <2> HIDE DEF Boots
    <2> QED BY <1>1, <2>1, <2>2 DEF HoursInv, TriedInv, CallsFor
  <1>3. NoneMissed'
    BY <1>1 DEF NoneMissed, ToCome
  <1>4. TickFresh'
    BY DEF TickFresh
  <1> QED BY <1>2, <1>3, <1>4 DEF HoursInv

LEMMA HoursStep == SchedulerInv /\ SchedulerInv' /\ RunsFit /\ HoursInv /\ [Next]_vars => HoursInv'
  <1> SUFFICES ASSUME SchedulerInv, SchedulerInv', RunsFit, HoursInv, [Next]_vars PROVE HoursInv'
    OBVIOUS
  <1>1. CASE UNCHANGED vars
    BY <1>1 DEF vars, HoursInv, TriedInv, CallsFor, NoneMissed, ToCome, Opens, InWindow, TickFresh
  <1>2. CASE Next
    BY <1>2, TickHours, PassHours, DispatchHours, CompletesHours, FailsHours, MinuteHours,
       MidnightHours, DiesHours, BootsHours DEF Next
  <1> QED BY <1>1, <1>2

\* With HoursInv and a calendar that agrees, the exchange's hours are kept.
LEMMA HoursKept == SchedulerInv /\ HoursInv /\ CalendarAgrees => KeepsExchangeHours
  <1> SUFFICES ASSUME SchedulerInv, HoursInv, CalendarAgrees PROVE KeepsExchangeHours
    OBVIOUS
  <1>1. day \in Days
    BY DEF SchedulerInv, TypeOK
  <1>2. /\ Session.open <=> day \in TradingDays
        /\ day \in TradingDays =>
            /\ Session.closes = Close[day]
            /\ \A c \in Cadences : c \in Session.cadences <=> CallsFor(c)
            /\ \A c \in Session.cadences : c \in Cadences
    BY <1>1 DEF CalendarAgrees, Session, CallsFor
  <1>3. ASSUME NEW c \in Cadences, attempt[c].day = day
        PROVE  /\ Session.open /\ c \in Session.cadences
               /\ attempt[c].minute < Session.closes + 2 * MaxRun
    BY <1>2, <1>3 DEF HoursInv, TriedInv, CallsFor
  <1>4. ASSUME up, pc = "sleep", Session.open, bootAt < Session.closes, Session.closes <= minute,
               NEW c \in Session.cadences
        PROVE  attempt[c].day = day
    <2>1. c \in Cadences /\ CallsFor(c) /\ Session.closes = Close[day] /\ pc = "sleep"
      BY <1>2, <1>4
    <2>2. Close[day] \in Nat /\ minute \in Nat
      BY <1>1, SchedulerAssumption DEF SchedulerInv, TypeOK
    <2>3. ~ ToCome(c)
      BY <1>4, <2>1, <2>2 DEF ToCome, UpTo, Cadences
    <2> QED BY <1>4, <2>1, <2>3 DEF HoursInv, NoneMissed
  <1> QED BY <1>3, <1>4 DEF KeepsExchangeHours

\* KeepsExchangeHours: when the calendar that MarketCalendar computes is the
\* exchange's and no handler runs longer than the daily window is open, no
\* cadence is attempted outside the exchange's hours and none is missed, on
\* any dates and through any restarts.
THEOREM HoursAreKept ==
    ASSUME CalendarAgrees, RunsFit
    PROVE  Spec => []KeepsExchangeHours
  <1>1. Init => SchedulerInv /\ HoursInv
    BY InvInit, HoursInit
  <1>2. SchedulerInv /\ HoursInv /\ [Next]_vars => (SchedulerInv /\ HoursInv)'
    BY InvStep, HoursStep
  <1>3. SchedulerInv /\ HoursInv => KeepsExchangeHours
    BY HoursKept
  <1> QED BY <1>1, <1>2, <1>3, PTL DEF Spec
=============================================================================

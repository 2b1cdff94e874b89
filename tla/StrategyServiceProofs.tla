------------------------ MODULE StrategyServiceProofs ------------------------
(***************************************************************************)
(* What StrategyService promises for every set of requests, every calendar *)
(* and any number of restarts, resets and storage faults.                  *)
(***************************************************************************)
EXTENDS StrategyService, SequenceTheorems, TLAPS

PCs == Busy \cup {"idle", "lock", "warmup"}
TaskState == [pc : PCs, job : Jobs, order : Holdings \cup {"none"}, wipes : 0..MaxResets]

\* What a coroutine in state r may be doing: every one has jobs of its own, the
\* daily close is the scheduler's alone and stops at the evaluation.
JobOK(t, r) ==
    /\ r.pc = "idle" <=> r.job = "none"
    /\ t \in Requests => r.job \in {"none", "manual", "forced"}
    /\ t = "scheduler" => r.job \in {"none", "daily", "weekly"}
    /\ t = "breaker" => r.job \in {"none", "derisk"}
    /\ t = "toggle" => r.job \in {"none", "toggle"} /\ r.pc \in {"idle", "lock"}
    /\ r.job = "daily" => r.pc \in {"close", "warmup", "evaluate"}
    /\ r.pc = "execute" => r.order # "none"

JobInv == \A t \in Tasks : JobOK(t, task[t])

\* Past its acquisition, and only then, a coroutine owns the head of the queue.
Inside(t) == task[t].pc \notin {"idle", "lock"} /\ task[t].job # "daily"
LockInv == \A t \in Tasks : Inside(t) => HasLock(t)

QueueInv == /\ lockQ \in Seq(Tasks)
            /\ task \in [Tasks -> TaskState]
            /\ JobInv /\ LockInv

-----------------------------------------------------------------------------

LEMMA QueueFacts ==
    ASSUME NEW S, NEW q \in Seq(S), NEW x \in S
    PROVE  /\ Append(q, x) \in Seq(S)
           /\ Append(q, x) # <<>>
           /\ q # <<>> => Head(Append(q, x)) = Head(q) /\ Tail(q) \in Seq(S)
  BY HeadTailProperties, AppendProperties

\* A coroutine that goes back to sleep, or on under the same lock.
LEMMA MoveStep ==
    ASSUME QueueInv, NEW t \in Tasks, NEW r \in TaskState,
           task' = [task EXCEPT ![t] = r], JobOK(t, r),
           \/ lockQ' = lockQ /\ (r.pc \notin {"idle", "lock"} /\ r.job # "daily" => HasLock(t))
           \/ lockQ' = Tail(lockQ) /\ HasLock(t) /\ r.pc = "idle"
    PROVE  QueueInv'
  <1>1. task' \in [Tasks -> TaskState] /\ task'[t] = r
    BY DEF QueueInv
  <1>2. \A u \in Tasks : u # t => task'[u] = task[u]
    BY DEF QueueInv
  <1>3. JobInv'
    BY <1>1, <1>2 DEF QueueInv, JobInv, JobOK
  <1>4. lockQ' \in Seq(Tasks)
    BY QueueFacts DEF QueueInv, HasLock
  <1>5. LockInv'
    BY <1>1, <1>2 DEF QueueInv, LockInv, Inside, HasLock
  <1> QED BY <1>1, <1>3, <1>4, <1>5 DEF QueueInv

\* A coroutine that queues up for the lock.
LEMMA EnqueueStep ==
    ASSUME ServiceAssumption, QueueInv, NEW t \in Tasks, NEW job \in Jobs, Enqueue(t, job),
           JobOK(t, Entered("lock", job))
    PROVE  QueueInv'
  <1> DEFINE r == Entered("lock", job)
  <1>0. r.pc = "lock" /\ r.job = job
    BY DEF Entered
  <1>1. r \in TaskState
    BY DEF Entered, TaskState, ServiceAssumption, PCs
  <1>2. task' \in [Tasks -> TaskState] /\ task'[t] = r
    BY <1>1 DEF QueueInv, Enqueue
  <1>3. \A u \in Tasks : u # t => task'[u] = task[u]
    BY DEF QueueInv, Enqueue
  <1>4. JobInv'
    BY <1>2, <1>3 DEF QueueInv, JobInv, JobOK
  <1>5. lockQ' \in Seq(Tasks)
    BY QueueFacts DEF QueueInv, Enqueue
  <1>6. LockInv'
    BY <1>0, <1>2, <1>3, QueueFacts DEF QueueInv, LockInv, Inside, HasLock, Enqueue
  <1> QED BY <1>2, <1>4, <1>5, <1>6 DEF QueueInv

LEMMA IdleTaskOK ==
    ASSUME ServiceAssumption
    PROVE  IdleTask \in TaskState /\ \A t \in Tasks : JobOK(t, IdleTask)
  BY DEF ServiceAssumption, Entered, IdleTask, TaskState, PCs, Jobs, JobOK

LEMMA FinishStep ==
    ASSUME ServiceAssumption, QueueInv, NEW t \in Tasks,
           Finish(t, TRUE) \/ Finish(t, FALSE),
           task[t].pc \notin {"idle", "lock"} \/ (HasLock(t) /\ task[t].job # "daily")
    PROVE  QueueInv'
  <1>1. task' = [task EXCEPT ![t] = IdleTask] /\ IdleTask.pc = "idle"
    BY DEF Finish, IdleTask, Entered
  <1>2. CASE task[t].job = "daily"
    <2>1. lockQ' = lockQ
      BY <1>2 DEF Finish
    <2> QED BY <1>1, <2>1, MoveStep, IdleTaskOK
  <1>3. CASE task[t].job # "daily"
    <2>1. lockQ' = Tail(lockQ)
      BY <1>3 DEF Finish
    <2>2. HasLock(t)
      BY <1>3 DEF QueueInv, LockInv, Inside
    <2> QED BY <1>1, <2>1, <2>2, MoveStep, IdleTaskOK
  <1> QED BY <1>2, <1>3

LEMMA GotoStep ==
    ASSUME QueueInv, NEW t \in Tasks, NEW p \in PCs \ {"idle", "lock"}, Goto(t, p),
           lockQ' = lockQ, t # "toggle", task[t].pc # "idle",
           task[t].pc \notin {"idle", "lock"} \/ (HasLock(t) /\ task[t].job # "daily"),
           task[t].job = "daily" => p \in {"close", "warmup", "evaluate"},
           p # "execute"
    PROVE  QueueInv'
  <1> DEFINE r == [task[t] EXCEPT !.pc = p]
  <1>1. task[t] \in TaskState /\ JobOK(t, task[t])
    BY DEF QueueInv, JobInv
  <1>2. r \in TaskState /\ r.pc = p /\ r.job = task[t].job
    BY <1>1 DEF TaskState
  <1>3. task' = [task EXCEPT ![t] = r]
    BY DEF Goto
  <1>4. task[t].job # "none"
    BY <1>1 DEF JobOK, QueueInv
  <1>5. JobOK(t, r)
    BY <1>1, <1>2, <1>4 DEF JobOK
  <1>6. task[t].job # "daily" => HasLock(t)
    BY DEF QueueInv, LockInv, Inside
  <1> HIDE DEF r
  <1> QED BY <1>2, <1>3, <1>5, <1>6, MoveStep

-----------------------------------------------------------------------------

\* Nothing but the queue and the coroutines bears on QueueInv.
LEMMA QueueUnchanged ==
    ASSUME QueueInv, UNCHANGED <<lockQ, task>>
    PROVE  QueueInv'
  BY DEF QueueInv, JobInv, LockInv, Inside, HasLock

LEMMA SleeperEnters ==
    ASSUME ServiceAssumption, QueueInv, NEW t \in Tasks, Acquires(t)
    PROVE  HasLock(t) /\ task[t].pc = "lock" /\ task[t].job # "daily"
  BY DEF Acquires, QueueInv, JobInv, JobOK

LEMMA CloseSkipsStep ==
    ASSUME ServiceAssumption, QueueInv, NEW t \in Tasks, CloseSkips(t),
           task[t].pc \notin {"idle", "lock"}
    PROVE  QueueInv'
  <1>1. CASE task[t].job = "daily"
    BY <1>1, FinishStep DEF CloseSkips
  <1>2. CASE task[t].job # "daily"
    <2>1. t # "toggle"
      BY DEF QueueInv, JobInv, JobOK
    <2> QED BY <1>2, <2>1, GotoStep DEF CloseSkips, PCs, Busy
  <1> QED BY <1>1, <1>2

LEMMA OrdersType ==
    ASSUME NEW kind \in Kinds \ {"none"}, NEW held \in Holdings, NEW o \in Orders(kind, held)
    PROVE  o \in Holdings \cup {"none"}
  BY DEF Orders, Kinds, Holdings

\* The orders computed are those of the target for the book as it was just read.
LEMMA Computed ==
    ASSUME book \in [held : Holdings, wipes : 0..MaxResets],
           NEW t \in Tasks, NEW kind \in Kinds \ {"none"}, ComputeOrders(t, kind)
    PROVE  /\ book' \in [held : Holdings, wipes : 0..MaxResets] /\ book'.wipes = book.wipes
           /\ \E o \in Orders(kind, book'.held) :
                /\ o \in Holdings \cup {"none"}
                /\ task' = [task EXCEPT ![t].pc = IF o = "none" THEN "post" ELSE "execute",
                                        ![t].order = o, ![t].wipes = book.wipes]
  <1>1. PICK held \in Seen(book.held) : \E o \in Orders(kind, held) :
          /\ book' = [book EXCEPT !.held = held]
          /\ task' = [task EXCEPT ![t].pc = IF o = "none" THEN "post" ELSE "execute",
                                  ![t].order = o, ![t].wipes = book.wipes]
    BY Zenon DEF ComputeOrders
  <1>2. PICK o \in Orders(kind, held) :
          /\ book' = [book EXCEPT !.held = held]
          /\ task' = [task EXCEPT ![t].pc = IF o = "none" THEN "post" ELSE "execute",
                                  ![t].order = o, ![t].wipes = book.wipes]
    BY <1>1
  <1>3. held \in Holdings
    BY DEF Seen, Holdings
  <1>4. /\ book' \in [held : Holdings, wipes : 0..MaxResets]
        /\ book'.wipes = book.wipes /\ book'.held = held
    BY <1>2, <1>3
  <1>5. o \in Holdings \cup {"none"}
    BY <1>3, OrdersType
  <1> QED BY <1>2, <1>4, <1>5, Zenon

\* Orders have been computed: they are booked next, unless there are none.
LEMMA OrdersStep ==
    ASSUME TypeOK, QueueInv, NEW t \in Tasks, NEW o \in Holdings \cup {"none"},
           task' = [task EXCEPT ![t].pc = IF o = "none" THEN "post" ELSE "execute",
                                ![t].order = o, ![t].wipes = book.wipes],
           lockQ' = lockQ, t # "toggle", HasLock(t),
           task[t].pc # "idle", task[t].job # "daily"
    PROVE  QueueInv'
  <1> DEFINE r == [task[t] EXCEPT !.pc = IF o = "none" THEN "post" ELSE "execute",
                                  !.order = o, !.wipes = book.wipes]
  <1>1. task[t] \in TaskState /\ JobOK(t, task[t])
    BY DEF QueueInv, JobInv
  <1>2. /\ r \in TaskState /\ r.job = task[t].job
        /\ r.pc = IF o = "none" THEN "post" ELSE "execute"
        /\ r.order = o
    BY <1>1 DEF TaskState, TypeOK, PCs, Busy
  <1>3. task' = [task EXCEPT ![t] = r]
    OBVIOUS
  <1>4. JobOK(t, r)
    BY <1>1, <1>2 DEF JobOK
  <1> HIDE DEF r
  <1> QED BY <1>2, <1>3, <1>4, MoveStep

LEMMA ResumesStep ==
    ASSUME ServiceAssumption, TypeOK, QueueInv, NEW t \in Tasks, Resumes(t)
    PROVE  QueueInv'
  <1>1. CASE t = "toggle" /\ Toggle
    <2>1. task' = [task EXCEPT ![t] = IdleTask] /\ lockQ' = Tail(lockQ) /\ IdleTask.pc = "idle"
      BY <1>1 DEF Toggle, IdleTask, Entered
    <2>2. HasLock(t)
      BY <1>1 DEF Toggle, Acquires
    <2> QED BY <2>1, <2>2, MoveStep, IdleTaskOK
  <1>2. CASE t = "scheduler" /\ StartWeekly
    <2>1. HasLock(t) /\ task[t].pc = "lock" /\ task[t].job # "daily"
      BY <1>2, SleeperEnters DEF StartWeekly
    <2>2. CASE WeeklyRefused
      BY <1>2, <2>1, <2>2, FinishStep DEF StartWeekly
    <2>3. CASE ~WeeklyRefused
      <3>1. PICK p \in {"close", "decide"} : Goto(t, p) /\ lockQ' = lockQ
        BY <1>2, <2>3 DEF StartWeekly
      <3> QED BY <1>2, <2>1, <3>1, GotoStep DEF PCs, Busy
    <2> QED BY <2>2, <2>3
  <1>3. CASE t = "breaker" /\ StartDerisk
    <2>1. HasLock(t) /\ task[t].pc = "lock" /\ task[t].job # "daily"
      BY <1>3, SleeperEnters DEF StartDerisk
    <2>2. PICK o \in Holdings \cup {"none"} :
            task' = [task EXCEPT ![t].pc = IF o = "none" THEN "post" ELSE "execute",
                                 ![t].order = o, ![t].wipes = book.wipes]
      BY <1>3, Computed DEF StartDerisk, TypeOK, Kinds
    <2> QED BY <1>3, <2>1, <2>2, OrdersStep DEF StartDerisk
  <1>4. CASE StartManual(t)
    <2>1. HasLock(t) /\ task[t].pc = "lock" /\ task[t].job # "daily"
      BY <1>4, SleeperEnters DEF StartManual
    <2>2. CASE ManualRefused(t)
      <3>1. task' = [task EXCEPT ![t] = IdleTask] /\ lockQ' = Tail(lockQ) /\ IdleTask.pc = "idle"
        BY <1>4, <2>2 DEF StartManual, IdleTask, Entered
      <3> QED BY <2>1, <3>1, MoveStep, IdleTaskOK
    <2>3. CASE ~ManualRefused(t)
      BY <1>4, <2>1, <2>3, GotoStep DEF StartManual, PCs, Busy, ServiceAssumption
    <2> QED BY <2>2, <2>3
  <1>5. CASE StartClose(t)
    <2>1. task[t].pc = "close" /\ t # "toggle"
      BY <1>5 DEF StartClose, QueueInv, JobInv, JobOK
    <2>2. CASE CloseRefused(t)
      BY <1>5, <2>1, <2>2, CloseSkipsStep DEF StartClose
    <2>3. CASE ~CloseRefused(t)
      <3>1. PICK p \in {"evaluate", "warmup"} : Goto(t, p) /\ lockQ' = lockQ
        BY <1>5, <2>3 DEF StartClose
      <3>2. p \in PCs \ {"idle", "lock"} /\ p \in {"close", "warmup", "evaluate"}
        BY <3>1 DEF PCs, Busy
      <3> QED BY <2>1, <3>1, <3>2, GotoStep
    <2> QED BY <2>2, <2>3
  <1>6. CASE WarmupReturns(t)
    <2>1. task[t].pc = "warmup" /\ t # "toggle"
      BY <1>6 DEF WarmupReturns, QueueInv, JobInv, JobOK
    <2>2. Goto(t, "evaluate") /\ lockQ' = lockQ
      BY <1>6 DEF WarmupReturns
    <2>3. "evaluate" \in PCs \ {"idle", "lock"}
      BY DEF PCs, Busy
    <2> QED BY <2>1, <2>2, <2>3, GotoStep
  <1>7. CASE NoEvaluation(t)
    <2>1. task[t].pc = "evaluate"
      BY <1>7 DEF NoEvaluation
    <2>2. CloseSkips(t) \/ Finish(t, FALSE)
      BY <1>7, Zenon DEF NoEvaluation
    <2> QED BY <2>1, <2>2, CloseSkipsStep, FinishStep
  <1>8. CASE Evaluate(t)
    <2>1. task[t].pc = "evaluate" /\ t # "toggle"
      BY <1>8 DEF Evaluate, QueueInv, JobInv, JobOK
    <2>2. CASE Finish(t, TRUE) \/ Finish(t, FALSE)
      BY <2>1, <2>2, FinishStep
    <2>3. CASE task[t].job # "daily" /\ Goto(t, "target") /\ lockQ' = lockQ
      BY <2>1, <2>3, GotoStep DEF PCs, Busy
    <2> QED BY <1>8, <2>2, <2>3 DEF Evaluate
  <1>9. CASE CheckTarget(t)
    <2>1. task[t].pc = "target" /\ t # "toggle" /\ task[t].job # "daily"
      BY <1>9 DEF CheckTarget, QueueInv, JobInv, JobOK
    <2>2. Finish(t, TRUE) \/ (Goto(t, "decide") /\ lockQ' = lockQ)
      BY <1>9, Zenon DEF CheckTarget
    <2> QED BY <2>1, <2>2, FinishStep, GotoStep DEF PCs, Busy
  <1>10. CASE Decide(t)
    <2>1. task[t].pc = "decide" /\ t # "toggle" /\ task[t].job # "daily" /\ HasLock(t)
      BY <1>10 DEF Decide, QueueInv, JobInv, JobOK, LockInv, Inside
    <2>2. CASE Finish(t, FALSE)
      BY <2>1, <2>2, FinishStep
    <2>3. CASE alloc.kind # "none" /\ ComputeOrders(t, alloc.kind) /\ lockQ' = lockQ
      <3>1. PICK o \in Holdings \cup {"none"} :
              task' = [task EXCEPT ![t].pc = IF o = "none" THEN "post" ELSE "execute",
                                   ![t].order = o, ![t].wipes = book.wipes]
        BY <2>3, Computed DEF TypeOK
      <3> QED BY <2>1, <2>3, <3>1, OrdersStep
    <2> QED BY <1>10, <2>2, <2>3 DEF Decide
  <1>11. CASE Execute(t)
    <2>1. task[t].pc = "execute" /\ t # "toggle" /\ task[t].job # "daily"
      BY <1>11 DEF Execute, QueueInv, JobInv, JobOK
    <2>2. Finish(t, FALSE) \/ (Goto(t, "post") /\ lockQ' = lockQ)
      BY <1>11, Zenon DEF Execute
    <2> QED BY <2>1, <2>2, FinishStep, GotoStep DEF PCs, Busy
  <1>12. CASE Post(t)
    <2>1. task[t].pc = "post" /\ (Finish(t, TRUE) \/ Finish(t, FALSE))
      BY <1>12, Zenon DEF Post
    <2> QED BY <2>1, FinishStep
  <1> QED BY <1>1, <1>2, <1>3, <1>4, <1>5, <1>6, <1>7, <1>8, <1>9, <1>10, <1>11, <1>12
          DEF Resumes

LEMMA QueueStep ==
    ASSUME ServiceAssumption, TypeOK, QueueInv, Next
    PROVE  QueueInv'
  <1> USE DEF feedVars, decisionVars, cadenceVars, processVars, accountVars
  <1>1. CASE FeedMoves \/ NewDay \/ StartFeed \/ StartWarmup \/ Shutdown
             \/ ResetAccount \/ ResetMemory
    BY <1>1, QueueUnchanged
       DEF FeedMoves, NewDay, StartFeed, StartWarmup, Shutdown, ResetAccount, ResetMemory
  <1>2. CASE CancelScheduler
    <2>1. "scheduler" \in Tasks
      BY DEF Tasks
    <2>2. task' = [task EXCEPT !["scheduler"] = IdleTask] /\ IdleTask.pc = "idle"
      BY <1>2 DEF CancelScheduler, IdleTask, Entered
    <2>3. CASE task["scheduler"].job = "daily"
      BY <1>2, <2>1, <2>2, <2>3, MoveStep, IdleTaskOK DEF CancelScheduler
    <2>4. CASE task["scheduler"].job # "daily"
      BY <1>2, <2>1, <2>2, <2>4, MoveStep, IdleTaskOK DEF CancelScheduler
    <2> QED BY <2>3, <2>4
  <1>3. CASE Restart
    <2>1. lockQ' = <<>> /\ task' = [t \in Tasks |-> IdleTask]
      BY <1>3 DEF Restart
    <2>2. \A t \in Tasks : task'[t].pc = "idle"
      BY <2>1 DEF IdleTask, Entered
    <2> QED BY <2>1, <2>2, IdleTaskOK DEF QueueInv, JobInv, LockInv, Inside
  <1>4. CASE Asks
    <2>1. ASSUME NEW t \in Requests, RequestRebalance(t) PROVE QueueInv'
      <3>1. PICK job \in {"manual", "forced"} : Enqueue(t, job)
        BY <2>1 DEF RequestRebalance
      <3>2. JobOK(t, Entered("lock", job))
        BY <2>1 DEF JobOK, Entered, ServiceAssumption
      <3> QED BY <3>1, <3>2, EnqueueStep DEF Jobs, Tasks
    <2>2. CASE RequestToggle
      <3>1. JobOK("toggle", Entered("lock", "toggle"))
        BY DEF JobOK, Entered, ServiceAssumption
      <3> QED BY <2>2, <3>1, EnqueueStep DEF RequestToggle, Jobs, Tasks
    <2>3. CASE DispatchWeekly
      <3>1. JobOK("scheduler", Entered("lock", "weekly"))
        BY DEF JobOK, Entered, ServiceAssumption
      <3> QED BY <2>3, <3>1, EnqueueStep DEF DispatchWeekly, Jobs, Cadences, Tasks
    <2>4. CASE CrashBar
      <3>1. JobOK("breaker", Entered("lock", "derisk"))
        BY DEF JobOK, Entered, ServiceAssumption
      <3> QED BY <2>4, <3>1, EnqueueStep DEF CrashBar, Jobs, Tasks
    <2>5. CASE DispatchDaily
      <3> DEFINE r == Entered("close", "daily")
      <3>1. r \in TaskState /\ JobOK("scheduler", r) /\ r.job = "daily"
        BY DEF Entered, TaskState, PCs, Busy, Jobs, Cadences, JobOK, ServiceAssumption
      <3>2. task' = [task EXCEPT !["scheduler"] = r] /\ lockQ' = lockQ /\ "scheduler" \in Tasks
        BY <2>5 DEF DispatchDaily, Tasks
      <3> HIDE DEF r
      <3> QED BY <3>1, <3>2, MoveStep
    <2> QED BY <1>4, <2>1, <2>2, <2>3, <2>4, <2>5 DEF Asks
  <1>5. CASE Proceeds
    BY <1>5, ResumesStep DEF Proceeds
  <1> QED BY <1>1, <1>2, <1>3, <1>4, <1>5 DEF Next

-----------------------------------------------------------------------------

\* TypeOK without the queue and the coroutines, which QueueInv types.
RestOK ==
    /\ svc \in {"INITIALIZING", "RUNNING", "PAUSED", "STOPPED"}
    /\ boot \in {"feed", "warmup", "up", "down"}
    /\ feed \in {"live", "fallback"} /\ sm \in {"monitoring", "stale"}
    /\ day \in 1..MaxDay
    /\ cache \in [src : {"none", "empty", "live"}, day : 0..MaxDay]
    /\ alloc \in [kind : Kinds, day : 0..MaxDay]
    /\ saved \in [kind : Kinds, day : 0..MaxDay]
    /\ tripped \in BOOLEAN /\ frozen \in BOOLEAN
    /\ tried \in BOOLEAN /\ skipped \in BOOLEAN /\ wiping \in BOOLEAN
    /\ done \subseteq Cadences /\ logged \subseteq Cadences
    /\ book \in [held : Holdings, wipes : 0..MaxResets]
    /\ restarts \in 0..MaxRestarts

LEMMA TypeSplit == TypeOK <=> RestOK /\ lockQ \in Seq(Tasks) /\ task \in [Tasks -> TaskState]
  BY DEF TypeOK, RestOK, TaskState, PCs

LEMMA FinishTypes ==
    ASSUME RestOK, QueueInv, NEW t \in Tasks,
           Finish(t, TRUE) \/ Finish(t, FALSE), task[t].pc # "idle"
    PROVE  done' \subseteq Cadences /\ logged' \subseteq Cadences
  <1>1. t = "scheduler" => task[t].job \in Cadences
    BY DEF QueueInv, JobInv, JobOK, Cadences
  <1> QED BY <1>1 DEF Finish, RestOK

LEMMA FetchTypes ==
    ASSUME ServiceAssumption, RestOK, Fetch
    PROVE  /\ feed' \in {"live", "fallback"} /\ sm' \in {"monitoring", "stale"}
           /\ cache' \in [src : {"none", "empty", "live"}, day : 0..MaxDay]
  BY DEF ServiceAssumption, RestOK, Fetch, NoBars

LEMMA RestResumes ==
    ASSUME ServiceAssumption, RestOK, QueueInv, NEW t \in Tasks, Resumes(t)
    PROVE  RestOK'
  <1> USE DEF feedVars, decisionVars, cadenceVars, processVars, accountVars
  <1>1. CASE Toggle \/ StartManual(t)
    <2>1. UNCHANGED <<cache, tripped, feedVars, decisionVars, cadenceVars, processVars, accountVars>>
      BY <1>1 DEF Toggle, StartManual
    <2>2. svc' \in {svc, "PAUSED", "RUNNING"} /\ frozen' \in BOOLEAN
      BY <1>1 DEF Toggle, StartManual, RestOK
    <2> QED BY <2>1, <2>2 DEF RestOK
  <1>7. CASE t = "breaker" /\ StartDerisk
    <2>1. alloc' \in [kind : Kinds, day : 0..MaxDay]
      BY <1>7 DEF StartDerisk, RestOK, Kinds, ServiceAssumption
    <2>2. book' \in [held : Holdings, wipes : 0..MaxResets]
      BY <1>7, Computed DEF StartDerisk, RestOK, Kinds
    <2> QED BY <1>7, <2>1, <2>2 DEF StartDerisk, RestOK
  <1>8. CASE Decide(t)
    <2>1. book' \in [held : Holdings, wipes : 0..MaxResets]
      BY <1>8, Computed DEF Decide, RestOK
    <2>2. Finish(t, FALSE) \/ UNCHANGED <<done, logged>>
      BY <1>8, Zenon DEF Decide
    <2>3. done' \subseteq Cadences /\ logged' \subseteq Cadences
      BY <1>8, <2>2, FinishTypes DEF Decide, RestOK
    <2> QED BY <1>8, <2>1, <2>3 DEF Decide, RestOK
  <1>2. CASE t = "scheduler" /\ StartWeekly
    <2>1. task[t].pc # "idle"
      BY <1>2 DEF StartWeekly, Acquires
    <2>2. CASE Finish(t, TRUE) /\ skipped' = TRUE
      <3>1. done' \subseteq Cadences /\ logged' \subseteq Cadences
        BY <2>1, <2>2, FinishTypes
      <3>2. UNCHANGED <<svc, frozen, cache, tripped, tried, feedVars, decisionVars, processVars, accountVars>>
        BY <1>2 DEF StartWeekly
      <3> QED BY <2>2, <3>1, <3>2 DEF RestOK
    <2>3. CASE UNCHANGED <<skipped, done, logged>>
      BY <1>2, <2>3 DEF StartWeekly, RestOK
    <2> QED BY <1>2, <2>2, <2>3 DEF StartWeekly
  <1>3. CASE StartClose(t) \/ NoEvaluation(t) \/ CheckTarget(t) \/ Post(t)
    <2>1. task[t].pc # "idle"
      BY <1>3 DEF StartClose, NoEvaluation, CheckTarget, Post
    <2>2. UNCHANGED <<svc, frozen, cache, tripped, tried, feedVars, decisionVars, processVars, accountVars>>
      BY <1>3 DEF StartClose, NoEvaluation, CheckTarget, Post
    <2>3. skipped' \in BOOLEAN
      BY <1>3, Zenon DEF StartClose, NoEvaluation, CheckTarget, Post, CloseSkips, RestOK
    <2>4. Finish(t, TRUE) \/ Finish(t, FALSE) \/ UNCHANGED <<done, logged>>
      BY <1>3, Zenon DEF StartClose, NoEvaluation, CheckTarget, Post, CloseSkips
    <2>5. done' \subseteq Cadences /\ logged' \subseteq Cadences
      BY <2>1, <2>4, FinishTypes DEF RestOK
    <2> QED BY <2>2, <2>3, <2>5 DEF RestOK
  <1>4. CASE WarmupReturns(t)
    BY <1>4, FetchTypes DEF WarmupReturns, RestOK
  <1>5. CASE Evaluate(t)
    <2>1. task[t].pc # "idle"
      BY <1>5 DEF Evaluate
    <2>2. Finish(t, TRUE) \/ Finish(t, FALSE) \/ UNCHANGED <<done, logged>>
      BY <1>5, Zenon DEF Evaluate
    <2>3. done' \subseteq Cadences /\ logged' \subseteq Cadences
      BY <2>1, <2>2, FinishTypes DEF RestOK
    <2>4. alloc' \in [kind : Kinds, day : 0..MaxDay]
      BY <1>5 DEF Evaluate, RestOK, Kinds
    <2>5. saved' \in [kind : Kinds, day : 0..MaxDay]
      <3>1. Row(alloc') \in [kind : Kinds, day : 0..MaxDay]
        BY <2>4 DEF Row, Kinds
      <3> QED BY <1>5, <3>1 DEF Evaluate, RestOK
    <2> QED BY <1>5, <2>3, <2>4, <2>5 DEF Evaluate, RestOK
  <1>6. CASE Execute(t)
    <2>1. task[t].pc = "execute" /\ task[t].order \in Holdings
      BY <1>6 DEF Execute, QueueInv, JobInv, JobOK, TaskState
    <2>2. book' \in [held : Holdings, wipes : 0..MaxResets]
      BY <1>6, <2>1 DEF Execute, RestOK
    <2>3. Finish(t, FALSE) \/ UNCHANGED <<done, logged>>
      BY <1>6 DEF Execute
    <2>4. done' \subseteq Cadences /\ logged' \subseteq Cadences
      BY <2>1, <2>3, FinishTypes DEF RestOK
    <2> QED BY <1>6, <2>2, <2>4 DEF Execute, RestOK
  <1> QED BY <1>1, <1>2, <1>3, <1>4, <1>5, <1>6, <1>7, <1>8 DEF Resumes

LEMMA RestStep ==
    ASSUME ServiceAssumption, RestOK, QueueInv, Next
    PROVE  RestOK'
  <1> USE DEF feedVars, decisionVars, cadenceVars, processVars, accountVars
  <1>1. CASE FeedMoves
    BY <1>1 DEF FeedMoves, RestOK
  <1>2. CASE NewDay
    <2>1. day' \in 1..MaxDay
      BY <1>2 DEF NewDay, RestOK, ServiceAssumption
    <2>2. done' \subseteq Cadences /\ logged' \subseteq Cadences /\ tried' \in BOOLEAN
      BY <1>2 DEF NewDay
    <2> QED BY <1>2, <2>1, <2>2 DEF NewDay, RestOK
  <1>3. CASE StartFeed
    BY <1>3 DEF StartFeed, RestOK
  <1>4. CASE StartWarmup
    BY <1>4, FetchTypes DEF StartWarmup, RestOK
  <1>5. CASE Shutdown
    BY <1>5 DEF Shutdown, RestOK
  <1>6. CASE CancelScheduler
    BY <1>6 DEF CancelScheduler, RestOK
  <1>7. CASE Restart
    <2>1. restarts' \in 0..MaxRestarts
      BY <1>7 DEF Restart, RestOK, ServiceAssumption
    <2>2. cache' \in [src : {"none", "empty", "live"}, day : 0..MaxDay]
      BY <1>7 DEF Restart, NoBars, ServiceAssumption
    <2>3. NoAlloc \in [kind : Kinds, day : 0..MaxDay]
      BY DEF NoAlloc, Kinds, ServiceAssumption
    <2>4. /\ alloc' \in [kind : Kinds, day : 0..MaxDay]
          /\ done' \subseteq Cadences
      BY <1>7, <2>3 DEF Restart, Restored, RestOK
    <2> QED BY <1>7, <2>1, <2>2, <2>4 DEF Restart, RestOK
  <1>8. CASE Asks
    <2>1. ASSUME NEW t \in Requests, RequestRebalance(t) PROVE RestOK'
      BY <2>1 DEF RequestRebalance, RestOK
    <2>2. CASE RequestToggle
      BY <2>2 DEF RequestToggle, RestOK
    <2>3. CASE DispatchDaily \/ DispatchWeekly
      BY <2>3 DEF DispatchDaily, DispatchWeekly, RestOK
    <2>4. CASE CrashBar
      BY <2>4 DEF CrashBar, RestOK
    <2> QED BY <1>8, <2>1, <2>2, <2>3, <2>4 DEF Asks
  <1>9. CASE Proceeds
    BY <1>9, RestResumes DEF Proceeds
  <1>10. CASE ResetAccount
    <2>1. book' \in [held : Holdings, wipes : 0..MaxResets]
      BY <1>10 DEF ResetAccount, RestOK, Holdings, ServiceAssumption
    <2> QED BY <1>10, <2>1 DEF ResetAccount, RestOK
  <1>11. CASE ResetMemory
    <2>1. alloc' \in [kind : Kinds, day : 0..MaxDay]
      BY <1>11 DEF ResetMemory, NoAlloc, Kinds, ServiceAssumption
    <2> QED BY <1>11, <2>1 DEF ResetMemory, RestOK
  <1> QED BY <1>1, <1>2, <1>3, <1>4, <1>5, <1>6, <1>7, <1>8, <1>9, <1>10, <1>11 DEF Next

\* What every reachable state satisfies, whatever the safety properties need.
TypeInv == TypeOK /\ QueueInv

LEMMA TypeInvInit == ServiceAssumption /\ Init => TypeInv
  <1> SUFFICES ASSUME ServiceAssumption, Init PROVE TypeInv
    OBVIOUS
  <1>1. \A t \in Tasks : task[t].pc = "idle"
    BY DEF Init, IdleTask, Entered
  <1>2. task \in [Tasks -> TaskState] /\ lockQ \in Seq(Tasks)
    BY IdleTaskOK DEF Init
  <1>3. JobInv
    BY IdleTaskOK DEF Init, JobInv
  <1>4. LockInv
    BY <1>1 DEF LockInv, Inside
  <1>5. NoBars \in [src : {"none", "empty", "live"}, day : 0..MaxDay]
    BY DEF NoBars, ServiceAssumption
  <1>6. NoAlloc \in [kind : Kinds, day : 0..MaxDay]
    BY DEF NoAlloc, Kinds, ServiceAssumption
  <1>7. day \in 1..MaxDay /\ restarts \in 0..MaxRestarts
    BY DEF Init, ServiceAssumption
  <1>8. book \in [held : Holdings, wipes : 0..MaxResets]
    BY DEF Init, Holdings, ServiceAssumption
  <1>9. RestOK
    BY <1>5, <1>6, <1>7, <1>8 DEF Init, RestOK
  <1> QED BY <1>2, <1>3, <1>4, <1>9, TypeSplit DEF QueueInv, TypeInv

LEMMA TypeInvStep ==
    ASSUME ServiceAssumption, TypeInv, [Next]_vars
    PROVE  TypeInv'
  <1>1. CASE Next
    <2>1. QueueInv'
      BY <1>1, QueueStep DEF TypeInv
    <2>2. RestOK'
      BY <1>1, RestStep, TypeSplit DEF TypeInv
    <2> QED BY <2>1, <2>2 DEF TypeInv, TypeOK, RestOK, QueueInv, TaskState, PCs
  <1>2. CASE UNCHANGED vars
    BY <1>2 DEF vars, TypeInv, TypeOK, QueueInv, JobInv, LockInv, Inside, HasLock
  <1> QED BY <1>1, <1>2

\* Every variable keeps its type: in particular the lock queue never runs empty
\* under a handler that is about to leave it.
THEOREM TypeCorrect == Spec => []TypeOK
  <1>1. Init => TypeInv
    BY ServiceAssumption, TypeInvInit
  <1>2. TypeInv /\ [Next]_vars => TypeInv'
    BY ServiceAssumption, TypeInvStep
  <1>3. TypeInv => TypeOK
    BY DEF TypeInv
  <1> QED BY <1>1, <1>2, <1>3, PTL DEF Spec

-----------------------------------------------------------------------------
(* Who can run while a handler is past the lock, or inside a stretch.       *)

LEMMA SchedulerFacts == "scheduler" \in Tasks /\ "breaker" \in Tasks /\ "toggle" \in Tasks
  BY DEF Tasks

\* Past the lock, a handler meets no other handler but the daily close.
LEMMA OneInside ==
    ASSUME QueueInv, NEW t \in Tasks, NEW u \in Tasks, t # u, Inside(t), Resumes(u)
    PROVE  u = "scheduler" /\ task[u].job = "daily"
  <1>1. HasLock(t) /\ ~HasLock(u)
    BY DEF QueueInv, LockInv, HasLock
  <1>2. ~Acquires(u)
    BY <1>1 DEF Acquires
  <1>3. task[u].pc \notin {"idle", "lock"}
    BY <1>2 DEF Resumes, Toggle, StartWeekly, StartDerisk, StartManual, StartClose, WarmupReturns,
                NoEvaluation, Evaluate, CheckTarget, Decide, Execute, Post
  <1>4. task[u].job = "daily"
    BY <1>1, <1>3 DEF QueueInv, LockInv, Inside
  <1> QED BY <1>4, SchedulerFacts DEF QueueInv, JobInv, JobOK, Tasks, Jobs

\* A coroutine that resumes changes its own state only.
LEMMA OwnStep ==
    ASSUME QueueInv, NEW t \in Tasks, NEW u \in Tasks, t # u, Resumes(u)
    PROVE  task'[t] = task[t]
  <1>0. task \in [Tasks -> TaskState]
    BY DEF QueueInv
  <1>1. ASSUME Finish(u, TRUE) \/ Finish(u, FALSE) \/ \E p \in PCs : Goto(u, p)
        PROVE  task'[t] = task[t]
    BY <1>0, <1>1 DEF Finish, Goto
  <1>2. CASE u = "toggle" /\ Toggle
    BY <1>0, <1>2 DEF Toggle
  <1>3. CASE u = "scheduler" /\ StartWeekly
    BY <1>1, <1>3 DEF StartWeekly, PCs, Busy
  <1>4. CASE u = "breaker" /\ StartDerisk
    BY <1>0, <1>4, Zenon DEF StartDerisk, ComputeOrders
  <1>5. CASE StartManual(u)
    BY <1>0, <1>1, <1>5 DEF StartManual, PCs, Busy
  <1>6. CASE StartClose(u) \/ NoEvaluation(u)
    BY <1>1, <1>6 DEF StartClose, NoEvaluation, CloseSkips, PCs, Busy
  <1>7. CASE WarmupReturns(u)
    BY <1>1, <1>7 DEF WarmupReturns, PCs, Busy
  <1>8. CASE Evaluate(u) \/ CheckTarget(u)
    BY <1>1, <1>8 DEF Evaluate, CheckTarget, PCs, Busy
  <1>9. CASE Decide(u)
    BY <1>0, <1>1, <1>9 DEF Decide, ComputeOrders
  <1>10. CASE Execute(u) \/ Post(u)
    BY <1>1, <1>10 DEF Execute, Post, PCs, Busy
  <1> QED BY <1>2, <1>3, <1>4, <1>5, <1>6, <1>7, <1>8, <1>9, <1>10 DEF Resumes

\* One coroutine at a time owns the event loop.
BusyInv == \A t, u \in Tasks : task[t].pc \in Busy /\ task[u].pc \in Busy => t = u

\* Outside the handlers, a coroutine moves only to sleep or off an idle loop.
LEMMA AsksStep ==
    ASSUME QueueInv, Asks
    PROVE  /\ LoopFree
           /\ UNCHANGED <<svc, boot, day, feed, sm, cache, alloc, saved, done, logged, book>>
           /\ \E t \in Tasks :
                /\ task[t].pc = "idle" /\ task'[t].pc \in {"lock", "close"}
                /\ \A u \in Tasks : u # t => task'[u] = task[u]
  <1> USE DEF feedVars, decisionVars, cadenceVars, processVars, accountVars
  <1>0. task \in [Tasks -> TaskState]
    BY DEF QueueInv
  <1>1. ASSUME NEW t \in Tasks, NEW pc \in {"lock", "close"}, NEW job,
               task[t].pc = "idle", task' = [task EXCEPT ![t] = Entered(pc, job)]
        PROVE  /\ task[t].pc = "idle" /\ task'[t].pc \in {"lock", "close"}
               /\ \A u \in Tasks : u # t => task'[u] = task[u]
    BY <1>0, <1>1 DEF Entered
  <1>2. ASSUME NEW t \in Requests, RequestRebalance(t)
        PROVE  \E job : /\ task[t].pc = "idle" /\ LoopFree
                        /\ task' = [task EXCEPT ![t] = Entered("lock", job)]
    BY <1>2 DEF RequestRebalance, Enqueue
  <1>3. CASE \E t \in Requests : RequestRebalance(t)
    BY <1>1, <1>2, <1>3 DEF Tasks, RequestRebalance
  <1>4. CASE RequestToggle
    BY <1>1, <1>4, SchedulerFacts, ZenonT(60) DEF RequestToggle, Enqueue
  <1>5. CASE DispatchDaily
    BY <1>1, <1>5, SchedulerFacts DEF DispatchDaily
  <1>6. CASE DispatchWeekly
    BY <1>1, <1>6, SchedulerFacts DEF DispatchWeekly, Enqueue
  <1>7. CASE CrashBar
    BY <1>1, <1>7, SchedulerFacts DEF CrashBar, Enqueue
  <1> QED BY <1>3, <1>4, <1>5, <1>6, <1>7 DEF Asks

\* A coroutine resumes from an await only on a free event loop.
LEMMA ResumesLoop ==
    ASSUME NEW t \in Tasks, Resumes(t)
    PROVE  LoopFree \/ task[t].pc \in Busy
  BY DEF Resumes, Toggle, StartWeekly, StartDerisk, StartManual, StartClose, WarmupReturns,
         NoEvaluation, Evaluate, CheckTarget, Decide, Execute, Post, Acquires, Busy

\* Steps that are nobody's resumption and nobody's request.
World == FeedMoves \/ NewDay \/ StartFeed \/ StartWarmup \/ Shutdown \/ CancelScheduler
         \/ Restart \/ ResetAccount \/ ResetMemory

LEMMA Steps == Next <=> World \/ Asks \/ Proceeds
  BY DEF Next, World

LEMMA WorldTasks ==
    ASSUME QueueInv, World, NEW t \in Tasks
    PROVE  task'[t] = task[t] \/ task'[t] = IdleTask
  BY DEF QueueInv, World, FeedMoves, NewDay, StartFeed, StartWarmup, Shutdown, CancelScheduler,
         Restart, ResetAccount, ResetMemory

LEMMA IdleFacts == IdleTask.pc = "idle" /\ IdleTask.job = "none"
  BY DEF IdleTask, Entered

LEMMA BusyStep ==
    ASSUME QueueInv, BusyInv, Next
    PROVE  BusyInv'
  <1>1. CASE World
    <2>1. \A t \in Tasks : task'[t].pc \in Busy => task[t].pc \in Busy
      BY <1>1, WorldTasks, IdleFacts DEF Busy
    <2> QED BY <2>1 DEF BusyInv
  <1>2. CASE Asks
    BY <1>2, AsksStep DEF BusyInv, LoopFree
  <1>3. ASSUME NEW t \in Tasks, Resumes(t) PROVE BusyInv'
    <2>1. \A u \in Tasks : u # t => task'[u] = task[u]
      BY <1>3, OwnStep
    <2>2. \A u \in Tasks : task[u].pc \in Busy => u = t
      BY <1>3, ResumesLoop DEF LoopFree, BusyInv
    <2> QED BY <2>1, <2>2 DEF BusyInv
  <1> QED BY <1>1, <1>2, <1>3, Steps DEF Proceeds

-----------------------------------------------------------------------------
(* The scheduled rebalance fails closed.                                    *)

\* A weekly run past the lock is not paused: pause() would need the lock.  It
\* evaluates only when there is no decision to trade on, and from the moment
\* that it has one until it trades nothing is awaited: the feed is as safe as
\* it was when it was checked, or the decision is to hold.
WeeklyInv ==
    task["scheduler"].job = "weekly" =>
        /\ task["scheduler"].pc # "lock" => svc # "PAUSED"
        /\ task["scheduler"].pc \in {"close", "warmup", "evaluate"} => alloc.kind = "none"
        /\ task["scheduler"].pc \in {"target", "decide"} => Safe \/ alloc.kind \in {"hold", "none"}
        /\ task["scheduler"].pc = "execute" => Safe

LEMMA WeeklyOther ==
    ASSUME TypeInv, WeeklyInv, task'["scheduler"] = task["scheduler"],
           task["scheduler"].pc \notin {"idle", "lock"} /\ task["scheduler"].job = "weekly" =>
             /\ svc' # "PAUSED" /\ alloc' \in {alloc, NoAlloc}
             /\ task["scheduler"].pc \in Busy => UNCHANGED <<feed, sm>>
    PROVE  WeeklyInv'
  <1>1. task["scheduler"].job = "weekly" => task["scheduler"].pc # "idle"
    BY SchedulerFacts DEF TypeInv, QueueInv, JobInv, JobOK
  <1> QED BY <1>1 DEF WeeklyInv, Safe, NoAlloc, Busy

LEMMA WeeklyWorld ==
    ASSUME ServiceAssumption, TypeInv, WeeklyInv, World
    PROVE  WeeklyInv'
  <1> USE DEF feedVars, decisionVars, cadenceVars, processVars, accountVars
  <1>1. CASE task'["scheduler"] = IdleTask
    BY <1>1, IdleFacts DEF WeeklyInv
  <1>2. CASE task'["scheduler"] = task["scheduler"] /\ ~Restart /\ ~CancelScheduler
    <2>1. task["scheduler"].job = "weekly" /\ task["scheduler"].pc # "lock" => svc # "PAUSED"
      BY DEF WeeklyInv
    <2>2. CASE FeedMoves
      BY <1>2, <2>1, <2>2, WeeklyOther, SchedulerFacts DEF FeedMoves, LoopFree
    <2>3. CASE StartWarmup
      BY <1>2, <2>1, <2>3, WeeklyOther, SchedulerFacts DEF StartWarmup, LoopFree
    <2>4. CASE NewDay \/ StartFeed \/ Shutdown \/ ResetAccount \/ ResetMemory
      BY <1>2, <2>1, <2>4, WeeklyOther DEF NewDay, StartFeed, Shutdown, ResetAccount, ResetMemory
    <2> QED BY <1>2, <2>2, <2>3, <2>4 DEF World
  <1>3. CASE Restart \/ CancelScheduler
    <2>1. task'["scheduler"] = IdleTask
      BY <1>3, SchedulerFacts DEF Restart, CancelScheduler, TypeInv, QueueInv
    <2> QED BY <1>1, <2>1
  <1> QED BY <1>1, <1>2, <1>3, WorldTasks, SchedulerFacts DEF TypeInv

LEMMA WeeklyStep ==
    ASSUME ServiceAssumption, TypeInv, WeeklyInv, Next
    PROVE  WeeklyInv'
  <1> USE DEF feedVars, decisionVars, cadenceVars, processVars, accountVars
  <1>1. CASE World
    BY <1>1, WeeklyWorld
  <1>2. CASE Asks
    <2>1. CASE task'["scheduler"] = task["scheduler"]
      BY <1>2, <2>1, AsksStep, WeeklyOther DEF TypeInv, WeeklyInv
    <2>2. CASE task'["scheduler"] # task["scheduler"]
      <3>1. task'["scheduler"].pc \in {"lock", "close"}
        BY <1>2, <2>2, AsksStep, SchedulerFacts DEF TypeInv
      <3>2. DispatchDaily \/ DispatchWeekly
        BY <1>2, <2>2, SchedulerFacts
           DEF TypeInv, QueueInv, Asks, RequestRebalance, RequestToggle, CrashBar, Enqueue,
               ServiceAssumption
      <3>3. task'["scheduler"].job = "weekly" => task'["scheduler"].pc = "lock"
        BY <3>2, SchedulerFacts
           DEF DispatchDaily, DispatchWeekly, Enqueue, Entered, TypeInv, QueueInv
      <3> QED BY <3>3 DEF WeeklyInv
    <2> QED BY <2>1, <2>2
  <1>3. ASSUME NEW u \in Tasks, u # "scheduler", Resumes(u) PROVE WeeklyInv'
    <2>1. task'["scheduler"] = task["scheduler"]
      BY <1>3, OwnStep, SchedulerFacts DEF TypeInv
    <2>2. ~(task["scheduler"].pc \notin {"idle", "lock"} /\ task["scheduler"].job = "weekly")
      BY <1>3, OneInside, SchedulerFacts DEF TypeInv, Inside
    <2> QED BY <2>1, <2>2, WeeklyOther
  <1>4. CASE Resumes("scheduler")
    <2>0. /\ task \in [Tasks -> TaskState] /\ "scheduler" \in Tasks
          /\ task["scheduler"].job = "weekly" => task["scheduler"].pc # "idle"
      BY SchedulerFacts DEF TypeInv, QueueInv, JobInv, JobOK
    <2>1. ASSUME Finish("scheduler", TRUE) \/ Finish("scheduler", FALSE) PROVE WeeklyInv'
      BY <2>0, <2>1, IdleFacts DEF Finish, WeeklyInv
    <2>2. ASSUME NEW p \in PCs \ {"lock"}, Goto("scheduler", p),
                 task["scheduler"].job = "weekly" =>
                   /\ svc' # "PAUSED"
                   /\ p \in {"close", "warmup", "evaluate"} => alloc'.kind = "none"
                   /\ p \in {"target", "decide"} => Safe' \/ alloc'.kind \in {"hold", "none"}
                   /\ p = "execute" => Safe'
          PROVE  WeeklyInv'
      <3>1. task'["scheduler"].pc = p /\ task'["scheduler"].job = task["scheduler"].job
        BY <2>0, <2>2 DEF Goto, TaskState
      <3> QED BY <2>2, <3>1 DEF WeeklyInv
    <2>3. CASE StartWeekly
      <3>1. UNCHANGED <<svc, alloc, feed, sm>>
        BY <2>3 DEF StartWeekly
      <3>2. CASE WeeklyRefused
        BY <2>1, <2>3, <3>2, Zenon DEF StartWeekly
      <3>3. CASE ~WeeklyRefused
        <4>1. CASE alloc.kind = "none" /\ Goto("scheduler", "close")
          BY <2>2, <3>1, <3>3, <4>1 DEF WeeklyRefused, PCs, Busy
        <4>2. CASE alloc.kind # "none" /\ Goto("scheduler", "decide")
          BY <2>2, <3>1, <3>3, <4>2 DEF WeeklyRefused, Safe, PCs, Busy
        <4> QED BY <2>3, <3>3, <4>1, <4>2 DEF StartWeekly
      <3> QED BY <3>2, <3>3
    <2>4. CASE StartClose("scheduler") \/ NoEvaluation("scheduler")
      <3>1. UNCHANGED <<svc, alloc, feed, sm>> /\ task["scheduler"].pc \in {"close", "evaluate"}
        BY <2>4 DEF StartClose, NoEvaluation
      <3>2. task["scheduler"].job = "weekly" => svc' # "PAUSED" /\ alloc'.kind = "none"
        BY <3>1 DEF WeeklyInv
      <3>3. \/ Finish("scheduler", TRUE) \/ Finish("scheduler", FALSE)
            \/ Goto("scheduler", "target")
            \/ Goto("scheduler", IF Fresh THEN "evaluate" ELSE "warmup")
        BY <2>4, Zenon DEF StartClose, NoEvaluation, CloseSkips
      <3>4. CASE Goto("scheduler", "target")
        BY <2>2, <3>2, <3>4 DEF PCs, Busy
      <3>5. CASE Goto("scheduler", IF Fresh THEN "evaluate" ELSE "warmup")
        BY <2>2, <3>2, <3>5 DEF PCs, Busy
      <3> QED BY <2>1, <3>3, <3>4, <3>5
    <2>5. CASE WarmupReturns("scheduler")
      <3>1. task["scheduler"].job = "weekly" => svc' # "PAUSED" /\ alloc'.kind = "none"
        BY <2>5 DEF WarmupReturns, WeeklyInv
      <3> QED BY <2>2, <2>5, <3>1 DEF WarmupReturns, PCs, Busy
    <2>7. CASE Evaluate("scheduler")
      <3>1. Safe \/ alloc'.kind = "hold"
        BY <2>7 DEF Evaluate
      <3>2. UNCHANGED <<svc, feed, sm>>
        BY <2>7 DEF Evaluate
      <3>3. task["scheduler"].job = "weekly" => svc' # "PAUSED"
        BY <2>7, <3>2 DEF Evaluate, WeeklyInv
      <3>4. CASE Goto("scheduler", "target")
        BY <2>2, <3>1, <3>2, <3>3, <3>4 DEF Safe, PCs, Busy
      <3>5. Finish("scheduler", TRUE) \/ Finish("scheduler", FALSE) \/ Goto("scheduler", "target")
        BY <2>7, Zenon DEF Evaluate
      <3> QED BY <2>1, <3>4, <3>5
    <2>8. CASE CheckTarget("scheduler")
      <3>1. /\ UNCHANGED <<svc, alloc, feed, sm>>
            /\ Finish("scheduler", TRUE) \/ Goto("scheduler", "decide")
        BY <2>8, Zenon DEF CheckTarget
      <3>2. task["scheduler"].job = "weekly" =>
              svc' # "PAUSED" /\ (Safe' \/ alloc'.kind \in {"hold", "none"})
        BY <2>8, <3>1 DEF CheckTarget, WeeklyInv, Safe
      <3>3. CASE Goto("scheduler", "decide")
        BY <2>2, <3>2, <3>3 DEF PCs, Busy
      <3> QED BY <2>1, <3>1, <3>3
    <2>9. CASE Decide("scheduler")
      <3>1. ASSUME alloc.kind # "none", NEW o \in Orders(alloc.kind, book'.held),
                   task' = [task EXCEPT !["scheduler"].pc = IF o = "none" THEN "post" ELSE "execute",
                                        !["scheduler"].order = o,
                                        !["scheduler"].wipes = book.wipes]
            PROVE  WeeklyInv'
        <4>1. /\ task'["scheduler"].pc = IF o = "none" THEN "post" ELSE "execute"
              /\ task'["scheduler"].job = task["scheduler"].job
          BY <2>0, <3>1 DEF TaskState
        <4>2. o # "none" => alloc.kind # "hold"
          BY <3>1 DEF Orders
        <4>3. UNCHANGED <<svc, alloc, feed, sm>> /\ task["scheduler"].pc = "decide"
          BY <2>9 DEF Decide
        <4>4. task["scheduler"].job = "weekly" =>
                svc # "PAUSED" /\ (Safe \/ alloc.kind \in {"hold", "none"})
          BY <4>3 DEF WeeklyInv
        <4>5. task["scheduler"].job = "weekly" => svc' # "PAUSED" /\ (o # "none" => Safe')
          BY <3>1, <4>2, <4>3, <4>4 DEF Safe
        <4> QED BY <4>1, <4>5 DEF WeeklyInv
      <3>2. CASE alloc.kind # "none" /\ ComputeOrders("scheduler", alloc.kind)
        <4>1. alloc.kind \in Kinds \ {"none"} /\ book \in [held : Holdings, wipes : 0..MaxResets]
          BY <3>2 DEF TypeInv, TypeOK
        <4> QED BY <2>0, <3>1, <3>2, <4>1, Computed
      <3> QED BY <2>1, <2>9, <3>2, Zenon DEF Decide
    <2>10. CASE Execute("scheduler")
      <3>1. UNCHANGED svc /\ (Finish("scheduler", FALSE) \/ Goto("scheduler", "post"))
        BY <2>10, Zenon DEF Execute
      <3>2. task["scheduler"].job = "weekly" => svc' # "PAUSED"
        BY <2>10, <3>1 DEF Execute, WeeklyInv
      <3>3. CASE Goto("scheduler", "post")
        BY <2>2, <3>2, <3>3 DEF PCs, Busy
      <3> QED BY <2>1, <3>1, <3>3
    <2>11. CASE Post("scheduler")
      BY <2>1, <2>11, Zenon DEF Post
    <2>12. ~StartManual("scheduler")
      BY ServiceAssumption DEF ServiceAssumption, StartManual
    <2> QED BY <1>4, <2>3, <2>4, <2>5, <2>7, <2>8, <2>9, <2>10, <2>11, <2>12 DEF Resumes
  <1> QED BY <1>1, <1>2, <1>3, <1>4, Steps DEF Proceeds

\* The weekly rebalance books orders only on a live, monitored feed and outside
\* the operator's pause, however long it waited and whatever happened meanwhile
\* (_handle_weekly_rebalance).
THEOREM WeeklyFailsClosed == Spec => ScheduledTradesFailClosed
  <1>1. Init => TypeInv /\ WeeklyInv
    <2>1. Init => WeeklyInv
      BY IdleFacts, SchedulerFacts DEF Init, WeeklyInv
    <2> QED BY <2>1, ServiceAssumption, TypeInvInit
  <1>2. TypeInv /\ WeeklyInv /\ [Next]_vars => (TypeInv /\ WeeklyInv)'
    <2>1. WeeklyInv /\ UNCHANGED vars => WeeklyInv'
      BY DEF WeeklyInv, vars, Safe
    <2> QED BY <2>1, ServiceAssumption, TypeInvStep, WeeklyStep
  <1>3. TypeInv /\ WeeklyInv => [Fills("scheduler") => Safe /\ svc # "PAUSED"]_vars
    <2>1. ASSUME TypeInv, WeeklyInv, Fills("scheduler") PROVE Safe /\ svc # "PAUSED"
      <3>1. task["scheduler"].pc = "execute" /\ task["scheduler"].job = "weekly"
        BY <2>1, SchedulerFacts DEF Fills, TypeInv, QueueInv, JobInv, JobOK
      <3> QED BY <2>1, <3>1 DEF WeeklyInv
    <2> QED BY <2>1
  <1> QED BY <1>1, <1>2, <1>3, PTL DEF Spec, ScheduledTradesFailClosed

-----------------------------------------------------------------------------
(* The pause holds.                                                         *)

\* An unforced request past the lock met no pause, and none is granted before
\* it leaves the lock.
ManualInv == \A t \in Requests :
    task[t].job = "manual" /\ task[t].pc # "lock" => svc # "PAUSED"

\* Only pause() pauses, and a handler's own steps leave the state alone.
LEMMA WhoPauses ==
    ASSUME QueueInv, Next, svc' = "PAUSED", svc # "PAUSED"
    PROVE  Resumes("toggle") /\ HasLock("toggle")
  <1> USE DEF feedVars, decisionVars, cadenceVars, processVars, accountVars
  <1>1. ~World
    BY DEF World, FeedMoves, NewDay, StartFeed, StartWarmup, Shutdown, CancelScheduler, Restart,
           ResetAccount, ResetMemory
  <1>2. ~Asks
    BY AsksStep
  <1>3. PICK t \in Tasks : Resumes(t)
    BY <1>1, <1>2, Steps DEF Proceeds
  <1>4. ~(StartWeekly \/ StartDerisk \/ StartManual(t) \/ StartClose(t) \/ WarmupReturns(t)
          \/ NoEvaluation(t) \/ Evaluate(t) \/ CheckTarget(t) \/ Decide(t) \/ Execute(t) \/ Post(t))
    BY DEF StartWeekly, StartDerisk, StartManual, StartClose, WarmupReturns, NoEvaluation, Evaluate,
           CheckTarget, Decide, Execute, Post
  <1>5. t = "toggle" /\ Toggle
    BY <1>3, <1>4 DEF Resumes
  <1> QED BY <1>3, <1>5 DEF Toggle, Acquires

LEMMA ManualStep ==
    ASSUME ServiceAssumption, TypeInv, ManualInv, Next
    PROVE  ManualInv'
  <1> SUFFICES ASSUME NEW t \in Requests, task'[t].job = "manual", task'[t].pc # "lock",
                      svc' = "PAUSED"
               PROVE  FALSE
    BY DEF ManualInv
  <1>0. /\ t \in Tasks /\ t \notin {"scheduler", "breaker", "toggle"}
        /\ "scheduler" \in Tasks /\ "toggle" \in Tasks
        /\ task \in [Tasks -> TaskState] /\ JobOK(t, task[t])
    BY DEF Tasks, ServiceAssumption, TypeInv, QueueInv, JobInv
  <1>1. CASE task'[t] = task[t]
    <2>1. svc # "PAUSED"
      BY <1>1 DEF ManualInv
    <2>2. Inside(t)
      BY <1>0, <1>1 DEF Inside, JobOK
    <2>3. HasLock(t) /\ HasLock("toggle")
      BY <1>0, <2>1, <2>2, WhoPauses DEF TypeInv, QueueInv, LockInv
    <2> QED BY <1>0, <2>3 DEF HasLock
  <1>2. CASE World
    BY <1>0, <1>1, <1>2, WorldTasks, IdleFacts DEF TypeInv
  <1>3. CASE Asks
    <2>1. ASSUME task'[t] # task[t] PROVE task'[t].pc = "lock"
      <3>1. PICK job : task' = [task EXCEPT ![t] = Entered("lock", job)]
        BY <1>0, <1>3, <2>1
           DEF Asks, RequestRebalance, RequestToggle, DispatchDaily, DispatchWeekly, CrashBar, Enqueue
      <3> QED BY <1>0, <3>1 DEF Entered
    <2> QED BY <1>1, <2>1
  <1>4. ASSUME NEW u \in Tasks, Resumes(u), u # t PROVE FALSE
    BY <1>0, <1>1, <1>4, OwnStep DEF TypeInv
  <1>5. CASE Resumes(t)
    <2>1. svc = "PAUSED"
      BY <1>0, <1>5, WhoPauses, OneInside
         DEF TypeInv, Resumes, StartManual, StartClose, WarmupReturns, NoEvaluation, Evaluate,
             CheckTarget, Decide, Execute, Post
    <2>2. CASE StartManual(t)
      <3>1. CASE ManualRefused(t)
        BY <1>0, <2>2, <3>1, IdleFacts DEF StartManual
      <3>2. CASE ~ManualRefused(t)
        BY <1>0, <2>1, <2>2, <3>2 DEF StartManual, ManualRefused, Goto, TaskState
      <3> QED BY <3>1, <3>2
    <2>3. CASE ~StartManual(t)
      <3>1. task[t].pc \notin {"idle", "lock"}
        BY <1>0, <1>5, <2>3
           DEF Resumes, StartClose, WarmupReturns, NoEvaluation, Evaluate, CheckTarget, Decide,
               Execute, Post, Busy
      <3>2. task'[t].job \in {task[t].job, "none"}
        <4>1. ASSUME Finish(t, TRUE) \/ Finish(t, FALSE) PROVE task'[t].job = "none"
          BY <1>0, <4>1, IdleFacts DEF Finish
        <4>2. ASSUME NEW p, Goto(t, p) PROVE task'[t].job = task[t].job
          BY <1>0, <4>2 DEF Goto, TaskState
        <4>3. CASE WarmupReturns(t)
          BY <4>2, <4>3 DEF WarmupReturns
        <4>4. CASE StartClose(t) \/ NoEvaluation(t)
          <5>1. Finish(t, TRUE) \/ Finish(t, FALSE) \/ \E p : Goto(t, p)
            BY <4>4, Zenon DEF StartClose, NoEvaluation, CloseSkips
          <5> QED BY <4>1, <4>2, <5>1
        <4>5. CASE Evaluate(t) \/ CheckTarget(t) \/ Execute(t) \/ Post(t)
          <5>1. Finish(t, TRUE) \/ Finish(t, FALSE) \/ \E p : Goto(t, p)
            BY <4>5, Zenon DEF Evaluate, CheckTarget, Execute, Post
          <5> QED BY <4>1, <4>2, <5>1
        <4>6. CASE Decide(t)
          <5>1. \/ Finish(t, FALSE)
                \/ \E o :
                     task' = [task EXCEPT ![t].pc = IF o = "none" THEN "post" ELSE "execute",
                                          ![t].order = o, ![t].wipes = book.wipes]
            BY <4>6, Zenon DEF Decide, ComputeOrders
          <5>2. CASE Finish(t, FALSE)
            BY <4>1, <5>2
          <5>3. ASSUME NEW o,
                       task' = [task EXCEPT ![t].pc = IF o = "none" THEN "post" ELSE "execute",
                                            ![t].order = o, ![t].wipes = book.wipes]
                PROVE  task'[t].job = task[t].job
            BY <1>0, <5>3 DEF TaskState
          <5> QED BY <5>1, <5>2, <5>3
        <4> QED BY <1>0, <1>5, <2>3, <4>3, <4>4, <4>5, <4>6 DEF Resumes
      <3> QED BY <2>1, <3>1, <3>2 DEF ManualInv
    <2> QED BY <2>2, <2>3
  <1> QED BY <1>2, <1>3, <1>4, <1>5, Steps DEF Proceeds

\* A pause granted by the started service is in force until resume or shutdown():
\* start(), which would lift it, has ended before.
FrozenInv == frozen => svc = "PAUSED" /\ boot = "up"

LEMMA FrozenStep ==
    ASSUME FrozenInv, Next
    PROVE  FrozenInv'
  <1> USE DEF feedVars, decisionVars, cadenceVars, processVars, accountVars
  <1>1. CASE World
    <2>1. CASE StartWarmup
      BY <2>1 DEF StartWarmup, FrozenInv
    <2>2. CASE StartFeed
      BY <2>2 DEF StartFeed, FrozenInv
    <2>3. CASE Shutdown \/ Restart
      BY <2>3 DEF Shutdown, Restart, FrozenInv
    <2>4. CASE FeedMoves \/ NewDay \/ CancelScheduler \/ ResetAccount \/ ResetMemory
      BY <2>4 DEF FeedMoves, NewDay, CancelScheduler, ResetAccount, ResetMemory, FrozenInv
    <2> QED BY <1>1, <2>1, <2>2, <2>3, <2>4 DEF World
  <1>2. CASE Asks
    <2>1. UNCHANGED <<svc, frozen, boot>>
      BY <1>2 DEF Asks, RequestRebalance, RequestToggle, DispatchDaily, DispatchWeekly, CrashBar
    <2> QED BY <2>1 DEF FrozenInv
  <1>3. ASSUME NEW t \in Tasks, Resumes(t) PROVE FrozenInv'
    <2>1. CASE Toggle
      BY <2>1 DEF Toggle, FrozenInv
    <2>2. CASE ~Toggle
      <3>1. UNCHANGED <<svc, frozen, boot>>
        BY <1>3, <2>2
           DEF Resumes, StartWeekly, StartDerisk, StartManual, StartClose, WarmupReturns, NoEvaluation,
               Evaluate, CheckTarget, Decide, Execute, Post
      <3> QED BY <3>1 DEF FrozenInv
    <2> QED BY <2>1, <2>2
  <1> QED BY <1>1, <1>2, <1>3, Steps DEF Proceeds

\* Once the started service has granted a pause, no unforced request trades until it
\* is resumed or shut down, requests queued before it included (manual_rebalance).
THEOREM PauseHolds == Spec => PauseFreezesManual
  <1>1. Init => TypeInv /\ ManualInv /\ FrozenInv
    <2>1. Init => ManualInv /\ FrozenInv
      BY DEF Init, ManualInv, FrozenInv
    <2> QED BY <2>1, ServiceAssumption, TypeInvInit
  <1>2. TypeInv /\ ManualInv /\ FrozenInv /\ [Next]_vars => (TypeInv /\ ManualInv /\ FrozenInv)'
    <2>1. ManualInv /\ FrozenInv /\ UNCHANGED vars => ManualInv' /\ FrozenInv'
      BY DEF ManualInv, FrozenInv, vars
    <2> QED BY <2>1, ServiceAssumption, TypeInvStep, ManualStep, FrozenStep
  <1>3. ManualInv /\ FrozenInv =>
          [\A t \in Requests : Fills(t) /\ task[t].job = "manual" => ~frozen]_vars
    BY DEF Fills, ManualInv, FrozenInv
  <1> QED BY <1>1, <1>2, <1>3, PTL DEF Spec, PauseFreezesManual

-----------------------------------------------------------------------------
(* A daily close that is done left a decision in storage.                   *)

DailyInv == "daily" \in done \cup logged => saved.day = day

LEMMA DailyKept ==
    ASSUME DailyInv, UNCHANGED <<saved, day>>,
           "daily" \in done' \cup logged' => "daily" \in done \cup logged
    PROVE  DailyInv'
  BY DEF DailyInv

\* The end of a handler that raised, skipped or ran another job.
LEMMA FinishNotDaily ==
    ASSUME NEW t \in Tasks,
           \/ Finish(t, FALSE)
           \/ Finish(t, TRUE) /\ (skipped' \/ task[t].job # "daily")
    PROVE  "daily" \in done' \cup logged' => "daily" \in done \cup logged
  BY DEF Finish

LEMMA DailyResumes ==
    ASSUME TypeInv, DailyInv, NEW t \in Tasks, Resumes(t)
    PROVE  DailyInv'
  <1> USE DEF feedVars, decisionVars, cadenceVars, processVars, accountVars
  <1>0. task[t].job = "daily" => task[t].pc \in {"close", "warmup", "evaluate"}
    BY DEF TypeInv, QueueInv, JobInv, JobOK
  <1>1. CASE Evaluate(t)
    <2>1. Row(alloc').day = day /\ day' = day
      BY <1>1 DEF Evaluate, Row
    <2>2. CASE saved' = Row(alloc')
      BY <2>1, <2>2 DEF DailyInv
    <2>3. CASE Finish(t, FALSE) /\ saved' \in {saved, Row(alloc')}
      BY <2>1, <2>2, <2>3, DailyKept, FinishNotDaily
    <2> QED BY <1>1, <2>2, <2>3, Zenon DEF Evaluate
  <1>2. CASE StartClose(t) \/ NoEvaluation(t)
    <2>1. \/ CloseSkips(t) \/ Finish(t, FALSE) \/ UNCHANGED <<done, logged>>
      BY <1>2, Zenon DEF StartClose, NoEvaluation
    <2>2. CASE CloseSkips(t)
      <3>1. UNCHANGED <<done, logged>> \/ (Finish(t, TRUE) /\ skipped')
        BY <2>2, Zenon DEF CloseSkips
      <3> QED BY <1>2, <3>1, DailyKept, FinishNotDaily DEF StartClose, NoEvaluation
    <2> QED BY <1>2, <2>1, <2>2, DailyKept, FinishNotDaily DEF StartClose, NoEvaluation
  <1>3. CASE (t = "scheduler" /\ StartWeekly) \/ CheckTarget(t) \/ Decide(t) \/ Execute(t) \/ Post(t)
    <2>1. task[t].pc \notin {"close", "warmup", "evaluate"}
      BY <1>3 DEF StartWeekly, Acquires, CheckTarget, Decide, Execute, Post
    <2>2. Finish(t, TRUE) \/ Finish(t, FALSE) \/ UNCHANGED <<done, logged>>
      BY <1>3, Zenon DEF StartWeekly, CheckTarget, Decide, Execute, Post
    <2>3. UNCHANGED <<saved, day>>
      BY <1>3 DEF StartWeekly, CheckTarget, Decide, Execute, Post
    <2> QED BY <1>0, <2>1, <2>2, <2>3, DailyKept, FinishNotDaily
  <1>4. CASE Toggle \/ StartDerisk \/ StartManual(t) \/ WarmupReturns(t)
    BY <1>4, DailyKept DEF Toggle, StartDerisk, StartManual, WarmupReturns
  <1> QED BY <1>1, <1>2, <1>3, <1>4 DEF Resumes

LEMMA DailyStep ==
    ASSUME TypeInv, DailyInv, Next
    PROVE  DailyInv'
  <1> USE DEF feedVars, decisionVars, cadenceVars, processVars, accountVars
  <1>1. CASE NewDay
    BY <1>1 DEF NewDay, DailyInv
  <1>2. CASE Restart
    <2>1. done' \subseteq logged /\ UNCHANGED <<saved, day, logged>>
      BY <1>2 DEF Restart, Restored
    <2> QED BY <2>1, DailyKept
  <1>3. CASE World /\ ~NewDay /\ ~Restart
    BY <1>3, DailyKept
       DEF World, FeedMoves, StartFeed, StartWarmup, Shutdown, CancelScheduler, ResetAccount, ResetMemory
  <1>4. CASE Asks
    BY <1>4, AsksStep, DailyKept DEF TypeInv
  <1> QED BY <1>1, <1>2, <1>3, <1>4, DailyResumes, Steps DEF Proceeds

\* DAILY_CLOSE counts as done only with today's decision in storage: no skip,
\* failure, retry or restart breaks the tie between the two tables
\* (_handle_daily_close, _run_cadence, _save_cadence_done).
THEOREM DailyDoneIsDecided == Spec => []DailyDoneMeansEvaluated
  <1>1. Init => TypeInv /\ DailyInv
    BY ServiceAssumption, TypeInvInit DEF Init, DailyInv
  <1>2. TypeInv /\ DailyInv /\ [Next]_vars => (TypeInv /\ DailyInv)'
    <2>1. DailyInv /\ UNCHANGED vars => DailyInv'
      BY DEF DailyInv, vars
    <2> QED BY <2>1, ServiceAssumption, TypeInvStep, DailyStep
  <1>3. DailyInv => DailyDoneMeansEvaluated
    BY DEF DailyInv, DailyDoneMeansEvaluated
  <1> QED BY <1>1, <1>2, <1>3, PTL DEF Spec

-----------------------------------------------------------------------------
(* The cadences keep their contract.                                        *)

TriedInv == task["scheduler"].job = "daily" => tried
ContractInv == TypeInv /\ TriedInv
ContractStep == Contract!Next \/ UNCHANGED Contract!vars

LEMMA Stutters ==
    ASSUME TriedInv, task'["scheduler"].job = task["scheduler"].job,
           UNCHANGED <<day, tried, done, logged>>
    PROVE  ContractStep /\ TriedInv'
  BY DEF ContractStep, Contract!vars, TriedInv

\* The end of the scheduler's handler completes its cadence or fails it.
LEMMA FinishContract ==
    ASSUME ContractInv, task["scheduler"].job \in Cadences, UNCHANGED <<day, tried>>,
           Finish("scheduler", TRUE) \/ Finish("scheduler", FALSE)
    PROVE  ContractStep /\ TriedInv'
  <1> DEFINE c == task["scheduler"].job
  <1>1. task'["scheduler"].job = "none"
    BY SchedulerFacts, IdleFacts DEF Finish, ContractInv, TypeInv, QueueInv
  <1>2. c \in Contract!Cadences
    BY DEF Cadences, Contract!Cadences
  <1>3. CASE UNCHANGED <<done, logged>>
    BY <1>1, <1>2, <1>3 DEF ContractStep, Contract!Next, Contract!Fails, TriedInv
  <1>4. CASE /\ done' = done \cup {c}
             /\ logged' = logged \cup {c} \/ (StorageFaults /\ UNCHANGED logged)
    <2>1. ("daily" \in done' <=> "daily" \in done \/ c = "daily") /\ (c = "daily" => tried)
      BY <1>4 DEF ContractInv, TriedInv
    <2>2. (tried \/ "daily" \in done)' <=> (tried \/ "daily" \in done)
      BY <2>1
    <2> QED BY <1>1, <1>2, <1>4, <2>2, Zenon DEF ContractStep, Contract!Next, Contract!Completes, TriedInv
  <1> QED BY <1>3, <1>4, Zenon DEF Finish

\* A stretch of a handler ends it or goes on in it.
LEMMA HandlerStep ==
    ASSUME NEW t \in Tasks,
           \/ StartWeekly /\ t = "scheduler"
           \/ StartClose(t) \/ NoEvaluation(t) \/ Evaluate(t) \/ CheckTarget(t)
           \/ Decide(t) \/ Execute(t) \/ Post(t)
    PROVE  \/ Finish(t, TRUE) \/ Finish(t, FALSE)
           \/ /\ done' = done /\ logged' = logged
              /\ \/ \E p : Goto(t, p)
                 \/ \E p, o, w : task' = [task EXCEPT ![t].pc = p, ![t].order = o, ![t].wipes = w]
  <1>1. CASE StartWeekly /\ t = "scheduler"
    <2>1. Finish(t, TRUE) \/ ((\E p : Goto(t, p)) /\ UNCHANGED <<skipped, done, logged, lockQ>>)
      BY <1>1, Zenon DEF StartWeekly
    <2> QED BY <2>1
  <1>2. CASE StartClose(t) \/ NoEvaluation(t)
    <2>1. \/ CloseSkips(t) \/ Finish(t, FALSE)
          \/ (\E p : Goto(t, p)) /\ UNCHANGED <<skipped, done, logged, lockQ>>
      BY <1>2, Zenon DEF StartClose, NoEvaluation
    <2>2. CloseSkips(t) => Finish(t, TRUE) \/ ((\E p : Goto(t, p)) /\ UNCHANGED <<lockQ, done, logged>>)
      BY Zenon DEF CloseSkips
    <2> QED BY <2>1, <2>2
  <1>3. CASE Evaluate(t) \/ Execute(t)
    <2>1. \/ Finish(t, TRUE) \/ Finish(t, FALSE)
          \/ (\E p : Goto(t, p)) /\ UNCHANGED <<lockQ, done, logged>>
      BY <1>3, Zenon DEF Evaluate, Execute
    <2> QED BY <2>1
  <1>4. CASE CheckTarget(t) \/ Post(t)
    <2>1. \/ Finish(t, TRUE) \/ Finish(t, FALSE)
          \/ (\E p : Goto(t, p)) /\ UNCHANGED <<skipped, lockQ, done, logged>>
      BY <1>4, Zenon DEF CheckTarget, Post
    <2> QED BY <2>1
  <1>5. CASE Decide(t)
    <2>1. \/ Finish(t, FALSE)
          \/ /\ \E o : task' = [task EXCEPT ![t].pc = IF o = "none" THEN "post" ELSE "execute",
                                            ![t].order = o, ![t].wipes = book.wipes]
             /\ UNCHANGED <<lockQ, done, logged>>
      BY <1>5, Zenon DEF Decide, ComputeOrders
    <2>2. ASSUME NEW o,
                 task' = [task EXCEPT ![t].pc = IF o = "none" THEN "post" ELSE "execute",
                                      ![t].order = o, ![t].wipes = book.wipes]
          PROVE  \E p, q, w : task' = [task EXCEPT ![t].pc = p, ![t].order = q, ![t].wipes = w]
      BY <2>2, Zenon
    <2> QED BY <2>1, <2>2
  <1> QED BY <1>1, <1>2, <1>3, <1>4, <1>5

\* A resumption of the scheduler's coroutine ends its cadence or stays in it.
LEMMA SchedulerResumes ==
    ASSUME ServiceAssumption, TypeInv, Resumes("scheduler")
    PROVE  /\ task["scheduler"].job \in Cadences /\ UNCHANGED <<day, tried>>
           /\ \/ Finish("scheduler", TRUE) \/ Finish("scheduler", FALSE)
              \/ task'["scheduler"].job = task["scheduler"].job /\ UNCHANGED <<done, logged>>
  <1> USE DEF feedVars, decisionVars, cadenceVars, processVars, accountVars
  <1>0. task \in [Tasks -> TaskState] /\ "scheduler" \in Tasks /\ JobOK("scheduler", task["scheduler"])
    BY SchedulerFacts DEF TypeInv, QueueInv, JobInv
  <1>2. \/ StartWeekly \/ StartClose("scheduler") \/ NoEvaluation("scheduler")
        \/ WarmupReturns("scheduler") \/ Evaluate("scheduler") \/ CheckTarget("scheduler")
        \/ Execute("scheduler") \/ Post("scheduler") \/ Decide("scheduler")
    BY ServiceAssumption DEF ServiceAssumption, Resumes, StartManual
  <1>3. task["scheduler"].pc # "idle" /\ UNCHANGED <<day, tried>>
    BY <1>2 DEF StartWeekly, Acquires, StartClose, WarmupReturns, NoEvaluation, Evaluate,
                CheckTarget, Decide, Execute, Post
  <1>4. task["scheduler"].job \in Cadences
    BY <1>0, <1>3 DEF JobOK, Cadences
  <1>5. CASE WarmupReturns("scheduler")
    <2>1. task'["scheduler"].job = task["scheduler"].job /\ UNCHANGED <<done, logged>>
      BY <1>0, <1>5 DEF WarmupReturns, Goto, TaskState
    <2> QED BY <1>3, <1>4, <2>1
  <1>6. CASE ~WarmupReturns("scheduler")
    <2>1. \/ Finish("scheduler", TRUE) \/ Finish("scheduler", FALSE)
          \/ /\ done' = done /\ logged' = logged
             /\ \/ \E p : Goto("scheduler", p)
                \/ \E p, o, w : task' = [task EXCEPT !["scheduler"].pc = p, !["scheduler"].order = o,
                                                     !["scheduler"].wipes = w]
      BY <1>0, <1>2, <1>6, HandlerStep
    <2>2. ASSUME NEW p, Goto("scheduler", p) PROVE task'["scheduler"].job = task["scheduler"].job
      BY <1>0, <2>2 DEF Goto, TaskState
    <2>3. ASSUME NEW p, NEW o, NEW w,
                 task' = [task EXCEPT !["scheduler"].pc = p, !["scheduler"].order = o,
                                      !["scheduler"].wipes = w]
          PROVE  task'["scheduler"].job = task["scheduler"].job
      BY <1>0, <2>3 DEF TaskState
    <2>4. \/ Finish("scheduler", TRUE) \/ Finish("scheduler", FALSE)
          \/ task'["scheduler"].job = task["scheduler"].job /\ done' = done /\ logged' = logged
      BY <2>1, <2>2, <2>3, Zenon
    <2> QED BY <1>3, <1>4, <2>4
  <1> QED BY <1>5, <1>6

LEMMA ContractWorld ==
    ASSUME ServiceAssumption, ContractInv, World
    PROVE  ContractStep /\ TriedInv'
  <1> USE DEF feedVars, decisionVars, cadenceVars, processVars, accountVars
  <1>0. task \in [Tasks -> TaskState] /\ "scheduler" \in Tasks /\ JobOK("scheduler", task["scheduler"])
    BY SchedulerFacts DEF ContractInv, TypeInv, QueueInv, JobInv
  <1>1. CASE NewDay
    <2>1. task["scheduler"].job = "none" /\ UNCHANGED task
      BY <1>0, <1>1 DEF NewDay, JobOK
    <2>2. ~(tried \/ "daily" \in done)'
      BY <1>1 DEF NewDay
    <2> QED BY <1>1, <2>1, <2>2, Zenon DEF NewDay, ContractStep, Contract!Next, Contract!NewDay, TriedInv
  <1>2. CASE Restart
    <2>1. task'["scheduler"].job = "none"
      BY <1>0, <1>2, IdleFacts DEF Restart
    <2>2. done' = logged \/ (StorageFaults /\ done' = {})
      BY <1>2 DEF Restart, Restored
    <2>3. tried' = FALSE /\ UNCHANGED <<day, logged>>
      BY <1>2 DEF Restart
    <2>4. (tried \/ "daily" \in done)' = ("daily" \in done') /\ TriedInv'
      BY <2>1, <2>3 DEF TriedInv
    <2>5. Contract!Restart
      BY <2>1, <2>2, <2>3, <2>4 DEF Contract!Restart
    <2> QED BY <2>4, <2>5 DEF ContractStep, Contract!Next
  <1>3. CASE CancelScheduler
    <2>1. task'["scheduler"].job = "none" /\ task["scheduler"].job \in Contract!Cadences
      BY <1>0, <1>3, IdleFacts DEF CancelScheduler, JobOK, Contract!Cadences
    <2>2. UNCHANGED <<day, tried, done, logged>>
      BY <1>3 DEF CancelScheduler
    <2> QED BY <2>1, <2>2 DEF ContractStep, Contract!Next, Contract!Fails, TriedInv
  <1>4. CASE FeedMoves \/ StartFeed \/ StartWarmup \/ Shutdown \/ ResetAccount \/ ResetMemory
    BY <1>4, Stutters
       DEF ContractInv, FeedMoves, StartFeed, StartWarmup, Shutdown, ResetAccount, ResetMemory
  <1> QED BY <1>1, <1>2, <1>3, <1>4 DEF World

LEMMA ContractAsks ==
    ASSUME ServiceAssumption, ContractInv, Asks
    PROVE  ContractStep /\ TriedInv'
  <1> USE DEF feedVars, decisionVars, cadenceVars, processVars, accountVars
  <1>0. task \in [Tasks -> TaskState] /\ "scheduler" \in Tasks /\ JobOK("scheduler", task["scheduler"])
    BY SchedulerFacts DEF ContractInv, TypeInv, QueueInv, JobInv
  <1>1. CASE DispatchDaily
    <2>1. task["scheduler"].job = "none" /\ task'["scheduler"].job = "daily"
      BY <1>0, <1>1 DEF DispatchDaily, JobOK, Entered
    <2>2. "daily" \in Contract!Cadences /\ (tried \/ "daily" \in done)' = TRUE
      BY <1>1 DEF DispatchDaily, Contract!Cadences
    <2>3. Contract!Dispatch("daily")
      BY <1>1, <2>1, <2>2 DEF DispatchDaily, Contract!Dispatch
    <2> QED BY <1>1, <2>2, <2>3 DEF DispatchDaily, ContractStep, Contract!Next, TriedInv
  <1>2. CASE DispatchWeekly
    <2>1. task["scheduler"].job = "none" /\ task'["scheduler"].job = "weekly"
      BY <1>0, <1>2 DEF DispatchWeekly, Enqueue, JobOK, Entered
    <2>2. "weekly" \in Contract!Cadences
      BY DEF Contract!Cadences
    <2>3. (tried \/ "daily" \in done)' = (tried \/ "daily" \in done) /\ (tried \/ "daily" \in done)
      BY <1>2 DEF DispatchWeekly
    <2>4. Contract!Dispatch("weekly")
      BY <1>2, <2>1, <2>3 DEF DispatchWeekly, Contract!Dispatch
    <2> QED BY <2>1, <2>2, <2>4 DEF ContractStep, Contract!Next, TriedInv
  <1>3. CASE RequestToggle \/ CrashBar
    BY <1>0, <1>3, Stutters DEF ContractInv, RequestToggle, CrashBar, Enqueue
  <1>4. ASSUME NEW t \in Requests, RequestRebalance(t) PROVE ContractStep /\ TriedInv'
    BY <1>0, <1>4, Stutters DEF ContractInv, RequestRebalance, Enqueue, ServiceAssumption
  <1> QED BY <1>1, <1>2, <1>3, <1>4 DEF Asks

LEMMA ContractResumes ==
    ASSUME ServiceAssumption, ContractInv, NEW t \in Tasks, Resumes(t)
    PROVE  ContractStep /\ TriedInv'
  <1> USE DEF feedVars, decisionVars, cadenceVars, processVars, accountVars
  <1>1. CASE t = "scheduler"
    BY <1>1, SchedulerResumes, FinishContract, Stutters DEF ContractInv
  <1>2. CASE t # "scheduler"
    <2>1. task'["scheduler"] = task["scheduler"]
      BY <1>2, OwnStep, SchedulerFacts DEF ContractInv, TypeInv
    <2>2. ASSUME Finish(t, TRUE) \/ Finish(t, FALSE) PROVE UNCHANGED <<done, logged>>
      BY <1>2, <2>2 DEF Finish
    <2>3. ASSUME \/ StartClose(t) \/ NoEvaluation(t) \/ Evaluate(t) \/ CheckTarget(t)
                 \/ Decide(t) \/ Execute(t) \/ Post(t)
          PROVE  UNCHANGED <<done, logged>>
      BY <2>2, <2>3, HandlerStep
    <2>5. ASSUME Toggle \/ StartDerisk \/ StartManual(t) \/ WarmupReturns(t)
          PROVE  UNCHANGED <<done, logged>>
      BY <2>5 DEF Toggle, StartDerisk, StartManual, WarmupReturns
    <2>6. UNCHANGED <<done, logged>>
      BY <1>2, <2>3, <2>5 DEF Resumes
    <2>7. UNCHANGED <<day, tried>>
      BY <1>2 DEF Resumes, Toggle, StartDerisk, StartManual, StartClose, WarmupReturns, NoEvaluation,
                  Evaluate, CheckTarget, Decide, Execute, Post
    <2> QED BY <2>1, <2>6, <2>7, Stutters DEF ContractInv
  <1> QED BY <1>1, <1>2

\* Whatever the handlers, the operators, the feed, storage and restarts do, the
\* cadences are run as CadenceContract says: refinement of the scheduling rules
\* by the service that lives under them (_run_cadence, _once, start).
THEOREM KeepsContract == Spec => ImplementsContract
  <1>1. Init => ContractInv /\ Contract!Init
    <2>1. Init => TypeInv
      BY ServiceAssumption, TypeInvInit
    <2>2. Init => task["scheduler"].job = "none"
      BY SchedulerFacts, IdleFacts DEF Init
    <2> QED BY <2>1, <2>2 DEF Init, ContractInv, TriedInv, Contract!Init
  <1>2. ContractInv /\ [Next]_vars => ContractInv' /\ [Contract!Next]_Contract!vars
    <2>1. CASE UNCHANGED vars
      <3>1. ASSUME ContractInv PROVE TypeInv' /\ TriedInv' /\ UNCHANGED Contract!vars
        BY <2>1, <3>1, ServiceAssumption, TypeInvStep DEF ContractInv, TriedInv, vars, Contract!vars
      <3> QED BY <3>1 DEF ContractInv
    <2>2. ASSUME ContractInv, Next PROVE ContractInv' /\ ContractStep
      <3>1. TypeInv'
        BY <2>2, ServiceAssumption, TypeInvStep DEF ContractInv
      <3>2. ContractStep /\ TriedInv'
        BY <2>2, Steps, ServiceAssumption, ContractWorld, ContractAsks, ContractResumes DEF Proceeds
      <3> QED BY <3>1, <3>2 DEF ContractInv
    <2> QED BY <2>1, <2>2 DEF ContractStep
  <1> QED BY <1>1, <1>2, PTL DEF Spec, ImplementsContract, Contract!Spec

-----------------------------------------------------------------------------
(* What a stretch relies on until it ends.                                  *)

\* The orders a handler is about to book serve the decision in force, and the
\* book that it leaves is the one they name, unless the account was wiped in between.
InForce(t) == alloc.kind # "none" /\ task[t].wipes = book.wipes
OnTarget(t) == /\ task[t].order \in {"none", book.held}
               /\ alloc.kind \in {"shv", "emergency"} => book.held # "risk"

StretchOK(t) ==
    /\ task[t].pc = "evaluate" => feed = "live" \/ cache.src = "none"
    /\ task[t].pc \in {"execute", "post"} => task[t].wipes <= book.wipes
    /\ task[t].pc = "execute" /\ InForce(t) => task[t].order \in Orders(alloc.kind, book.held)
    /\ task[t].pc = "post" /\ InForce(t) => OnTarget(t)

DeriskOK ==
    /\ task["breaker"].pc \in {"idle", "lock", "execute", "post"}
    /\ task["breaker"].pc = "execute" => task["breaker"].order # "risk"
    /\ task["breaker"].pc = "post" => book.held # "risk"

StretchInv == (\A t \in Tasks : StretchOK(t)) /\ DeriskOK

LEMMA StretchOutside ==
    ASSUME NEW t \in Tasks, task'[t].pc \notin {"evaluate", "execute", "post"}
    PROVE  StretchOK(t)'
  BY DEF StretchOK

LEMMA StretchSame ==
    ASSUME NEW t \in Tasks, StretchOK(t), task'[t] = task[t], UNCHANGED <<feed, cache, alloc, book>>
    PROVE  StretchOK(t)'
  BY DEF StretchOK, InForce, OnTarget

LEMMA StretchWorld ==
    ASSUME TypeInv, StretchInv, World
    PROVE  StretchInv'
  <1> USE DEF feedVars, decisionVars, cadenceVars, processVars, accountVars
  <1>1. CASE FeedMoves \/ StartWarmup
    <2>1. UNCHANGED <<task, book>> /\ LoopFree
      BY <1>1 DEF FeedMoves, StartWarmup
    <2>2. \A t \in Tasks : task'[t].pc \notin {"evaluate", "execute", "post"}
      BY <2>1 DEF LoopFree, Busy
    <2> QED BY <2>1, <2>2, StretchOutside, SchedulerFacts DEF StretchInv, DeriskOK
  <1>2. CASE NewDay \/ StartFeed \/ Shutdown \/ CancelScheduler
    <2>1. UNCHANGED <<feed, cache, alloc, book>>
      BY <1>2 DEF NewDay, StartFeed, Shutdown, CancelScheduler
    <2>2. ASSUME NEW t \in Tasks PROVE StretchOK(t)'
      <3>1. task'[t] = task[t] \/ task'[t] = IdleTask
        BY <1>2, WorldTasks DEF World, TypeInv
      <3> QED BY <2>1, <3>1, StretchOutside, StretchSame, IdleFacts DEF StretchInv
    <2>3. DeriskOK'
      <3>1. task'["breaker"] = task["breaker"] \/ task'["breaker"] = IdleTask
        BY <1>2, WorldTasks, SchedulerFacts DEF World, TypeInv
      <3> QED BY <2>1, <3>1, IdleFacts DEF StretchInv, DeriskOK
    <2> QED BY <2>2, <2>3 DEF StretchInv
  <1>3. CASE Restart
    <2>1. \A t \in Tasks : task'[t].pc = "idle"
      BY <1>3, IdleFacts DEF Restart
    <2> QED BY <2>1, StretchOutside, SchedulerFacts DEF StretchInv, DeriskOK
  <1>4. CASE ResetAccount
    <2>1. /\ UNCHANGED <<feed, cache, alloc, task>> /\ book'.wipes = book.wipes + 1
          /\ book'.held = "safe"
      BY <1>4 DEF ResetAccount
    <2>2. /\ book.wipes \in Nat /\ \A t \in Tasks : task[t].wipes \in Nat
      <3>1. book.wipes \in 0..MaxResets /\ \A t \in Tasks : task[t].wipes \in 0..MaxResets
        BY DEF TypeInv, TypeOK
      <3> QED BY <3>1
    <2>3. ASSUME NEW t \in Tasks PROVE StretchOK(t)'
      <3>1. StretchOK(t) /\ task'[t] = task[t] /\ task[t].wipes \in Nat
        BY <2>1, <2>2 DEF StretchInv
      <3>2. task[t].pc \in {"execute", "post"} => task[t].wipes < book'.wipes
        BY <2>1, <2>2, <3>1 DEF StretchOK
      <3> QED BY <2>1, <2>2, <3>1, <3>2 DEF StretchOK, InForce
    <2> QED BY <2>1, <2>3 DEF StretchInv, DeriskOK
  <1>5. CASE ResetMemory
    <2>1. UNCHANGED <<feed, cache, book, task>> /\ alloc'.kind = "none"
      BY <1>5 DEF ResetMemory, NoAlloc
    <2> QED BY <2>1 DEF StretchInv, StretchOK, InForce, DeriskOK
  <1> QED BY <1>1, <1>2, <1>3, <1>4, <1>5 DEF World

LEMMA StretchAsks ==
    ASSUME TypeInv, StretchInv, Asks
    PROVE  StretchInv'
  <1> USE DEF feedVars, decisionVars, cadenceVars, processVars, accountVars
  <1>1. /\ LoopFree /\ UNCHANGED book
        /\ \A u \in Tasks : task'[u] = task[u] \/ task'[u].pc \in {"lock", "close"}
    BY AsksStep DEF TypeInv
  <1>2. \A u \in Tasks : task'[u].pc \notin {"evaluate", "execute", "post"}
    BY <1>1 DEF LoopFree, Busy
  <1>3. task'["breaker"].pc \in {"idle", "lock"}
    <2>0. task \in [Tasks -> TaskState] /\ "breaker" \in Tasks
      BY SchedulerFacts DEF TypeInv, QueueInv
    <2>1. task["breaker"].pc \in {"idle", "lock"}
      BY <1>1, <2>0 DEF StretchInv, DeriskOK, LoopFree, Busy
    <2>2. task'["breaker"] = task["breaker"] \/ task'["breaker"] = Entered("lock", "derisk")
      BY <2>0, ServiceAssumption
         DEF ServiceAssumption, Asks, RequestRebalance, RequestToggle, DispatchDaily, DispatchWeekly,
             CrashBar, Enqueue
    <2> QED BY <2>1, <2>2 DEF Entered
  <1> QED BY <1>2, <1>3, StretchOutside DEF StretchInv, DeriskOK

\* Orders just computed serve the decision that they were computed for.
LEMMA OrdersServe ==
    ASSUME TypeInv, NEW t \in Tasks, alloc'.kind \in Kinds \ {"none"},
           ComputeOrders(t, alloc'.kind)
    PROVE  /\ StretchOK(t)'
           /\ \/ task'[t].pc = "execute" /\ task'[t].order \in Orders(alloc'.kind, book'.held)
              \/ task'[t].pc = "post" /\ "none" \in Orders(alloc'.kind, book'.held)
           /\ book'.held \in Holdings
  <1>0. book \in [held : Holdings, wipes : 0..MaxResets] /\ task \in [Tasks -> TaskState]
    BY DEF TypeInv, TypeOK, QueueInv
  <1>1. PICK o \in Orders(alloc'.kind, book'.held) :
          /\ o \in Holdings \cup {"none"}
          /\ task' = [task EXCEPT ![t].pc = IF o = "none" THEN "post" ELSE "execute",
                                  ![t].order = o, ![t].wipes = book.wipes]
    BY <1>0, Computed
  <1>2. book' \in [held : Holdings, wipes : 0..MaxResets] /\ book'.wipes = book.wipes
    BY <1>0, Computed
  <1>3. /\ task'[t].pc = IF o = "none" THEN "post" ELSE "execute"
        /\ task'[t].order = o /\ task'[t].wipes = book.wipes
    BY <1>0, <1>1 DEF TaskState
  <1>4. book'.wipes \in Nat /\ book'.held \in Holdings
    <2>1. book'.wipes \in 0..MaxResets /\ book'.held \in Holdings
      BY <1>2
    <2> QED BY <2>1
  <1>5. o = "none" => OnTarget(t)'
    BY <1>1, <1>3, <1>4 DEF Orders, Kinds, Holdings, OnTarget
  <1>6. StretchOK(t)'
    BY <1>1, <1>2, <1>3, <1>4, <1>5 DEF StretchOK
  <1> QED BY <1>1, <1>3, <1>4, <1>6

\* A handler that goes on without having computed or booked orders, or ends.
LEMMA StretchMoves ==
    ASSUME TypeInv, NEW t \in Tasks,
           \/ Finish(t, TRUE) \/ Finish(t, FALSE)
           \/ \E p \in PCs \ {"evaluate", "execute", "post"} : Goto(t, p)
    PROVE  StretchOK(t)' /\ task'[t].pc \notin {"evaluate", "execute", "post"}
  <1>0. task \in [Tasks -> TaskState]
    BY DEF TypeInv, QueueInv
  <1>1. task'[t].pc \notin {"evaluate", "execute", "post"}
    BY <1>0, IdleFacts DEF Finish, Goto, TaskState
  <1> QED BY <1>1, StretchOutside

\* The step of the handler t itself.
LEMMA StretchOwn ==
    ASSUME ServiceAssumption, TypeInv, StretchInv, NEW t \in Tasks, Resumes(t)
    PROVE  /\ StretchOK(t)'
           /\ task'[t].pc = "execute" => task[t].pc \in {"lock", "decide"}
           /\ task'[t].pc = "post" => \/ task[t].pc \in {"lock", "decide"}
                                      \/ task[t].pc = "execute" /\ book'.held = task[t].order
  <1> USE DEF feedVars, decisionVars, cadenceVars, processVars, accountVars
  <1>0. task \in [Tasks -> TaskState] /\ "evaluate" \in PCs
    BY DEF TypeInv, QueueInv, PCs, Busy
  <1>1. CASE t = "toggle" /\ Toggle
    <2>1. task'[t].pc = "idle"
      BY <1>0, <1>1, IdleFacts DEF Toggle
    <2> QED BY <2>1, StretchOutside
  <1>2. CASE t = "scheduler" /\ StartWeekly
    <2>1. Finish(t, TRUE) \/ Goto(t, "close") \/ Goto(t, "decide")
      BY <1>2, Zenon DEF StartWeekly
    <2> QED BY <2>1, StretchMoves DEF PCs, Busy
  <1>3. CASE t = "breaker" /\ StartDerisk
    <2>1. /\ alloc'.kind = "emergency" /\ task[t].pc = "lock"
          /\ ComputeOrders(t, alloc'.kind)
      BY <1>3 DEF StartDerisk, Acquires
    <2> QED BY <2>1, OrdersServe DEF Kinds
  <1>4. CASE StartManual(t)
    <2>1. task'[t] = IdleTask \/ Goto(t, "close")
      BY <1>0, <1>4 DEF StartManual
    <2>2. CASE task'[t] = IdleTask
      BY <2>2, IdleFacts, StretchOutside
    <2>3. CASE Goto(t, "close")
      BY <2>3, StretchMoves DEF PCs, Busy
    <2> QED BY <2>1, <2>2, <2>3
  <1>5. CASE StartClose(t)
    <2>1. CASE Finish(t, TRUE) \/ Goto(t, "target") \/ Goto(t, "warmup")
      BY <2>1, StretchMoves DEF PCs, Busy
    <2>2. CASE Goto(t, "evaluate") /\ ~CloseRefused(t)
      <3>1. task'[t].pc = "evaluate" /\ feed' = "live"
        BY <1>0, <1>5, <2>2 DEF Goto, TaskState, StartClose, CloseRefused
      <3> QED BY <3>1 DEF StretchOK
    <2>3. \/ Finish(t, TRUE) \/ Goto(t, "target") \/ Goto(t, "warmup")
          \/ (Goto(t, "evaluate") /\ ~CloseRefused(t))
      BY <1>5, Zenon DEF StartClose, CloseSkips
    <2> QED BY <2>1, <2>2, <2>3
  <1>6. CASE WarmupReturns(t)
    <2>1. task'[t].pc = "evaluate"
      BY <1>0, <1>6 DEF WarmupReturns, Goto, TaskState
    <2>2. feed' = "live" \/ cache' = NoBars
      BY <1>6 DEF WarmupReturns, Fetch
    <2> QED BY <2>1, <2>2 DEF StretchOK, NoBars
  <1>7. CASE NoEvaluation(t) \/ Evaluate(t)
    <2>1. Finish(t, TRUE) \/ Finish(t, FALSE) \/ Goto(t, "target")
      BY <1>7, Zenon DEF NoEvaluation, Evaluate, CloseSkips
    <2> QED BY <2>1, StretchMoves DEF PCs, Busy
  <1>8. CASE CheckTarget(t) \/ Post(t)
    <2>1. Finish(t, TRUE) \/ Finish(t, FALSE) \/ Goto(t, "decide")
      BY <1>8, Zenon DEF CheckTarget, Post
    <2> QED BY <2>1, StretchMoves DEF PCs, Busy
  <1>9. CASE Decide(t)
    <2>1. CASE Finish(t, FALSE)
      BY <2>1, StretchMoves
    <2>2. CASE alloc.kind # "none" /\ ComputeOrders(t, alloc.kind)
      <3>1. alloc' = alloc /\ alloc.kind \in Kinds
        BY <1>9 DEF Decide, TypeInv, TypeOK
      <3>2. alloc'.kind \in Kinds \ {"none"}
        BY <2>2, <3>1
      <3>3. ComputeOrders(t, alloc'.kind)
        BY <2>2, <3>1, Zenon
      <3>4. task[t].pc = "decide"
        BY <1>9 DEF Decide
      <3> QED BY <3>2, <3>3, <3>4, OrdersServe
    <2>3. Finish(t, FALSE) \/ (alloc.kind # "none" /\ ComputeOrders(t, alloc.kind))
      BY <1>9, Zenon DEF Decide
    <2> QED BY <2>1, <2>2, <2>3
  <1>10. CASE Execute(t)
    <2>1. CASE Finish(t, FALSE)
      BY <2>1, StretchMoves
    <2>2. CASE book' = [book EXCEPT !.held = task[t].order] /\ Goto(t, "post")
      <3>1. /\ task'[t].pc = "post" /\ task'[t].wipes = task[t].wipes
            /\ task[t].pc = "execute" /\ UNCHANGED alloc /\ task'[t].order = task[t].order
        BY <1>0, <1>10, <2>2 DEF Execute, Goto, TaskState
      <3>2. book'.held = task[t].order /\ book'.wipes = book.wipes
        BY <2>2 DEF TypeInv, TypeOK
      <3>3. StretchOK(t) /\ task[t].order # "none" /\ alloc.kind \in Kinds /\ book.held \in Holdings
        BY <3>1 DEF StretchInv, TypeInv, TypeOK, QueueInv, JobInv, JobOK
      <3>4. InForce(t)' => task[t].order \in Orders(alloc.kind, book.held) /\ alloc.kind # "none"
        BY <3>1, <3>2, <3>3 DEF StretchOK, InForce
      <3>5. InForce(t)' => OnTarget(t)'
        BY <3>1, <3>2, <3>3, <3>4 DEF Orders, Kinds, Holdings, OnTarget
      <3> QED BY <3>1, <3>2, <3>3, <3>5 DEF StretchOK
    <2> QED BY <1>10, <2>1, <2>2 DEF Execute
  <1> QED BY <1>1, <1>2, <1>3, <1>4, <1>5, <1>6, <1>7, <1>8, <1>9, <1>10 DEF Resumes

\* The breaker's coroutine goes from the lock over its orders to the post, and
\* leaves that way early only if booking them fails.
BreakerPath ==
    \/ /\ task["breaker"].pc = "lock" /\ task'["breaker"].pc \in {"execute", "post"}
       /\ task'["breaker"].pc = "execute" => task'["breaker"].order # "risk"
       /\ task'["breaker"].pc = "post" => book'.held # "risk"
    \/ /\ task["breaker"].pc = "execute" /\ task'["breaker"].pc = "post"
       /\ book'.held = task["breaker"].order
    \/ /\ task["breaker"].pc = "execute" /\ task'["breaker"].pc = "idle"
       /\ StorageFaults \/ boot = "down"
    \/ task["breaker"].pc = "post" /\ task'["breaker"].pc = "idle" /\ UNCHANGED book

LEMMA BreakerSteps ==
    ASSUME ServiceAssumption, TypeInv, StretchInv, Resumes("breaker")
    PROVE  BreakerPath
  <1> USE DEF feedVars, decisionVars, cadenceVars, processVars, accountVars
  <1>0. /\ task \in [Tasks -> TaskState] /\ "breaker" \in Tasks /\ "breaker" \notin Requests
        /\ task["breaker"].pc \in {"idle", "lock", "execute", "post"}
        /\ book.held \in Holdings
    BY ServiceAssumption, SchedulerFacts
       DEF ServiceAssumption, TypeInv, TypeOK, QueueInv, StretchInv, DeriskOK
  <1>1. CASE StartDerisk
    <2>1. /\ alloc'.kind = "emergency" /\ task["breaker"].pc = "lock"
          /\ ComputeOrders("breaker", alloc'.kind)
      BY <1>1 DEF StartDerisk, Acquires
    <2>2. /\ \/ task'["breaker"].pc = "execute" /\ task'["breaker"].order \in Orders("emergency", book'.held)
             \/ task'["breaker"].pc = "post" /\ "none" \in Orders("emergency", book'.held)
          /\ book'.held \in Holdings
      BY <1>0, <2>1, OrdersServe DEF Kinds
    <2>3. /\ task'["breaker"].pc = "execute" => task'["breaker"].order # "risk"
          /\ task'["breaker"].pc = "post" => book'.held # "risk"
      BY <2>2 DEF Orders, Holdings
    <2> QED BY <2>1, <2>2, <2>3 DEF BreakerPath
  <1>2. CASE Execute("breaker")
    <2>1. CASE Finish("breaker", FALSE) /\ (StorageFaults \/ boot = "down")
      <3>1. task'["breaker"].pc = "idle"
        BY <1>0, <2>1, IdleFacts DEF Finish
      <3> QED BY <1>2, <2>1, <3>1 DEF Execute, BreakerPath
    <2>2. CASE book' = [book EXCEPT !.held = task["breaker"].order] /\ Goto("breaker", "post")
      <3>1. task'["breaker"].pc = "post"
        BY <1>0, <2>2 DEF Goto, TaskState
      <3>2. book'.held = task["breaker"].order
        BY <2>2 DEF TypeInv, TypeOK
      <3> QED BY <1>2, <3>1, <3>2 DEF Execute, BreakerPath
    <2> QED BY <1>2, <2>1, <2>2, Zenon DEF Execute
  <1>3. CASE Post("breaker")
    <2>1. UNCHANGED book /\ task["breaker"].pc = "post"
      BY <1>3 DEF Post
    <2>2. Finish("breaker", TRUE) \/ Finish("breaker", FALSE)
      BY <1>3, Zenon DEF Post
    <2>3. task'["breaker"].pc = "idle"
      BY <1>0, <2>2, IdleFacts DEF Finish
    <2> QED BY <2>1, <2>3 DEF BreakerPath
  <1>4. ~(StartManual("breaker") \/ StartClose("breaker") \/ WarmupReturns("breaker")
          \/ NoEvaluation("breaker") \/ Evaluate("breaker") \/ CheckTarget("breaker")
          \/ Decide("breaker"))
    BY <1>0 DEF StartManual, StartClose, WarmupReturns, NoEvaluation, Evaluate, CheckTarget, Decide
  <1> QED BY <1>1, <1>2, <1>3, <1>4 DEF Resumes

LEMMA StretchStep ==
    ASSUME ServiceAssumption, TypeInv, BusyInv, StretchInv, Next
    PROVE  StretchInv'
  <1>1. CASE World
    BY <1>1, StretchWorld
  <1>2. CASE Asks
    BY <1>2, StretchAsks
  <1>3. ASSUME NEW u \in Tasks, Resumes(u) PROVE StretchInv'
    <2>1. ASSUME NEW t \in Tasks, t # u PROVE StretchOK(t)' /\ task[t].pc \notin Busy
      <3>1. task'[t] = task[t]
        BY <1>3, <2>1, OwnStep DEF TypeInv
      <3>2. task[t].pc \notin Busy
        BY <1>3, <2>1, ResumesLoop DEF LoopFree, BusyInv
      <3> QED BY <3>1, <3>2, StretchOutside DEF Busy
    <2>2. StretchOK(u)'
      BY <1>3, StretchOwn
    <2>3. DeriskOK'
      <3>1. CASE u = "breaker"
        BY <1>3, <3>1, BreakerSteps DEF BreakerPath, StretchInv, DeriskOK
      <3>2. CASE u # "breaker"
        <4>1. task'["breaker"] = task["breaker"] /\ task["breaker"].pc \notin Busy
          BY <1>3, <2>1, <3>2, OwnStep, SchedulerFacts DEF TypeInv
        <4> QED BY <4>1 DEF StretchInv, DeriskOK, Busy
      <3> QED BY <3>1, <3>2
    <2> QED BY <2>1, <2>2, <2>3 DEF StretchInv
  <1> QED BY <1>1, <1>2, <1>3, Steps DEF Proceeds

LoopInv == TypeInv /\ BusyInv /\ StretchInv

LEMMA LoopInvAlways == Spec => []LoopInv
  <1>1. Init => LoopInv
    <2> SUFFICES ASSUME Init PROVE LoopInv
      OBVIOUS
    <2>1. TypeInv
      BY ServiceAssumption, TypeInvInit
    <2>2. \A t \in Tasks : task[t].pc = "idle"
      BY IdleFacts DEF Init
    <2>3. BusyInv /\ StretchInv
      BY <2>2, SchedulerFacts DEF BusyInv, Busy, StretchInv, StretchOK, DeriskOK
    <2> QED BY <2>1, <2>3 DEF LoopInv
  <1>2. LoopInv /\ [Next]_vars => LoopInv'
    <2>1. ASSUME LoopInv, UNCHANGED vars PROVE BusyInv' /\ StretchInv'
      BY <2>1 DEF LoopInv, BusyInv, StretchInv, StretchOK, DeriskOK, InForce, OnTarget, vars
    <2>2. ASSUME LoopInv, Next PROVE BusyInv' /\ StretchInv'
      BY <2>2, ServiceAssumption, BusyStep, StretchStep DEF LoopInv, TypeInv
    <2> QED BY <2>1, <2>2, ServiceAssumption, TypeInvStep DEF LoopInv
  <1> QED BY <1>1, <1>2, PTL DEF Spec

\* A decision comes only from an evaluation on a live feed, and one that can be
\* traded on only while the feed is monitored too, although bars were awaited
\* since the feed was last checked (_handle_daily_close, _warmup_market_data).
THEOREM DecisionsAreLive == Spec => EvaluatesOnLiveFeed
  <1> USE DEF feedVars, decisionVars, cadenceVars, processVars, accountVars
  <1>1. LoopInv /\ [Next]_vars =>
          [Running /\ alloc' # alloc /\ alloc'.kind \in {"risk", "shv", "hold"}
             => feed = "live" /\ (alloc'.kind # "hold" => Safe)]_vars
    <2> SUFFICES ASSUME LoopInv, Next, Running, alloc' # alloc, alloc'.kind \in {"risk", "shv", "hold"}
                 PROVE  feed = "live" /\ (alloc'.kind # "hold" => Safe)
      BY DEF vars
    <2>1. ~World
      <3>1. ~Restart
        BY DEF Restart, Running, LoopInv, TypeInv, TypeOK
      <3>2. ~ResetMemory
        BY DEF ResetMemory, NoAlloc
      <3> QED BY <3>1, <3>2 DEF World, FeedMoves, NewDay, StartFeed, StartWarmup, Shutdown,
                               CancelScheduler, ResetAccount
    <2>2. ~Asks
      BY AsksStep DEF LoopInv, TypeInv
    <2>3. PICK t \in Tasks : Resumes(t)
      BY <2>1, <2>2, Steps DEF Proceeds
    <2>4. ~StartDerisk
      <3>1. StartDerisk => alloc'.kind = "emergency"
        BY DEF StartDerisk
      <3> QED BY <3>1
    <2>5. Evaluate(t)
      BY <2>3, <2>4 DEF Resumes, Toggle, StartWeekly, StartManual, StartClose, WarmupReturns,
                        NoEvaluation, CheckTarget, Decide, Execute, Post
    <2>6. StretchOK(t) /\ task[t].pc = "evaluate" /\ cache.src # "none"
      BY <2>5 DEF Evaluate, LoopInv, StretchInv
    <2>7. alloc'.kind \in IF Safe THEN {"risk", "shv"} ELSE {"hold"}
      BY <2>5 DEF Evaluate
    <2> QED BY <2>6, <2>7 DEF StretchOK
  <1> QED BY <1>1, LoopInvAlways, PTL DEF Spec, EvaluatesOnLiveFeed

\* Whoever books orders books those that the decision in force asks for, however
\* many handlers, breakers and resets were under way when they were computed
\* (manual_rebalance, _handle_weekly_rebalance, _trigger_emergency_circuit_breaker).
THEOREM FillsServeDecision == Spec => FillsFollowLatestDecision
  <1>1. LoopInv =>
          [\A t \in Tasks : 
             Fills(t) /\ alloc.kind # "none" /\ task[t].wipes = book.wipes =>
                 task[t].order \in Orders(alloc.kind, book.held)]_vars
    BY DEF LoopInv, StretchInv, StretchOK, InForce, Fills
  <1> QED BY <1>1, LoopInvAlways, PTL DEF FillsFollowLatestDecision

\* A weekly rebalance is recorded as done only with the orders of the decision in
\* force booked, and under a target without risk assets with no risk position left
\* outside the drift band around zero: every way out of the handler that traded
\* nothing, or traded for another decision, has raised or flagged a skip
\* (_handle_weekly_rebalance, _run_cadence).
THEOREM WeeklyDoneIsOnTarget == Spec => WeeklyDoneMeansOnTarget
  <1> USE DEF feedVars, decisionVars, cadenceVars, processVars, accountVars
  <1>1. LoopInv /\ [Next]_vars =>
          [Running /\ "weekly" \notin done /\ "weekly" \in done' =>
             /\ alloc.kind # "none"
             /\ task["scheduler"].wipes = book.wipes =>
                 /\ task["scheduler"].order \in {"none", book.held}
                 /\ alloc.kind \in {"shv", "emergency"} => book.held # "risk"]_vars
    <2> SUFFICES ASSUME LoopInv, Next, Running, "weekly" \notin done, "weekly" \in done'
                 PROVE  /\ alloc.kind # "none"
                        /\ task["scheduler"].wipes = book.wipes =>
                            /\ task["scheduler"].order \in {"none", book.held}
                            /\ alloc.kind \in {"shv", "emergency"} => book.held # "risk"
      BY DEF vars
    <2>0. JobOK("scheduler", task["scheduler"])
      BY SchedulerFacts DEF LoopInv, TypeInv, QueueInv, JobInv
    <2>1. ~World
      <3>1. ~Restart
        BY DEF Restart, Running, LoopInv, TypeInv, TypeOK
      <3> QED BY <3>1 DEF World, FeedMoves, NewDay, StartFeed, StartWarmup, Shutdown,
                          CancelScheduler, ResetAccount, ResetMemory
    <2>2. ~Asks
      BY AsksStep DEF LoopInv, TypeInv
    <2>3. PICK t \in Tasks : Resumes(t)
      BY <2>1, <2>2, Steps DEF Proceeds
    <2>4. ASSUME NEW ok, Finish(t, ok)
          PROVE  t = "scheduler" /\ ok /\ ~skipped' /\ task[t].job = "weekly"
      BY <2>4 DEF Finish
    <2>5. Post(t)
      <3>1. ~(Toggle \/ StartDerisk \/ StartManual(t) \/ WarmupReturns(t))
        BY DEF Toggle, StartDerisk, StartManual, WarmupReturns
      <3>2. ~(t = "scheduler" /\ StartWeekly)
        <4>1. ASSUME t = "scheduler", StartWeekly
              PROVE  UNCHANGED done \/ (skipped' = TRUE /\ Finish("scheduler", TRUE))
          BY <4>1, Zenon DEF StartWeekly
        <4> QED BY <2>4, <4>1
      <3>3. ~CloseSkips(t)
        <4>1. ASSUME CloseSkips(t)
              PROVE  UNCHANGED done \/ (skipped' = TRUE /\ Finish(t, TRUE))
          BY <4>1, Zenon DEF CloseSkips
        <4> QED BY <2>4, <4>1
      <3>4. ~(StartClose(t) \/ NoEvaluation(t))
        <4>1. ASSUME StartClose(t) \/ NoEvaluation(t)
              PROVE  UNCHANGED done \/ CloseSkips(t) \/ Finish(t, FALSE)
          BY <4>1, Zenon DEF StartClose, NoEvaluation
        <4> QED BY <2>4, <3>3, <4>1
      <3>5. ~Evaluate(t)
        <4>1. ASSUME Evaluate(t)
              PROVE  UNCHANGED done \/ Finish(t, FALSE) \/ (task[t].job = "daily" /\ Finish(t, TRUE))
          BY <4>1, Zenon DEF Evaluate
        <4> QED BY <2>4, <4>1
      <3>6. ~CheckTarget(t)
        <4>1. ASSUME CheckTarget(t)
              PROVE  \/ UNCHANGED done
                     \/ skipped' = (skipped \/ task[t].job = "weekly") /\ Finish(t, TRUE)
          BY <4>1, Zenon DEF CheckTarget
        <4> QED BY <2>4, <4>1
      <3>7. ~(Decide(t) \/ Execute(t))
        <4>1. ASSUME Decide(t) \/ Execute(t) PROVE UNCHANGED done \/ Finish(t, FALSE)
          BY <4>1, Zenon DEF Decide, Execute
        <4> QED BY <2>4, <4>1
      <3> QED BY <2>3, <3>1, <3>2, <3>4, <3>5, <3>6, <3>7 DEF Resumes
    <2>6. /\ task[t].pc = "post"
          /\ \/ (NeedsAlloc(t) => alloc.kind # "none") /\ Finish(t, TRUE)
             \/ Finish(t, FALSE)
      BY <2>5, Zenon DEF Post
    <2>7. t = "scheduler" /\ task[t].job = "weekly" /\ alloc.kind # "none"
      BY <2>4, <2>6 DEF NeedsAlloc
    <2>8. StretchOK("scheduler")
      BY SchedulerFacts DEF LoopInv, StretchInv
    <2> QED BY <2>6, <2>7, <2>8 DEF StretchOK, InForce, OnTarget
  <1> QED BY <1>1, LoopInvAlways, PTL DEF Spec, WeeklyDoneMeansOnTarget

\* The breaker's coroutine ends with no risk position outside the drift band around
\* zero, unless booking its orders failed: paused or not, whoever traded, was reset
\* or evaluated while it waited for the lock (_trigger_emergency_circuit_breaker).
BreakerDerisks ==
    Running /\ task["breaker"].pc # "idle" /\ task'["breaker"].pc = "idle"
      => \/ book'.held # "risk"
         \/ task["breaker"].pc = "execute" /\ (StorageFaults \/ boot = "down")

LEMMA BreakerStep ==
    ASSUME LoopInv, Next
    PROVE  BreakerDerisks
  <1> SUFFICES ASSUME Running, task["breaker"].pc # "idle", task'["breaker"].pc = "idle"
               PROVE  \/ book'.held # "risk"
                      \/ task["breaker"].pc = "execute" /\ (StorageFaults \/ boot = "down")
    BY DEF BreakerDerisks
  <1> USE DEF feedVars, decisionVars, cadenceVars, processVars, accountVars
  <1>1. ~World
    <2>1. ~Restart
      BY DEF Restart, Running, LoopInv, TypeInv, TypeOK
    <2>2. ~CancelScheduler
      BY SchedulerFacts DEF CancelScheduler, LoopInv, TypeInv, QueueInv
    <2> QED BY <2>1, <2>2 DEF World, FeedMoves, NewDay, StartFeed, StartWarmup, Shutdown,
                             ResetAccount, ResetMemory
  <1>2. ~Asks
    <2>1. ASSUME Asks PROVE task'["breaker"] = task["breaker"] \/ task'["breaker"].pc # "idle"
      BY <2>1, AsksStep, SchedulerFacts DEF LoopInv, TypeInv
    <2> QED BY <2>1
  <1>3. PICK t \in Tasks : Resumes(t)
    BY <1>1, <1>2, Steps DEF Proceeds
  <1>4. t = "breaker"
    BY <1>3, OwnStep, SchedulerFacts DEF LoopInv, TypeInv
  <1>5. BreakerPath
    BY <1>3, <1>4, ServiceAssumption, BreakerSteps DEF LoopInv
  <1> QED BY <1>5 DEF BreakerPath, LoopInv, StretchInv, DeriskOK

\* Every step of every behaviour keeps BreakerDerisks.
THEOREM BreakerDerisksOrFails == Spec => [][BreakerDerisks]_vars
  <1>1. LoopInv /\ [Next]_vars => [BreakerDerisks]_vars
    BY BreakerStep
  <1> QED BY <1>1, LoopInvAlways, PTL DEF Spec

\* The same for a process that is not shut down and whose storage works: the
\* breaker never ends with a risk position outside the drift band.
THEOREM BreakerAlwaysDerisks ==
    ASSUME ~StorageFaults, MaxRestarts = 0
    PROVE  Spec => BreakerEndsDerisked
  <1>1. Init => boot # "down"
    BY DEF Init
  <1>2. LoopInv /\ boot # "down" /\ [Next]_vars => (boot # "down")'
    <2> USE DEF feedVars, decisionVars, cadenceVars, processVars, accountVars
    <2> SUFFICES ASSUME LoopInv, boot # "down", Next PROVE boot' # "down"
      BY DEF vars
    <2>1. ~Shutdown
      BY DEF Shutdown, LoopInv, TypeInv, TypeOK
    <2>2. CASE World
      BY <2>1, <2>2 DEF World, FeedMoves, NewDay, StartFeed, StartWarmup, CancelScheduler, Restart,
                        ResetAccount, ResetMemory
    <2>3. CASE Asks
      BY <2>3, AsksStep DEF LoopInv, TypeInv
    <2>4. CASE Proceeds
      BY <2>4 DEF Proceeds, Resumes, Toggle, StartWeekly, StartDerisk, StartManual, StartClose,
                  WarmupReturns, NoEvaluation, Evaluate, CheckTarget, Decide, Execute, Post
    <2> QED BY <2>2, <2>3, <2>4, Steps
  <1>3. boot # "down" /\ [BreakerDerisks]_vars =>
          [Running /\ task["breaker"].pc # "idle" /\ task'["breaker"].pc = "idle"
             => book'.held # "risk"]_vars
    BY DEF BreakerDerisks
  <1> QED BY <1>1, <1>2, <1>3, LoopInvAlways, BreakerDerisksOrFails, PTL DEF Spec, BreakerEndsDerisked
=============================================================================

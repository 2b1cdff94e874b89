------------------------- MODULE OutageAlertsProofs -------------------------
(***************************************************************************)
(* What OutageAlerts and the webhook pipeline under it promise for any     *)
(* number of threads, any interval, ceiling, time-out and grace, and       *)
(* whatever Discord answers.                                               *)
(***************************************************************************)
EXTENDS OutageAlerts, TLAPS

\* The lock is held exactly while its holder sleeps in it, and for no less than
\* what is left of the interval; who backs off has an attempt left.
PacingInv ==
    /\ PostTypeOK
    /\ \A t \in Threads :
        /\ At(t, "pacing") <=> holder = t
        /\ At(t, "pacing") => since + posting[t].wait >= Interval
        /\ At(t, "backoff") => posting[t].attempt < MaxRetries

\* What the callbacks know of an outage: an untold one has its timer, a told one
\* its flag, or its card on the way.
CardInv ==
    /\ LoopFree <=> card = "none"
    /\ told = "broken" <=> posted \/ card = "broken"
    /\ feed \in {"boot", "live"} => timer = NoTimer
    /\ feed = "live" => told = "recovered"
    /\ feed = "down" => told = "broken" \/ timer # NoTimer
    /\ timer # NoTimer => told = "recovered" /\ timer + downFor = Grace

AlertInv == TypeOK /\ PacingInv /\ CardInv

\* No thread starts sending before the interval is over.
PacedStep == \A t \in Threads : At(t, "sending")' /\ ~ At(t, "sending") => since = Interval

-----------------------------------------------------------------------------
(* The pipeline                                                            *)

States == [pc : {"idle", "lock", "pacing", "sending", "backoff"},
           attempt : 0..MaxRetries, wait : 0..Longest(Ceiling, Timeout)]

LEMMA Waits ==
    /\ 0 \in 0..Longest(Ceiling, Timeout) /\ Timeout \in 0..Longest(Ceiling, Timeout)
    /\ 0..Ceiling \subseteq 0..Longest(Ceiling, Timeout)
    /\ \A n \in 0..Longest(Ceiling, Timeout) : Longest(n - 1, 0) \in 0..Longest(Ceiling, Timeout)
    /\ 0 \in 0..MaxRetries /\ Interval \in 0..Interval /\ 0 \in 0..Interval
    /\ Idle \in States
  BY PacingAssumption DEF Longest, Idle, States

\* A thread that moves keeps the others as they are.
LEMMA Moves ==
    ASSUME PacingInv, NEW t \in Threads, NEW r \in States,
           posting' = [posting EXCEPT ![t] = r]
    PROVE  /\ posting' \in [Threads -> States] /\ posting'[t] = r
           /\ \A u \in Threads \ {t} : posting'[u] = posting[u]
  BY DEF PacingInv, PostTypeOK, States

\* A thread outside the lock that stays outside it.
LEMMA MovesOutside ==
    ASSUME PacingInv, NEW t \in Threads, NEW r \in States,
           posting' = [posting EXCEPT ![t] = r], UNCHANGED <<holder, since>>,
           ~ At(t, "pacing"), r.pc # "pacing", r.pc = "sending" => At(t, "sending"),
           r.pc = "backoff" => r.attempt < MaxRetries
    PROVE  PacingInv' /\ PacedStep
  <1>1. PostTypeOK'
    BY Moves DEF PacingInv, PostTypeOK, States
  <1>2. \A u \in Threads : /\ At(u, "pacing")' <=> At(u, "pacing")
                           /\ At(u, "pacing") => posting'[u] = posting[u]
                           /\ At(u, "sending")' => At(u, "sending")
                           /\ At(u, "backoff")' => posting'[u].attempt < MaxRetries
    BY Moves DEF At, PacingInv
  <1> QED BY <1>1, <1>2 DEF PacingInv, PacedStep

LEMMA BeginPostStep ==
    ASSUME PacingInv, NEW t \in Threads, BeginPost(t)
    PROVE  /\ PacingInv' /\ PacedStep /\ posting'[t].pc = "lock"
           /\ \A u \in Threads \ {t} : posting'[u] = posting[u]
  <1> DEFINE r == [Idle EXCEPT !.pc = "lock"]
  <1>1. r \in States /\ r.pc = "lock"
    BY Waits DEF Idle, States
  <1>2. posting' = [posting EXCEPT ![t] = r] /\ UNCHANGED <<holder, since>> /\ ~ At(t, "pacing")
    BY DEF BeginPost, At
  <1> HIDE DEF r
  <1> QED BY <1>1, <1>2, MovesOutside, Moves

LEMMA EndPostStep ==
    ASSUME PacingInv, NEW t \in Threads, Delivered(t) \/ PostFails(t)
    PROVE  /\ PacingInv' /\ PacedStep /\ posting'[t].pc = "idle" /\ At(t, "sending")
           /\ \A u \in Threads \ {t} : posting'[u] = posting[u]
  <1>1. At(t, "sending") /\ posting' = [posting EXCEPT ![t] = Idle] /\ UNCHANGED <<holder, since>>
    BY DEF Delivered, PostFails, Rejected, GiveUpPost, EndPost
  <1>2. ~ At(t, "pacing") /\ Idle.pc = "idle"
    BY <1>1 DEF At, Idle
  <1> QED BY <1>1, <1>2, Waits, MovesOutside, Moves

\* The state a thread is in after Move.
Moved(t, place, wait) == [posting[t] EXCEPT !.pc = place, !.wait = wait]

LEMMA MoveGives ==
    ASSUME PacingInv, NEW t \in Threads, NEW place \in {"idle", "lock", "pacing", "sending", "backoff"},
           NEW wait \in 0..Longest(Ceiling, Timeout), Move(t, place, wait)
    PROVE  /\ Moved(t, place, wait) \in States /\ Moved(t, place, wait).pc = place
           /\ Moved(t, place, wait).wait = wait
           /\ Moved(t, place, wait).attempt = posting[t].attempt
           /\ posting' = [posting EXCEPT ![t] = Moved(t, place, wait)]
  <1>1. posting \in [Threads -> States]
    BY DEF PacingInv, PostTypeOK, States
  <1> QED BY <1>1 DEF Move, Moved, States

LEMMA BackoffStep ==
    ASSUME PacingInv, NEW t \in Threads, NEW delay \in RetryAfter, NEW jitter \in Jitter,
           TooManyRequests(t, delay, jitter)
    PROVE  /\ PacingInv' /\ PacedStep /\ At(t, "sending") /\ posting'[t].pc = "backoff"
           /\ \A u \in Threads \ {t} : posting'[u] = posting[u]
  <1> DEFINE attempt == posting[t].attempt
             backoff == Backoff(delay, attempt, jitter)
  <1>1. attempt \in 0..MaxRetries
    BY DEF PacingInv, PostTypeOK
  <1>2. backoff \in Nat
    <2>1. Longest(delay, Interval) \in Nat /\ jitter \in Nat
      BY PacingAssumption DEF Longest, RetryAfter
    <2>2. 3 ^ attempt \in Nat /\ 2 ^ attempt \in Nat \ {0}
      BY <1>1, PacingAssumption
    <2>3. ASSUME NEW a \in Nat, NEW p \in Nat, NEW q \in Nat \ {0}
          PROVE  (a * p) \div q \in Nat
      OBVIOUS
    <2>4. (Longest(delay, Interval) * 3 ^ attempt) \div 2 ^ attempt \in Nat
      BY <2>1, <2>2, <2>3
    <2> QED BY <2>1, <2>4 DEF Backoff
  <1>3. backoff < Ceiling
    BY <1>2, PacingAssumption DEF TooManyRequests, GivesUp
  <1>4. backoff \in 0..Longest(Ceiling, Timeout)
    BY <1>2, <1>3, Waits, PacingAssumption
  <1>5. /\ At(t, "sending") /\ Move(t, "backoff", backoff) /\ UNCHANGED <<holder, since>>
        /\ attempt < MaxRetries
    BY <1>1, PacingAssumption DEF TooManyRequests, GivesUp
  <1> HIDE DEF backoff
  <1>6. ~ At(t, "pacing")
    BY <1>5 DEF At
  <1> QED BY <1>4, <1>5, <1>6, MoveGives, MovesOutside, Moves

LEMMA RetryStep ==
    ASSUME PacingInv, NEW t \in Threads, Retry(t)
    PROVE  /\ PacingInv' /\ PacedStep /\ At(t, "backoff") /\ posting'[t].pc = "lock"
           /\ \A u \in Threads \ {t} : posting'[u] = posting[u]
  <1> DEFINE r == [posting[t] EXCEPT !.pc = "lock", !.attempt = @ + 1]
  <1>1. posting[t] \in States
    BY DEF PacingInv, PostTypeOK, States
  <1>2. At(t, "backoff") /\ ~ At(t, "pacing") /\ UNCHANGED <<holder, since>>
    BY DEF Retry, At
  <1>3. posting' = [posting EXCEPT ![t] = r]
    BY DEF Retry
  <1>4. posting[t].attempt < MaxRetries
    BY <1>2 DEF PacingInv
  <1>5. posting[t].attempt + 1 \in 0..MaxRetries
    BY <1>1, <1>4, PacingAssumption DEF States
  <1>6. r \in States /\ r.pc = "lock"
    BY <1>1, <1>5 DEF States
  <1> HIDE DEF r
  <1> QED BY <1>2, <1>3, <1>6, MovesOutside, Moves

\* Into the lock: at once if the interval is over, otherwise for the rest of it.
LEMMA PaceStep ==
    ASSUME PacingInv, NEW t \in Threads, Pace(t)
    PROVE  /\ PacingInv' /\ PacedStep /\ At(t, "lock") /\ posting'[t].pc \in {"sending", "pacing"}
           /\ \A u \in Threads \ {t} : posting'[u] = posting[u]
  <1>1. At(t, "lock") /\ holder = NoThread /\ NoThread \notin Threads
    BY PacingAssumption DEF Pace, NoThread
  <1>2. since \in 0..Interval /\ Interval \in Nat /\ Ceiling \in Nat /\ Interval <= Ceiling
    BY PacingAssumption DEF PacingInv, PostTypeOK
  <1>3. \A u \in Threads : ~ At(u, "pacing")
    BY <1>1 DEF PacingInv
  <1>4. CASE since >= Interval
    <2> DEFINE r == Moved(t, "sending", Timeout)
    <2>1. Move(t, "sending", Timeout) /\ since' = 0 /\ holder' = holder /\ since = Interval
      BY <1>2, <1>4 DEF Pace
    <2>2. r \in States /\ r.pc = "sending" /\ posting' = [posting EXCEPT ![t] = r]
      BY <2>1, Waits, MoveGives
    <2> HIDE DEF r
    <2>3. PostTypeOK'
      BY <2>1, <2>2, Moves, Waits DEF PacingInv, PostTypeOK, States
    <2>4. \A u \in Threads : ~ At(u, "pacing")' /\ (At(u, "backoff")' => posting'[u].attempt < MaxRetries)
      BY <1>3, <2>2, Moves DEF At, PacingInv
    <2> QED BY <1>1, <2>1, <2>2, <2>3, <2>4, Moves DEF PacingInv, PacedStep
  <1>5. CASE ~ (since >= Interval)
    <2> DEFINE wait == Shortest(Interval - since, Ceiling)
               r == Moved(t, "pacing", wait)
    <2>1. Move(t, "pacing", wait) /\ since' = since /\ holder' = t
      BY <1>5 DEF Pace
    <2>2. wait \in 0..Ceiling /\ since + wait >= Interval
      BY <1>2, <1>5 DEF Shortest
    <2> HIDE DEF wait
    <2>3. /\ r \in States /\ r.pc = "pacing" /\ r.wait = wait
          /\ posting' = [posting EXCEPT ![t] = r]
      BY <2>1, <2>2, Waits, MoveGives
    <2> HIDE DEF r
    <2>4. PostTypeOK'
      BY <2>1, <2>3, Moves DEF PacingInv, PostTypeOK, States
    <2>5. \A u \in Threads : /\ At(u, "pacing")' <=> u = t
                             /\ At(u, "sending")' => At(u, "sending")
                             /\ At(u, "backoff")' => posting'[u].attempt < MaxRetries
      BY <1>3, <2>3, Moves DEF At, PacingInv
    <2> QED BY <1>1, <2>1, <2>2, <2>3, <2>4, <2>5, Moves DEF PacingInv, PacedStep
  <1> QED BY <1>4, <1>5

LEMMA PacedIsOver ==
    ASSUME PacingInv, NEW t \in Threads, Paced(t)
    PROVE  /\ PacingInv' /\ PacedStep /\ At(t, "pacing") /\ posting'[t].pc = "sending"
           /\ \A u \in Threads \ {t} : posting'[u] = posting[u]
  <1> DEFINE r == Moved(t, "sending", Timeout)
  <1>1. /\ At(t, "pacing") /\ posting[t].wait = 0 /\ Move(t, "sending", Timeout)
        /\ since' = 0 /\ holder' = NoThread /\ NoThread \notin Threads
    BY PacingAssumption DEF Paced, NoThread
  <1>2. since = Interval
    BY <1>1, PacingAssumption DEF PacingInv, PostTypeOK
  <1>3. r \in States /\ r.pc = "sending" /\ posting' = [posting EXCEPT ![t] = r]
    BY <1>1, Waits, MoveGives
  <1> HIDE DEF r
  <1>4. PostTypeOK'
    BY <1>1, <1>3, Moves, Waits DEF PacingInv, PostTypeOK, States
  <1>5. \A u \in Threads : ~ At(u, "pacing")' /\ (At(u, "backoff")' => posting'[u].attempt < MaxRetries)
    BY <1>1, <1>3, Moves DEF At, PacingInv
  <1> QED BY <1>1, <1>2, <1>3, <1>4, <1>5, Moves DEF PacingInv, PacedStep

LEMMA PostGoesOnStep ==
    ASSUME PacingInv, NEW t \in Threads, PostGoesOn(t)
    PROVE  /\ PacingInv' /\ PacedStep /\ ~ At(t, "idle") /\ posting'[t].pc # "idle"
           /\ \A u \in Threads \ {t} : posting'[u] = posting[u]
  BY PaceStep, PacedIsOver, RetryStep, BackoffStep DEF PostGoesOn, At

\* Whoever sleeps in the lock sleeps while time passes.
LEMMA PostTickStep ==
    ASSUME PacingInv, PostTick
    PROVE  PacingInv' /\ PacedStep /\ \A t \in Threads : posting'[t].pc = posting[t].pc
  <1>1. posting \in [Threads -> States]
    BY DEF PacingInv, PostTypeOK, States
  <1>2. ASSUME NEW t \in Threads
        PROVE  /\ posting'[t] = [posting[t] EXCEPT !.wait = Longest(posting[t].wait - 1, 0)]
               /\ posting'[t] \in States
    BY <1>1, <1>2, Waits DEF PostTick, States
  <1>3. PostTypeOK'
    <2>1. posting' \in [Threads -> States]
      BY <1>2 DEF PostTick
    <2>2. since' \in 0..Interval
      BY PacingAssumption DEF PostTick, PacingInv, PostTypeOK, Shortest
    <2> QED BY <2>1, <2>2 DEF PostTick, PacingInv, PostTypeOK, States
  <1>4. \A t \in Threads : /\ posting'[t].pc = posting[t].pc
                           /\ posting'[t].attempt = posting[t].attempt
                           /\ posting'[t].wait = Longest(posting[t].wait - 1, 0)
    BY <1>1, <1>2 DEF States
  <1>5. ASSUME NEW t \in Threads, At(t, "pacing")
        PROVE  since' + posting'[t].wait >= Interval
    <2>1. posting[t].wait > 0
      BY <1>5 DEF PostTick, Waiting, At
    <2>2. posting[t].wait \in Nat /\ since \in Nat /\ Interval \in Nat
      BY <1>1, PacingAssumption DEF States, PacingInv, PostTypeOK
    <2>3. since + posting[t].wait >= Interval
      BY <1>5 DEF PacingInv
    <2> QED BY <1>4, <2>1, <2>2, <2>3 DEF PostTick, Longest, Shortest
  <1> QED BY <1>3, <1>4, <1>5 DEF PacingInv, PacedStep, At, PostTick

-----------------------------------------------------------------------------
(* The callbacks                                                           *)

LEMMA AlertInit == Init => AlertInv
  <1> SUFFICES ASSUME Init PROVE AlertInv
    OBVIOUS
  <1> USE DEF Init, PostInit
  <1>1. PostTypeOK
    BY Waits DEF PostTypeOK, States
  <1>2. \A t \in Threads : posting[t].pc = "idle" /\ t # NoThread
    BY PacingAssumption DEF Idle, NoThread
  <1>3. TypeOK
    <2>1. 0 \in 0..Grace /\ NoTimer \in NoTimer..Grace
      BY AlertAssumption DEF NoTimer
    <2> QED BY <1>1, <2>1 DEF TypeOK
  <1>4. PacingInv
    BY <1>1, <1>2 DEF PacingInv, At
  <1>5. CardInv
    BY <1>2, AlertAssumption DEF CardInv, LoopFree, At
  <1> QED BY <1>3, <1>4, <1>5 DEF AlertInv

\* The types of the callbacks' own variables, apart from the pipeline's and from
\* the observation of its answers.
AlertTypes ==
    /\ feed \in {"boot", "live", "down"}
    /\ downFor \in 0..Grace /\ timer \in NoTimer..Grace
    /\ posted \in BOOLEAN
    /\ card \in {"none", "broken", "recovered", "trade"}
    /\ told \in {"broken", "recovered"}

\* What a step owes: the invariant and the four promises.
Promises ==
    /\ PacedStep
    /\ told' = "broken" /\ told # "broken" => feed = "down" /\ downFor = Grace
    /\ card' = "recovered" /\ card # card' => told = "broken"
    /\ card' = "broken" /\ card # card' => told = "recovered"

Step == PacingInv' /\ AlertTypes' /\ CardInv' /\ Promises

LEMMA NoTiming ==
    ASSUME UNCHANGED posting
    PROVE  PacedStep
  BY DEF PacedStep, At

LEMMA OnDisconnectStep ==
    ASSUME AlertInv, OnDisconnect
    PROVE  Step
  <1>1. PacingInv' /\ PacedStep
    BY NoTiming DEF OnDisconnect, postVars, AlertInv, PacingInv, PostTypeOK, At
  <1>2. ~ posted /\ timer = NoTimer /\ told = "recovered" /\ card = "none"
    BY DEF OnDisconnect, AlertInv, CardInv
  <1>3. timer' = Grace /\ Grace \in Nat /\ Grace # NoTimer /\ downFor' = 0 /\ feed' = "down"
    BY <1>2, AlertAssumption DEF OnDisconnect, Arm, NoTimer
  <1>4. LoopFree' <=> LoopFree
    BY DEF OnDisconnect, postVars, LoopFree, At
  <1>5. UNCHANGED <<posted, card, told>>
    BY DEF OnDisconnect
  <1>6. AlertTypes'
    BY <1>3, <1>5 DEF AlertInv, TypeOK, AlertTypes, NoTimer
  <1>7. CardInv'
    BY <1>2, <1>3, <1>4, <1>5 DEF AlertInv, CardInv
  <1> QED BY <1>1, <1>2, <1>5, <1>6, <1>7 DEF Step, Promises

\* A card begins on a free loop, and holds it.
LEMMA CardBegins ==
    ASSUME AlertInv, NEW c \in {"broken", "recovered", "trade"}, BeginCard(c)
    PROVE  PacingInv' /\ PacedStep /\ ~ LoopFree' /\ card = "none" /\ card' = c
  <1>1. "loop" \in Threads /\ BeginPost("loop") /\ PacingInv
    BY AlertAssumption DEF BeginCard, AlertInv
  <1>2. LoopFree
    BY <1>1 DEF BeginPost, LoopFree
  <1>3. card = "none" /\ card' = c
    BY <1>2 DEF AlertInv, CardInv, BeginCard
  <1>4. PacingInv' /\ PacedStep /\ posting'["loop"].pc = "lock"
    BY <1>1, BeginPostStep
  <1> QED BY <1>3, <1>4 DEF LoopFree, At

LEMMA OnRecoverStep ==
    ASSUME AlertInv, OnRecover
    PROVE  Step
  <1>1. LoopFree /\ feed \in {"boot", "down"} /\ feed' = "live" /\ downFor' = 0 /\ timer' = NoTimer
    BY DEF OnRecover, Disarm
  <1>2. card = "none" /\ (posted <=> told = "broken") /\ NoTimer \in NoTimer..Grace /\ 0 \in 0..Grace
    BY <1>1, AlertAssumption DEF AlertInv, CardInv, NoTimer
  <1>3. CASE posted /\ posted' = FALSE /\ BeginCard("recovered")
    <2>1. PacingInv' /\ PacedStep /\ ~ LoopFree' /\ card' = "recovered"
      BY <1>3, CardBegins
    <2>2. told' = "recovered"
      BY <1>3 DEF BeginCard
    <2> QED BY <1>1, <1>2, <1>3, <2>1, <2>2 DEF Step, Promises, AlertTypes, CardInv
  <1>4. CASE ~ posted /\ UNCHANGED <<postVars, posted, card, told, arrived>>
    <2>1. PacingInv' /\ PacedStep /\ (LoopFree' <=> LoopFree)
      BY <1>4, NoTiming DEF postVars, AlertInv, PacingInv, PostTypeOK, At, LoopFree
    <2>2. told = "recovered"
      BY <1>2, <1>4 DEF AlertInv, TypeOK
    <2> QED BY <1>1, <1>2, <1>4, <2>1, <2>2
        DEF Step, Promises, AlertTypes, CardInv, AlertInv, TypeOK
  <1> QED BY <1>3, <1>4 DEF OnRecover, Recover

LEMMA GraceOverStep ==
    ASSUME AlertInv, GraceOver
    PROVE  Step
  <1>1. LoopFree /\ timer = 0 /\ timer' = NoTimer /\ timer # NoTimer
    BY DEF GraceOver, NoTimer
  <1>2. feed = "down" /\ told = "recovered" /\ downFor = Grace /\ ~ posted
    BY <1>1, AlertAssumption DEF AlertInv, TypeOK, CardInv
  <1>3. BeginCard("broken") /\ UNCHANGED <<feed, downFor, posted>>
    BY <1>2 DEF GraceOver
  <1>4. PacingInv' /\ PacedStep /\ ~ LoopFree' /\ card = "none" /\ card' = "broken"
    BY <1>3, CardBegins
  <1>5. told' = "broken" /\ NoTimer \in NoTimer..Grace
    BY <1>3, AlertAssumption DEF BeginCard, NoTimer
  <1> QED BY <1>1, <1>2, <1>3, <1>4, <1>5 DEF Step, Promises, AlertTypes, CardInv, AlertInv, TypeOK

LEMMA PostTradeStep ==
    ASSUME AlertInv, PostTrade
    PROVE  Step
  <1>1. LoopFree /\ BeginCard("trade") /\ UNCHANGED <<feed, downFor, timer, posted>>
    BY DEF PostTrade
  <1>2. PacingInv' /\ PacedStep /\ ~ LoopFree' /\ card = "none" /\ card' = "trade"
    BY <1>1, CardBegins
  <1>3. told' = told
    BY <1>1 DEF BeginCard
  <1> QED BY <1>1, <1>2, <1>3 DEF Step, Promises, AlertTypes, CardInv, AlertInv, TypeOK

LEMMA LoopAnsweredStep ==
    ASSUME AlertInv, LoopAnswered
    PROVE  Step
  <1>1. "loop" \in Threads /\ PacingInv
    BY AlertAssumption DEF AlertInv
  <1>2. PacingInv' /\ PacedStep /\ LoopFree'
    BY <1>1, EndPostStep DEF LoopAnswered, LoopFree, At
  <1>3. /\ posted' = (posted \/ card = "broken") /\ card' = "none"
        /\ UNCHANGED <<feed, downFor, timer, told>>
    BY DEF LoopAnswered
  <1> QED BY <1>2, <1>3 DEF Step, Promises, AlertTypes, CardInv, AlertInv, TypeOK

LEMMA LoopPostsStep ==
    ASSUME AlertInv, LoopPosts
    PROVE  Step
  <1>1. "loop" \in Threads /\ PacingInv /\ PostGoesOn("loop") /\ UNCHANGED alertVars
    BY AlertAssumption DEF AlertInv, LoopPosts
  <1>2. PacingInv' /\ PacedStep /\ ~ LoopFree /\ ~ LoopFree'
    BY <1>1, PostGoesOnStep DEF LoopFree, At
  <1> QED BY <1>1, <1>2 DEF alertVars, Step, Promises, AlertTypes, CardInv, AlertInv, TypeOK

LEMMA OthersPostStep ==
    ASSUME AlertInv, OthersPost
    PROVE  Step
  <1>1. PICK t \in Others : BeginPost(t) \/ PostGoesOn(t) \/ Delivered(t) \/ PostFails(t)
    BY DEF OthersPost
  <1>2. t \in Threads /\ "loop" \in Threads \ {t} /\ PacingInv /\ UNCHANGED alertVars
    BY AlertAssumption DEF Others, AlertInv, OthersPost
  <1>3. PacingInv' /\ PacedStep /\ posting'["loop"] = posting["loop"]
    BY <1>1, <1>2, BeginPostStep, PostGoesOnStep, EndPostStep
  <1>4. LoopFree' <=> LoopFree
    BY <1>3 DEF LoopFree, At
  <1> QED BY <1>2, <1>3, <1>4 DEF alertVars, Step, Promises, AlertTypes, CardInv, AlertInv, TypeOK

LEMMA TickStep ==
    ASSUME AlertInv, Tick
    PROVE  Step
  <1>1. PacingInv' /\ PacedStep /\ (LoopFree' <=> LoopFree)
    BY PostTickStep, AlertAssumption DEF Tick, AlertInv, LoopFree, At
  <1>2. UNCHANGED <<feed, posted, card, told>>
    BY DEF Tick
  <1>3. timer' \in NoTimer..Grace /\ downFor' \in 0..Grace
    BY AlertAssumption DEF Tick, AlertInv, TypeOK, NoTimer, Shortest
  <1>4. (timer' # NoTimer <=> timer # NoTimer) /\ (timer # NoTimer => timer' + downFor' = Grace)
    <2>1. timer \in NoTimer..Grace /\ downFor \in 0..Grace /\ Grace \in Nat
      BY AlertAssumption DEF AlertInv, TypeOK
    <2>2. timer # NoTimer => feed = "down" /\ timer + downFor = Grace
      BY DEF AlertInv, TypeOK, CardInv
    <2> QED BY <2>1, <2>2 DEF Tick, NoTimer, Shortest
  <1>5. CardInv'
    BY <1>1, <1>2, <1>4 DEF AlertInv, CardInv
  <1> QED BY <1>1, <1>2, <1>3, <1>5 DEF Step, Promises, AlertTypes, AlertInv, TypeOK

\* The observation of the answer keeps its type in every step.
LEMMA ArrivedType ==
    ASSUME AlertInv, Next
    PROVE  arrived' \in BOOLEAN
  <1>1. arrived \in BOOLEAN
    BY DEF AlertInv, TypeOK
  <1>2. CASE OnDisconnect \/ LoopPosts \/ OthersPost \/ Tick
    BY <1>1, <1>2 DEF OnDisconnect, LoopPosts, OthersPost, Tick, alertVars
  <1>3. CASE OnRecover
    BY <1>1, <1>3 DEF OnRecover, Recover, BeginCard
  <1>4. CASE GraceOver
    BY <1>1, <1>4 DEF GraceOver, BeginCard
  <1>5. CASE PostTrade
    BY <1>1, <1>5 DEF PostTrade, BeginCard
  <1>6. CASE LoopAnswered
    BY <1>1, <1>6 DEF LoopAnswered
  <1> QED BY <1>2, <1>3, <1>4, <1>5, <1>6 DEF Next, Loop

LEMMA AlertSteps ==
    AlertInv /\ [Next]_vars => AlertInv' /\ (Promises \/ UNCHANGED vars)
  <1> SUFFICES ASSUME AlertInv, [Next]_vars PROVE AlertInv' /\ (Promises \/ UNCHANGED vars)
    OBVIOUS
  <1>1. CASE UNCHANGED vars
    BY <1>1 DEF vars, postVars, alertVars, AlertInv, TypeOK, PostTypeOK, PacingInv, CardInv, At,
                LoopFree
  <1>2. CASE Next
    <2>1. Step
      BY <1>2, OnDisconnectStep, OnRecoverStep, GraceOverStep, PostTradeStep, LoopAnsweredStep,
         LoopPostsStep, OthersPostStep, TickStep DEF Next, Loop
    <2>2. arrived' \in BOOLEAN
      BY <1>2, ArrivedType
    <2> QED BY <2>1, <2>2 DEF Step, AlertInv, PacingInv, TypeOK, AlertTypes
  <1> QED BY <1>1, <1>2

-----------------------------------------------------------------------------
(* Theorems                                                                *)

\* The alerts' state keeps its types: no sleep is longer than the ceiling or the
\* time-out, no thread makes more attempts than it has (_post).
THEOREM AlertsTypeCorrect == Spec => []TypeOK
  BY AlertInit, AlertSteps, PTL DEF Spec, AlertInv

\* Attempts are paced whatever threads post, are rejected and retry (_post).
THEOREM PostsArePaced == Spec => AttemptsPaced
  <1>1. AlertInv /\ [Next]_vars => [PacedStep]_vars
    BY AlertSteps DEF Promises
  <1>2. [PacedStep]_vars =>
        [\A t \in Threads : At(t, "sending")' /\ ~ At(t, "sending") => since = Interval]_vars
    BY DEF PacedStep
  <1> QED BY <1>1, <1>2, AlertInit, AlertSteps, PTL DEF Spec, AttemptsPaced

\* Only an outage that lasted the whole grace is told (_broken_after_grace).
THEOREM BlipsStaySilent == Spec => BlipsAreSilent
  <1>1. AlertInv /\ [Next]_vars =>
        [told' = "broken" /\ told # "broken" => feed = "down" /\ downFor = Grace]_vars
    BY AlertSteps DEF Promises
  <1> QED BY <1>1, AlertInit, AlertSteps, PTL DEF Spec, BlipsAreSilent

\* Outages and recoveries are told in pairs (_on_disconnect, _on_recover).
THEOREM CardsAlwaysPair == Spec => CardsPairUp
  <1>1. AlertInv /\ [Next]_vars => [card' = "recovered" /\ card # card' => told = "broken"]_vars
    BY AlertSteps DEF Promises
  <1>2. AlertInv /\ [Next]_vars => [card' = "broken" /\ card # card' => told = "recovered"]_vars
    BY AlertSteps DEF Promises
  <1> QED BY <1>1, <1>2, AlertInit, AlertSteps, PTL DEF Spec, CardsPairUp

\* No outage is forgotten, and a live feed leaves nothing behind.
THEOREM OutagesAreAttended == Spec => []OutageIsAttended
  <1>1. AlertInv => OutageIsAttended
    BY AlertAssumption DEF AlertInv, TypeOK, CardInv, OutageIsAttended
  <1> QED BY <1>1, AlertInit, AlertSteps, PTL DEF Spec
=============================================================================

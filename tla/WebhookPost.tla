---------------------------- MODULE WebhookPost ----------------------------
(***************************************************************************)
(* The webhook pipeline of bot/discord_alerts.py: the function _post, run  *)
(* by several threads at once.  Each attempt takes the process-wide lock,  *)
(* sleeps inside it until the pacing interval since the last attempt of    *)
(* any thread is over, notes the time and leaves the lock; the request is  *)
(* sent outside it.  A 429 is retried after a backoff unless the wait      *)
(* would reach the ceiling.                                                *)
(*                                                                         *)
(* Time runs in ticks of half a second and only while every thread sleeps, *)
(* waits for the lock or waits for the network.  The module has no         *)
(* specification of its own: OutageAlerts composes it with the callers.    *)
(* The cards' texts are left out; under pytest the pipeline does nothing,  *)
(* which is not modelled.                                                  *)
(***************************************************************************)
EXTENDS Integers

CONSTANTS Threads,
          Interval,     \* rate_limit_interval_s
          Ceiling,      \* max_backoff_sleep_s
          MaxRetries,   \* max_retries
          Timeout,      \* http_timeout_s
          Delays,       \* the waits a 429 may ask for
          Jitter

ASSUME PacingAssumption ==
    /\ Interval \in Nat /\ Ceiling \in Nat /\ Interval <= Ceiling
    /\ MaxRetries \in Nat /\ Timeout \in Nat \ {0}
    /\ Delays \subseteq Nat /\ Jitter \subseteq Nat
    /\ "nobody" \notin Threads
    \* Arithmetic that the provers have no axiom for.
    /\ \A n \in 0..MaxRetries : 3 ^ n \in Nat /\ 2 ^ n \in Nat \ {0}

VARIABLES posting,   \* [Threads -> where a thread is in _post]
          holder,    \* the thread inside the lock, if any
          since      \* ticks since _last_post_monotonic, up to Interval

postVars == <<posting, holder, since>>

NoThread == "nobody"
Idle == [pc |-> "idle", attempt |-> 0, wait |-> 0]

At(t, place) == posting[t].pc = place
Move(t, place, wait) == posting' = [posting EXCEPT ![t].pc = place, ![t].wait = wait]

Longest(a, b) == IF a >= b THEN a ELSE b
Shortest(a, b) == IF a <= b THEN a ELSE b

PostTypeOK ==
    /\ posting \in [Threads -> [pc : {"idle", "lock", "pacing", "sending", "backoff"},
                                attempt : 0..MaxRetries, wait : 0..Longest(Ceiling, Timeout)]]
    /\ holder \in Threads \cup {NoThread}
    /\ since \in 0..Interval

PostInit == posting = [t \in Threads |-> Idle] /\ holder = NoThread /\ since = Interval

-----------------------------------------------------------------------------
(* One attempt                                                             *)

BeginPost(t) ==
    /\ At(t, "idle")
    /\ posting' = [posting EXCEPT ![t] = [Idle EXCEPT !.pc = "lock"]]
    /\ UNCHANGED <<holder, since>>

\* Mutant: the thread sleeps outside the lock and notes the time on waking.
PaceOutside(t) ==
    /\ At(t, "lock") /\ holder = NoThread
    /\ IF since >= Interval
       THEN Move(t, "sending", Timeout) /\ since' = 0
       ELSE Move(t, "pacing", Shortest(Interval - since, Ceiling)) /\ UNCHANGED since
    /\ UNCHANGED holder

\* The pacing sleep holds the lock.
Pace(t) ==
    /\ At(t, "lock") /\ holder = NoThread
    /\ IF since >= Interval
       THEN Move(t, "sending", Timeout) /\ since' = 0 /\ UNCHANGED holder
       ELSE Move(t, "pacing", Shortest(Interval - since, Ceiling)) /\ holder' = t /\ UNCHANGED since

Paced(t) ==
    /\ At(t, "pacing") /\ posting[t].wait = 0
    /\ Move(t, "sending", Timeout) /\ since' = 0 /\ holder' = NoThread

-----------------------------------------------------------------------------
(* The answer                                                              *)

EndPost(t) == posting' = [posting EXCEPT ![t] = Idle] /\ UNCHANGED <<holder, since>>

Delivered(t) == At(t, "sending") /\ EndPost(t)

\* An exception, among them a time-out, or a status other than 2xx and 429.
Rejected(t) == At(t, "sending") /\ EndPost(t)

\* The wait a 429 asks for; Interval when its body and headers name none.
RetryAfter == Delays \cup {Interval}

Backoff(delay, attempt, jitter) ==
    (Longest(delay, Interval) * 3 ^ attempt) \div 2 ^ attempt + jitter

GivesUp(t, delay, backoff) ==
    delay >= Ceiling \/ posting[t].attempt = MaxRetries \/ backoff >= Ceiling

TooManyRequests(t, delay, jitter) ==
    /\ At(t, "sending")
    /\ ~ GivesUp(t, delay, Backoff(delay, posting[t].attempt, jitter))
    /\ Move(t, "backoff", Backoff(delay, posting[t].attempt, jitter))
    /\ UNCHANGED <<holder, since>>

GiveUpPost(t, delay, jitter) ==
    /\ At(t, "sending")
    /\ GivesUp(t, delay, Backoff(delay, posting[t].attempt, jitter))
    /\ EndPost(t)

\* Mutant: the attempts are not counted.
RetryUncounted(t) ==
    /\ At(t, "backoff") /\ posting[t].wait = 0
    /\ posting' = [posting EXCEPT ![t].pc = "lock"]
    /\ UNCHANGED <<holder, since>>

Retry(t) ==
    /\ At(t, "backoff") /\ posting[t].wait = 0
    /\ posting' = [posting EXCEPT ![t].pc = "lock", ![t].attempt = @ + 1]
    /\ UNCHANGED <<holder, since>>

PostGoesOn(t) ==
    \/ Pace(t) \/ Paced(t) \/ Retry(t)
    \/ \E delay \in RetryAfter, jitter \in Jitter : TooManyRequests(t, delay, jitter)

PostFails(t) ==
    \/ Rejected(t)
    \/ \E delay \in RetryAfter, jitter \in Jitter : GiveUpPost(t, delay, jitter)

-----------------------------------------------------------------------------
(* Time                                                                    *)

Waiting(t) ==
    \/ At(t, "idle")
    \/ At(t, "lock") /\ holder # NoThread
    \/ posting[t].wait > 0

PostTick ==
    /\ \A t \in Threads : Waiting(t)
    /\ posting' = [t \in Threads |-> [posting[t] EXCEPT !.wait = Longest(@ - 1, 0)]]
    /\ since' = Shortest(since + 1, Interval)
    /\ UNCHANGED holder
=============================================================================

----------------------------- MODULE RelayRest -----------------------------
(***************************************************************************)
(* The REST client of the relay (strategy_engine/ingestion/rest_client.py) *)
(* with several coroutines calling it: the token bucket, the retries of a  *)
(* request and the pages of a bar query.                                   *)
(*                                                                         *)
(* One tick refills one unit of the bucket and a request costs Price       *)
(* units.  A caller that finds too little reserves what it lacks: it       *)
(* leaves the bucket's clock in the future and sleeps.  A sleeper wakes at *)
(* its time or later, since the event loop may be busy.  Any caller may be *)
(* cancelled where it waits.  get_health takes no token and is not         *)
(* retried; it is part of FeedLifecycle.  try_acquire and reset have no    *)
(* caller in the program and are left out.                                 *)
(***************************************************************************)
EXTENDS Integers, Sequences, FiniteSets

CONSTANTS Callers,
          Capacity,    \* units: burst_capacity * Price
          Price,       \* units one request costs
          MaxRetries,
          BaseDelay, MaxDelay,
          RetryAfters, \* waits a relay's answer may ask for, 0 for none
          Pages,       \* pages the relay has for a query
          Limits,      \* max_pages of the queries, 0 for None
          MaxDebt      \* bound: no new call while the bucket lacks more

ASSUME RestAssumption ==
    /\ Capacity \in Nat /\ Price \in Nat \ {0} /\ Price <= Capacity
    /\ IsFiniteSet(Callers) /\ MaxRetries \in Nat /\ BaseDelay \in Nat /\ MaxDelay \in Nat
    /\ Pages \in Nat \ {0} /\ RetryAfters \subseteq Nat /\ Limits \subseteq Nat /\ MaxDebt \in Nat

VARIABLES tokens,    \* tokens when _last_update was set
          ago,       \* ticks since _last_update, negative while it lies ahead
          pc,        \* "idle", "token", "sent", "backoff", "returned"
          wait,      \* ticks a caller still sleeps
          attempt,
          limit, got,\* max_pages of the query and the pages collected
          credit     \* observation: the budget that the requests sent leave

bucketVars == <<tokens, ago>>
queryVars == <<limit, got>>
vars == <<bucketVars, pc, wait, attempt, queryVars, credit>>

Shortest(a, b) == IF a <= b THEN a ELSE b
Longest(a, b) == IF a >= b THEN a ELSE b

\* available_tokens
Level == Shortest(Capacity, tokens + ago)

\* The burst, and one request of each caller that wakes late.
Ceiling == Capacity + Price * Cardinality(Callers)

LongestWait ==
    Longest(MaxDebt + Price * Cardinality(Callers),
            MaxDelay + 1 + CHOOSE r \in RetryAfters : \A s \in RetryAfters : r >= s)

TypeOK ==
    /\ tokens \in 0..Capacity
    /\ ago \in (0 - MaxDebt - Price * Cardinality(Callers))..Capacity
    /\ pc \in [Callers -> {"idle", "token", "sent", "backoff", "returned"}]
    /\ wait \in [Callers -> 0..LongestWait]
    /\ attempt \in [Callers -> 0..MaxRetries]
    /\ limit \in [Callers -> Limits]
    /\ got \in [Callers -> Seq(1..Pages)]
    /\ credit \in 0..Ceiling

Init ==
    /\ tokens = Capacity /\ ago = 0
    /\ pc = [c \in Callers |-> "idle"] /\ wait = [c \in Callers |-> 0]
    /\ attempt = [c \in Callers |-> 0]
    /\ limit \in [Callers -> Limits] /\ got = [c \in Callers |-> <<>>]
    /\ credit = Ceiling

Goto(c, place, ticks) ==
    /\ pc' = [pc EXCEPT ![c] = place] /\ wait' = [wait EXCEPT ![c] = ticks]
    /\ credit' = IF place = "sent" THEN credit - Price ELSE credit

-----------------------------------------------------------------------------
(* The token bucket                                                        *)

\* Mutant: the reservation is not noted in the clock.
AcquireUnreserved(c) ==
    IF Level >= Price
    THEN tokens' = Level - Price /\ ago' = 0 /\ Goto(c, "sent", 0)
    ELSE tokens' = 0 /\ ago' = 0 /\ Goto(c, "token", Price - Longest(Level, 0))

\* acquire: nothing is awaited inside its lock.
Acquire(c) ==
    IF Level >= Price
    THEN tokens' = Level - Price /\ ago' = 0 /\ Goto(c, "sent", 0)
    ELSE tokens' = 0 /\ ago' = Level - Price /\ Goto(c, "token", Price - Level)

Slept(c) ==
    /\ pc[c] = "token" /\ wait[c] = 0
    /\ Goto(c, "sent", 0)
    /\ UNCHANGED <<bucketVars, attempt, queryVars>>

-----------------------------------------------------------------------------
(* One request                                                             *)

\* get_bars and get_multi_bars; get_latest_* fetch a single page.
Call(c) ==
    /\ pc[c] = "idle" /\ Level >= 0 - MaxDebt
    /\ \E max \in Limits : limit' = [limit EXCEPT ![c] = max]
    /\ got' = [got EXCEPT ![c] = <<>>] /\ attempt' = [attempt EXCEPT ![c] = 0]
    /\ Acquire(c)

\* The relay sends the page that follows the last one.
NextPage(c) == Len(got[c]) + 1

LastPage(c) == NextPage(c) = Pages \/ (limit[c] # 0 /\ NextPage(c) >= limit[c])

\* HTTP 200: the page is kept; the next one starts with a count of its own.
PageArrives(c) ==
    /\ pc[c] = "sent"
    /\ got' = [got EXCEPT ![c] = Append(@, NextPage(c))]
    /\ attempt' = [attempt EXCEPT ![c] = 0]
    /\ IF LastPage(c) THEN Goto(c, "returned", 0) /\ UNCHANGED bucketVars ELSE Acquire(c)
    /\ UNCHANGED limit

Raise(c) ==
    /\ Goto(c, "idle", 0)
    /\ UNCHANGED <<bucketVars, attempt, queryVars>>

\* 401, another 4xx, a body that is no JSON, a 5xx that is not retryable
Refused(c) == pc[c] = "sent" /\ Raise(c)

\* 429, 500, 502, 503, 504 or a transport error
Delay(n, jitter, asked) ==
    Longest(Shortest(MaxDelay, BaseDelay * 2 ^ (n - 1)) + jitter, asked)

\* Mutant: the attempts are never exhausted.
AttemptsEndless(c) == attempt[c] <= MaxRetries

AttemptsLeft(c) == attempt[c] < MaxRetries

BackOff(c) ==
    /\ pc[c] = "sent" /\ AttemptsLeft(c)
    /\ attempt' = [attempt EXCEPT ![c] = Shortest(@ + 1, MaxRetries)]
    /\ \E jitter \in 0..1, asked \in RetryAfters :
          Goto(c, "backoff", Delay(attempt'[c], jitter, asked))
    /\ UNCHANGED <<bucketVars, queryVars>>

\* Mutant: what was collected is returned when the retries are used up.
ExhaustedQuietly(c) ==
    /\ pc[c] = "sent" /\ ~ AttemptsLeft(c)
    /\ Goto(c, "returned", 0)
    /\ UNCHANGED <<bucketVars, attempt, queryVars>>

Exhausted(c) == pc[c] = "sent" /\ ~ AttemptsLeft(c) /\ Raise(c)

\* A retry takes a token of its own.
TryAgain(c) ==
    /\ pc[c] = "backoff" /\ wait[c] = 0
    /\ Acquire(c)
    /\ UNCHANGED <<attempt, queryVars>>

\* The caller takes the bars.
Take(c) == pc[c] = "returned" /\ Raise(c)

\* The task is cancelled in one of its waits; a token it reserved is lost.
Cancelled(c) == pc[c] \in {"token", "sent", "backoff"} /\ Raise(c)

-----------------------------------------------------------------------------
Tick ==
    /\ ago' = Shortest(ago + 1, Capacity)
    /\ wait' = [c \in Callers |-> Longest(wait[c] - 1, 0)]
    /\ credit' = Shortest(credit + 1, Ceiling)
    /\ UNCHANGED <<tokens, pc, attempt, queryVars>>

Works(c) ==
    \/ Slept(c) \/ PageArrives(c) \/ Refused(c) \/ BackOff(c) \/ Exhausted(c)
    \/ TryAgain(c) \/ Take(c)

Next == Tick \/ \E c \in Callers : Call(c) \/ Works(c) \/ Cancelled(c)

\* A sleeper wakes, an answer or the client's time-out comes, time passes.
Fairness == WF_vars(Tick) /\ \A c \in Callers : WF_vars(Works(c))

Spec == Init /\ [][Next]_vars
FairSpec == Spec /\ Fairness

-----------------------------------------------------------------------------
(* Properties                                                              *)

Contract == INSTANCE RateContract
    WITH budget <- credit, out <- {c \in Callers : pc[c] = "sent"}

\* Whoever calls, retries, is cancelled or wakes late, requests leave at the
\* bucket's rate: the burst and one late request per caller beyond it.
KeepsRateCeiling == Contract!Spec

\* A query returns all its pages, each once and in order, or raises; retries
\* in between neither skip nor repeat one.
CompleteOrError ==
    \A c \in Callers : pc[c] = "returned" =>
        got[c] = [n \in 1..(IF limit[c] = 0 THEN Pages ELSE Shortest(Pages, limit[c])) |-> n]

\* Every call ends, whatever the relay answers.
CallsEnd == \A c \in Callers : pc[c] # "idle" ~> pc[c] = "idle"
=============================================================================

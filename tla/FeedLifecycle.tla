--------------------------- MODULE FeedLifecycle ---------------------------
(***************************************************************************)
(* bot/feed_manager.py over strategy_engine/ingestion: the feed that is    *)
(* live on the relay or in synthetic fallback, the gate IngestionState-    *)
(* Machine that decides whether it is safe to trade, AlpacaRelayClient     *)
(* that ties the gate to the socket, and a relay that loses its upstream,  *)
(* its clients or itself.                                                  *)
(*                                                                         *)
(* An attempt is a task on its way to the live feed: the recovery loop, or *)
(* a probe (_try_connect_live, started by start() and by every             *)
(* upstream_connected event).  Each goes through two health requests,      *)
(* connect() and a pause (the gap's backfill, or 0.05 s) before it         *)
(* declares the feed live.                                                 *)
(*                                                                         *)
(* The manager's _state_lock is never contended: the callbacks it awaits   *)
(* under it do not suspend, so a transition is one step.  The state        *)
(* machine's lock is held across a suspension only by an upstream_connected*)
(* event during its backfill (syncing).                                    *)
(***************************************************************************)
EXTENDS RelayConnection, Sequences

CONSTANTS
    MaxEvents,      \* bound: relay broadcasts not yet dispatched
    MaxFaults,      \* bound: losses of upstream, relay, sockets and REST calls
    MayStop         \* whether stop() is called

Attempts == {"recovery", "probe"}

ASSUME FeedAssumption ==
    /\ Tasks = Attempts
    /\ MaxEvents \in Nat /\ MaxFaults \in Nat /\ MayStop \in BOOLEAN

VARIABLES
    feed,           \* _feed_source, with _is_connected and the banner
    synthetic,      \* whether the price caches hold made-up prices
    ticker,         \* whether _synthetic_ticker_task runs
    silent,         \* no heartbeat for stale_timeout_seconds of market hours
    stage,          \* _running, and how far stop() has come
    pc,             \* where each attempt is
    said,           \* the health answer on its way to an attempt
    fallbackDue,    \* a lifecycle event has scheduled _transition_to_fallback
    probeDue,       \* a lifecycle event has scheduled _try_connect_live
    sm,             \* IngestionStateMachine._current_state
    syncing,        \* an upstream_connected event backfills, holding the lock
    inbox,          \* lifecycle messages in the client's queue, oldest first
    relay,          \* the relay: up, without upstream, or gone
    faults          \* faults so far

feedVars == <<feed, synthetic, ticker, silent>>
envVars == <<relay, faults>>
due == <<fallbackDue, probeDue>>
vars == <<connVars, feedVars, stage, pc, said, due, sm, syncing, inbox, envVars>>

TypeOK ==
    /\ ConnTypeOK
    /\ feed \in {"live", "fallback"} /\ synthetic \in BOOLEAN
    /\ ticker \in BOOLEAN /\ silent \in BOOLEAN
    /\ stage \in {"running", "stopping", "stopped"}
    /\ pc \in [Attempts -> {"none", "asleep", "health", "stream", "connect", "refused", "pause"}]
    /\ said \in [Attempts -> {"nothing", "up", "down", "error"}]
    /\ fallbackDue \in BOOLEAN /\ probeDue \in BOOLEAN
    /\ sm \in {"initializing", "monitoring", "syncing", "stale"}
    /\ syncing \in BOOLEAN
    /\ inbox \in Seq({"connected", "disconnected"}) /\ Len(inbox) <= MaxEvents
    /\ relay \in {"up", "cut", "gone"} /\ faults \in 0..MaxFaults

\* start() has filled the caches with stored or synthetic bars, created the
\* loops and begun its first attempt.
Init ==
    /\ ConnInit
    /\ feed = "fallback" /\ synthetic \in BOOLEAN
    /\ ticker = FALSE /\ silent = FALSE /\ stage = "running"
    /\ pc = [recovery |-> "asleep", probe |-> "health"]
    /\ said = [t \in Attempts |-> "nothing"] /\ fallbackDue = FALSE /\ probeDue = FALSE
    /\ sm = "initializing" /\ syncing = FALSE /\ inbox = <<>>
    /\ relay \in {"up", "cut", "gone"} /\ faults = 0

Goto(t, place) == pc' = [pc EXCEPT ![t] = place]
\* Mutant: an error in the first request ends the recovery loop.
RestForGood(t) == IF pc[t] = "health" THEN "none" ELSE IF t = "recovery" THEN "asleep" ELSE "none"
Rest(t) == IF t = "recovery" THEN "asleep" ELSE "none"

-----------------------------------------------------------------------------
(* The two transitions of the feed                                         *)

\* Mutant: the caches are kept, as before the fix the comment tells of.
TransitionKeepingPrices ==
    IF feed = "live" THEN UNCHANGED feedVars
    ELSE feed' = "live" /\ synthetic' = synthetic /\ ticker' = FALSE /\ silent' = FALSE

TransitionToLive ==
    IF feed = "live" THEN UNCHANGED feedVars
    ELSE feed' = "live" /\ synthetic' = FALSE /\ ticker' = FALSE /\ silent' = FALSE

TransitionToFallback ==
    feed' = "fallback" /\ ticker' = TRUE /\ silent' = FALSE /\ UNCHANGED synthetic

\* A probe that fails declares the fallback, the recovery loop does not.
GiveUp(t) ==
    /\ Goto(t, Rest(t))
    /\ IF t = "probe" THEN TransitionToFallback ELSE UNCHANGED feedVars

-----------------------------------------------------------------------------
(* Attempts                                                                *)

RecoveryWakes ==
    /\ pc["recovery"] = "asleep" /\ feed = "fallback" /\ stage = "running"
    /\ Goto("recovery", "health")
    /\ UNCHANGED <<connVars, feedVars, stage, said, due, sm, syncing, inbox, envVars>>

HealthKnown(t) ==
    /\ pc[t] = "health"
    /\ IF relay = "up" THEN Goto(t, "stream") /\ UNCHANGED feedVars ELSE GiveUp(t)
    /\ UNCHANGED <<connVars, stage, said, due, sm, syncing, inbox, envVars>>

\* connect_stream asks again.  The server's answer may arrive later.
Answer == CASE relay = "up" -> "up" [] relay = "cut" -> "down" [] relay = "gone" -> "error"

ServerAnswers(t) ==
    /\ pc[t] = "stream" /\ said[t] = "nothing"
    /\ said' = [said EXCEPT ![t] = Answer]
    /\ UNCHANGED <<connVars, feedVars, stage, pc, due, sm, syncing, inbox, envVars>>

\* This answer opens or shuts the gate before the socket exists; a failed
\* check is only logged.
CheckInitialHealth(t) ==
    /\ pc[t] = "stream" /\ said[t] # "nothing" /\ ~ syncing
    /\ said' = [said EXCEPT ![t] = "nothing"]
    /\ sm' = IF said[t] = "up" THEN "monitoring" ELSE "stale"
    /\ Goto(t, "connect") /\ call' = [call EXCEPT ![t] = "waiting"]
    /\ UNCHANGED <<ws, sock, open, holder, producer, latest, reconnect, closed>>
    /\ UNCHANGED <<feedVars, stage, due, syncing, inbox, envVars>>

Connected(t) ==
    /\ pc[t] = "connect" /\ call[t] \in {"done", "failed"}
    /\ Goto(t, IF call[t] = "done" THEN "pause" ELSE "refused")
    /\ call' = [call EXCEPT ![t] = "idle"]
    /\ UNCHANGED <<ws, sock, open, holder, producer, latest, reconnect, closed>>
    /\ UNCHANGED <<feedVars, stage, said, due, sm, syncing, inbox, envVars>>

\* handle_upstream_disconnected, then the error goes to the attempt.
Refused(t) ==
    /\ pc[t] = "refused" /\ ~ syncing
    /\ sm' = "stale" /\ GiveUp(t)
    /\ UNCHANGED <<connVars, stage, said, due, syncing, inbox, envVars>>

\* After the pause nothing is looked at again.
DeclareLive(t) ==
    /\ pc[t] = "pause"
    /\ TransitionToLive /\ Goto(t, Rest(t))
    /\ UNCHANGED <<connVars, stage, said, due, sm, syncing, inbox, envVars>>

Attempt(t) ==
    \/ HealthKnown(t) \/ ServerAnswers(t) \/ CheckInitialHealth(t) \/ Connected(t)
    \/ Refused(t) \/ DeclareLive(t)

-----------------------------------------------------------------------------
(* The connection, given what the relay does                               *)

LifecycleSame == UNCHANGED <<feedVars, stage, pc, said, due, sm, syncing, inbox, envVars>>

Dial(c) ==
    \/ AlreadyConnected(c) \/ Acquire(c) \/ Authenticated(c) \/ HandshakeFails(c)
    \/ relay # "gone" /\ SocketOpens(c)
    \/ relay = "gone" /\ OpenFails(c)

Connection ==
    /\ \/ \E c \in Callers : Dial(c)
       \/ \E s \in Sockets : SocketDies(s) \/ ProducerTurns(s)
       \/ Reconnect
    /\ LifecycleSame

\* _dispatch_event(upstream_disconnected): the client's listener waits for the
\* gate's lock and shuts the gate, the manager's schedules a fallback.
Disconnected == sm' = "stale" /\ fallbackDue' = TRUE /\ probeDue' = probeDue

ProducerAlerts(s) ==
    /\ producer[s] = "alerting" /\ ~ syncing
    /\ Disconnected /\ ProducerEnds(s)
    /\ UNCHANGED <<feedVars, stage, pc, said, syncing, inbox, envVars>>

-----------------------------------------------------------------------------
(* The consumer: lifecycle messages and bars                               *)

Received(event) == inbox # <<>> /\ Head(inbox) = event /\ ~ syncing /\ inbox' = Tail(inbox)

HearDisconnected ==
    /\ Received("disconnected") /\ Disconnected
    /\ UNCHANGED <<connVars, feedVars, stage, pc, said, syncing, envVars>>

\* A gap of more than a minute is backfilled with the lock held.
HearConnected ==
    /\ Received("connected") /\ sm' = "syncing" /\ syncing' = TRUE
    /\ UNCHANGED <<connVars, feedVars, stage, pc, said, due, envVars>>

Resume == sm' = "monitoring" /\ probeDue' = TRUE /\ fallbackDue' = fallbackDue

HearConnectedNoGap ==
    /\ Received("connected") /\ Resume
    /\ UNCHANGED <<connVars, feedVars, stage, pc, said, syncing, envVars>>

Synced ==
    /\ syncing /\ syncing' = FALSE /\ Resume
    /\ UNCHANGED <<connVars, feedVars, stage, pc, said, inbox, envVars>>

Delivering == relay = "up" /\ \E s \in open : producer[s] = "reading"

\* _on_ws_bar, while the consumer is free to take it from the queue
BarArrives ==
    /\ Delivering /\ ~ syncing
    /\ silent' = FALSE
    /\ UNCHANGED <<connVars, feed, synthetic, ticker, stage, pc, said, due, sm, syncing, inbox, envVars>>

Events == HearDisconnected \/ HearConnected \/ HearConnectedNoGap \/ Synced

-----------------------------------------------------------------------------
(* The manager's own tasks                                                 *)

ScheduledFallback ==
    /\ fallbackDue /\ fallbackDue' = FALSE /\ probeDue' = probeDue
    /\ TransitionToFallback
    /\ UNCHANGED <<connVars, stage, pc, said, sm, syncing, inbox, envVars>>

\* Mutant: the watchdog looks at the socket only.
WatchdogOfSockets ==
    /\ feed = "live" /\ stage = "running"
    /\ ~ IsConnected
    /\ TransitionToFallback
    /\ UNCHANGED <<connVars, stage, pc, said, due, sm, syncing, inbox, envVars>>

\* Bound: one probe at a time, a second one starts after it.
ScheduledProbe ==
    /\ probeDue /\ probeDue' = FALSE /\ fallbackDue' = fallbackDue
    /\ pc["probe"] = "none" /\ Goto("probe", "health")
    /\ UNCHANGED <<connVars, feedVars, stage, said, sm, syncing, inbox, envVars>>

Watchdog ==
    /\ feed = "live" /\ stage = "running"
    /\ ~ IsConnected \/ silent
    /\ TransitionToFallback
    /\ UNCHANGED <<connVars, stage, pc, said, due, sm, syncing, inbox, envVars>>

SyntheticTick ==
    /\ ticker /\ feed = "fallback" /\ stage = "running"
    /\ synthetic' = TRUE
    /\ UNCHANGED <<connVars, feed, ticker, silent, stage, pc, said, due, sm, syncing, inbox, envVars>>

\* stop(): the loops are cancelled and the client disconnects; a probe goes on.
Stop ==
    /\ MayStop /\ stage = "running" /\ stage' = "stopping"
    /\ ticker' = FALSE /\ Goto("recovery", "none")
    /\ said' = [said EXCEPT !["recovery"] = "nothing"]
    /\ BeginDisconnect({"recovery"})
    /\ UNCHANGED <<feed, synthetic, silent, due, sm, syncing, inbox, envVars>>

Stopped ==
    /\ stage = "stopping" /\ stage' = "stopped" /\ EndDisconnect
    /\ UNCHANGED <<feedVars, pc, said, due, sm, syncing, inbox, envVars>>

-----------------------------------------------------------------------------
(* The relay and the network                                               *)

Same == UNCHANGED <<ws, sock, holder, call, producer, latest, reconnect, closed,
                    feed, synthetic, ticker, stage, pc, said, sm, syncing>>

Fault == faults < MaxFaults /\ faults' = faults + 1

\* A broadcast reaches the client that reads an open socket.
Broadcast(event) ==
    IF \E s \in open : producer[s] = "reading"
    THEN Len(inbox) < MaxEvents /\ inbox' = Append(inbox, event)
    ELSE inbox' = inbox

UpstreamLost ==
    /\ relay = "up" /\ relay' = "cut" /\ Fault /\ Broadcast("disconnected")
    /\ UNCHANGED <<open, silent, due>> /\ Same

UpstreamBack ==
    /\ relay = "cut" /\ relay' = "up" /\ Broadcast("connected")
    /\ UNCHANGED <<open, silent, due, faults>> /\ Same

RelayLost ==
    /\ relay # "gone" /\ relay' = "gone" /\ Fault /\ open' = {}
    /\ UNCHANGED <<silent, due, inbox>> /\ Same

RelayBack ==
    /\ relay = "gone" /\ relay' = "cut"
    /\ UNCHANGED <<open, silent, due, inbox, faults>> /\ Same

\* The network or an eviction (close code 1013) ends one connection.
SocketLost ==
    /\ Fault /\ \E s \in open : open' = open \ {s}
    /\ UNCHANGED <<silent, due, inbox, relay>> /\ Same

\* In market hours nothing arrives for stale_timeout_seconds, and nothing will: the
\* watchdog's false alarm on a stream that is only quiet is not modelled.
Silence ==
    /\ feed = "live" /\ ~ silent /\ ~ Delivering /\ silent' = TRUE
    /\ UNCHANGED <<open, due, inbox, envVars>> /\ Same

\* get_historical_bars over REST fails on the live feed.
RestFails ==
    /\ feed = "live" /\ Fault /\ TransitionToFallback
    /\ UNCHANGED <<connVars, stage, pc, said, due, sm, syncing, inbox, relay>>

Environment ==
    UpstreamLost \/ UpstreamBack \/ RelayLost \/ RelayBack \/ SocketLost \/ Silence \/ RestFails

Next ==
    \/ RecoveryWakes \/ \E t \in Attempts : Attempt(t)
    \/ Connection \/ \E s \in Sockets : ProducerAlerts(s)
    \/ Events \/ BarArrives
    \/ ScheduledFallback \/ ScheduledProbe \/ Watchdog \/ SyntheticTick \/ Stop \/ Stopped
    \/ Environment

Spec == Init /\ [][Next]_vars

\* The event loop runs every task that can go on, and the connection lock is
\* first come, first served.  During an outage market hours come round; no
\* other step of the environment is fair, and bars need never arrive.
Fairness ==
    /\ WF_vars(RecoveryWakes) /\ \A t \in Attempts : WF_vars(Attempt(t))
    /\ \A c \in Callers : SF_vars(Dial(c) /\ LifecycleSame)
    /\ \A s \in Sockets : WF_vars(SocketDies(s) /\ LifecycleSame) /\ WF_vars(ProducerAlerts(s))
    /\ WF_vars(Reconnect /\ LifecycleSame)
    /\ WF_vars(Events)
    /\ WF_vars(ScheduledFallback) /\ WF_vars(ScheduledProbe) /\ WF_vars(Watchdog)
    /\ WF_vars(Silence)

FairSpec == Spec /\ Fairness

-----------------------------------------------------------------------------
(* Properties                                                              *)

\* While the feed is live no made-up price is left in the caches: marks and
\* fills read them (feed_manager.py:309-311).
LivePricesAreReal == feed = "live" => ~ synthetic

Attended == (\E s \in Sockets : producer[s] # "none") \/ reconnect # "idle"

\* A client that calls itself authenticated, or a live feed, has a producer on a
\* socket or a reconnect task that is about to give it one: no interleaving of
\* drops, the reconnect task and the attempts loses the last task that is going
\* to notice, and the watchdog, which looks at the state only (ws_client.py:180),
\* is not fooled for good.
ConnectionIsAttended ==
    ws = "authenticated" \/ (stage = "running" /\ feed = "live") => Attended

RelayReturns == []<>(relay = "up")

\* Whatever was lost, and however the recovery loop, the probes and the
\* reconnect task get in each other's way: if the relay comes back, the feed
\* becomes live again.
EventuallyLive == RelayReturns => []<>(feed = "live" \/ stage # "running")

\* A live feed whose upstream is lost is not called live for ever, also when
\* the relay's broadcast never arrives.
DeadUpstreamNoticed ==
    feed = "live" /\ relay # "up" ~> feed = "fallback" \/ relay = "up" \/ stage # "running"
=============================================================================

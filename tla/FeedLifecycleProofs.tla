------------------------ MODULE FeedLifecycleProofs ------------------------
(***************************************************************************)
(* What FeedLifecycle and the connection under it promise for any number   *)
(* of sockets, broadcasts and faults, whenever stop() is called.           *)
(***************************************************************************)
EXTENDS FeedLifecycle, TLAPS

\* A client that calls itself authenticated reads its socket, or the reconnect
\* task is past the point where it let go of that socket and will connect next.
ReaderInv ==
    ws = "authenticated" =>
        \/ sock # 0 /\ (producer[sock] = "reading" \/ reconnect = "closing")
        \/ sock = 0 /\ reconnect = "connecting" /\ call["reconnect"] = "waiting"

\* The reconnect task calls connect() in one place and never outlives
\* disconnect().
ReconnectInv ==
    /\ call["reconnect"] # "idle" =>
          reconnect = "connecting" /\ call["reconnect"] \notin {"done", "failed"}
    /\ closed => reconnect = "idle"

ConnInv == ConnTypeOK /\ ReaderInv /\ ReconnectInv

\* From the first connection on somebody attends to it; before that the feed is
\* in fallback and no attempt is past connect().
AttendedInv ==
    stage = "running" =>
        /\ ~ closed
        /\ \/ Attended
           \/ feed = "fallback" /\ \A t \in Attempts : pc[t] # "pause" /\ call[t] # "done"

\* The types of what the feed manager and the gate keep.
FeedTypes ==
    /\ feed \in {"live", "fallback"} /\ synthetic \in BOOLEAN
    /\ ticker \in BOOLEAN /\ silent \in BOOLEAN
    /\ stage \in {"running", "stopping", "stopped"}
    /\ pc \in [Attempts -> {"none", "asleep", "health", "stream", "connect", "refused", "pause"}]
    /\ said \in [Attempts -> {"nothing", "up", "down", "error"}]

GateTypes ==
    /\ fallbackDue \in BOOLEAN /\ probeDue \in BOOLEAN
    /\ sm \in {"initializing", "monitoring", "syncing", "stale"} /\ syncing \in BOOLEAN
    /\ inbox \in Seq({"connected", "disconnected"}) /\ Len(inbox) <= MaxEvents
    /\ relay \in {"up", "cut", "gone"} /\ faults \in 0..MaxFaults

FeedInv == FeedTypes /\ GateTypes /\ ConnInv /\ AttendedInv /\ LivePricesAreReal

\* What a step of the connection keeps while disconnect() has not been called.
KeepsAttention ==
    /\ closed' => closed
    /\ ~ closed /\ Attended => Attended'
    /\ \A t \in Attempts : call'[t] = "done" => call[t] = "done" \/ Attended'

-----------------------------------------------------------------------------
(* The connection                                                          *)

LEMMA SocketFacts ==
    /\ 0 \in 0..MaxSockets /\ 0 \notin Sockets /\ Sockets \subseteq 0..MaxSockets
    /\ "reconnect" \in Callers /\ Attempts \subseteq Callers /\ "reconnect" \notin Attempts
    /\ \A s \in 0..MaxSockets : s # 0 => s \in Sockets
  BY ConnectionAssumption, FeedAssumption DEF Sockets, Callers, Attempts

\* connect() returns to its caller.
LEMMA ReturnFacts ==
    ASSUME ConnInv, NEW c \in Callers, NEW outcome \in {"done", "failed"}, Return(c, outcome),
           call[c] # "idle"
    PROVE  /\ holder' = "none"
           /\ call' \in [Callers -> {"idle", "waiting", "opening", "handshake", "done", "failed"}]
           /\ reconnect' \in {"idle", "starting", "sleeping", "closing", "connecting"}
           /\ call'["reconnect"] # "idle" =>
                 reconnect' = reconnect /\ call'["reconnect"] = call["reconnect"]
           /\ reconnect' = reconnect \/ (reconnect = "connecting" /\ reconnect' \in {"idle", "sleeping"})
           /\ closed => reconnect' = "idle"
           /\ reconnect = "closing" => reconnect' = "closing"
           /\ reconnect' = "idle" /\ reconnect # "idle" => outcome = "done" \/ closed
           /\ \A t \in Attempts : call'[t] = "done" => call[t] = "done" \/ outcome = "done"
  BY SocketFacts DEF ConnInv, ConnTypeOK, ReconnectInv, Return

LEMMA AlreadyConnectedStep ==
    ASSUME ConnInv, NEW c \in Callers, AlreadyConnected(c)
    PROVE  ConnInv' /\ KeepsAttention
  <1>1. PICK outcome \in {"done", "failed"} : Return(c, outcome)
    BY DEF AlreadyConnected
  <1>2. call[c] # "idle" /\ UNCHANGED <<ws, sock, open, producer, latest, closed>>
        /\ ws = "authenticated" /\ sock # 0
    BY DEF AlreadyConnected
  <1>3. ConnInv'
    BY <1>1, <1>2, ReturnFacts DEF ConnInv, ConnTypeOK, ReconnectInv, ReaderInv
  <1>4. Attended'
    <2>1. sock \in Sockets
      BY <1>2, SocketFacts DEF ConnInv, ConnTypeOK
    <2> QED BY <1>1, <1>2, <1>3, <2>1, ReturnFacts DEF ConnInv, ReaderInv, Attended
  <1> QED BY <1>2, <1>3, <1>4 DEF KeepsAttention

LEMMA AcquireStep ==
    ASSUME ConnInv, NEW c \in Callers, Acquire(c)
    PROVE  ConnInv' /\ KeepsAttention
  BY SocketFacts DEF Acquire, ConnInv, ConnTypeOK, ReconnectInv, ReaderInv, KeepsAttention, Attended

LEMMA SocketOpensStep ==
    ASSUME ConnInv, NEW c \in Callers, SocketOpens(c)
    PROVE  ConnInv' /\ KeepsAttention
  <1>1. NewSocket \in Sockets
    BY DEF SocketOpens, NewSocket, Unused
  <1> QED BY <1>1, SocketFacts DEF SocketOpens, ConnInv, ConnTypeOK, ReconnectInv, ReaderInv,
                                   KeepsAttention, Attended

LEMMA OpenFailsStep ==
    ASSUME ConnInv, NEW c \in Callers, OpenFails(c)
    PROVE  ConnInv' /\ KeepsAttention
  BY ReturnFacts DEF OpenFails, ConnInv, ConnTypeOK, ReconnectInv, ReaderInv, KeepsAttention, Attended

LEMMA AuthenticatedStep ==
    ASSUME ConnInv, NEW c \in Callers, Authenticated(c)
    PROVE  ConnInv' /\ KeepsAttention
  <1>1. /\ Return(c, "done") /\ call[c] # "idle" /\ sock \in Sockets /\ sock # 0
        /\ producer' = [producer EXCEPT ![sock] = "reading"] /\ latest' = sock
        /\ ws' = "authenticated" /\ UNCHANGED <<sock, open, closed>>
    BY SocketFacts DEF Authenticated, SocketAlive, ConnInv, ConnTypeOK
  <1>2. producer'[sock] = "reading" /\ Attended'
    BY <1>1 DEF ConnInv, ConnTypeOK, Attended
  <1>3. ConnInv'
    BY <1>1, <1>2, ReturnFacts, SocketFacts DEF ConnInv, ConnTypeOK, ReconnectInv, ReaderInv
  <1> QED BY <1>1, <1>2, <1>3 DEF KeepsAttention

LEMMA HandshakeFailsStep ==
    ASSUME ConnInv, NEW c \in Callers, HandshakeFails(c)
    PROVE  ConnInv' /\ KeepsAttention
  BY ReturnFacts, SocketFacts
     DEF HandshakeFails, ConnInv, ConnTypeOK, ReconnectInv, ReaderInv, KeepsAttention, Attended

LEMMA WithoutFacts ==
    ASSUME ConnInv, NEW s \in Sockets
    PROVE  /\ Without(s) \in [Sockets -> {"none", "reading", "alerting"}]
           /\ LatestWithout(s) \in 0..MaxSockets
           /\ \A other \in Sockets : other # s => Without(s)[other] = producer[other]
  BY SocketFacts DEF Without, LatestWithout, ConnInv, ConnTypeOK

LEMMA ProducerFailsStep ==
    ASSUME ConnInv, NEW s \in Sockets, ProducerFails(s)
    PROVE  ConnInv' /\ KeepsAttention
  <1>1. CASE closed
    BY <1>1, WithoutFacts
       DEF ProducerFails, ConnInv, ConnTypeOK, ReconnectInv, ReaderInv, KeepsAttention
  <1>2. CASE ~ closed
    <2>1. producer' = [producer EXCEPT ![s] = "alerting"]
      BY <1>2 DEF ProducerFails
    <2>2. producer' \in [Sockets -> {"none", "reading", "alerting"}] /\ producer'[s] # "none"
      BY <2>1 DEF ConnInv, ConnTypeOK
    <2> QED BY <1>2, <2>2
            DEF ProducerFails, ConnInv, ConnTypeOK, ReconnectInv, ReaderInv, KeepsAttention, Attended
  <1> QED BY <1>1, <1>2

\* A producer that ends leaves a reconnect task behind; it is not the one that
\* reads an authenticated socket.
LEMMA ProducerEndsStep ==
    ASSUME ConnInv, NEW s \in Sockets, ProducerEnds(s), sock # s \/ producer[s] = "alerting"
    PROVE  ConnInv' /\ KeepsAttention
  <1>1. /\ producer' = Without(s) /\ latest' = LatestWithout(s) /\ reconnect' = Restarted
        /\ UNCHANGED <<ws, sock, open, holder, call, closed>>
    BY DEF ProducerEnds
  <1>2. ConnTypeOK' /\ ReconnectInv'
    BY <1>1, WithoutFacts DEF ConnInv, ConnTypeOK, ReconnectInv, Restarted
  <1>3. ReaderInv'
    <2>1. sock \in 0..MaxSockets
      BY DEF ConnInv, ConnTypeOK
    <2> QED BY <1>1, <2>1, WithoutFacts, SocketFacts DEF ConnInv, ReaderInv, Restarted
  <1>4. KeepsAttention
    BY <1>1 DEF Restarted, KeepsAttention, Attended
  <1> QED BY <1>2, <1>3, <1>4 DEF ConnInv

LEMMA CancelFacts ==
    ASSUME ConnInv, CancelLatest
    PROVE  producer' \in [Sockets -> {"none", "reading", "alerting"}] /\ latest' \in 0..MaxSockets
  BY WithoutFacts, SocketFacts DEF CancelLatest, ConnInv, ConnTypeOK

LEMMA ReconnectStep ==
    ASSUME ConnInv, Reconnect
    PROVE  ConnInv' /\ KeepsAttention
  <1>1. CASE ReconnectStarts
    BY <1>1 DEF ReconnectStarts, ConnInv, ConnTypeOK, ReconnectInv, ReaderInv, KeepsAttention, Attended
  <1>2. CASE ReconnectWakes
    <2>1. ~ closed /\ reconnect' = "closing" /\ CancelLatest /\ open' \subseteq open
          /\ UNCHANGED <<ws, sock, holder, call, closed>> /\ reconnect = "sleeping"
      BY <1>2 DEF ReconnectWakes, ConnInv, ReconnectInv
    <2> QED BY <2>1, CancelFacts
            DEF ConnInv, ConnTypeOK, ReconnectInv, ReaderInv, KeepsAttention, Attended
  <1>3. CASE OldSocketClosed
    BY <1>3, SocketFacts
       DEF OldSocketClosed, ConnInv, ConnTypeOK, ReconnectInv, ReaderInv, KeepsAttention, Attended
  <1> QED BY <1>1, <1>2, <1>3 DEF Reconnect

LEMMA ConnectionStep ==
    ASSUME ConnInv, Connection
    PROVE  ConnInv' /\ KeepsAttention
  <1>1. ASSUME NEW c \in Callers, Dial(c) PROVE ConnInv' /\ KeepsAttention
    BY <1>1, AlreadyConnectedStep, AcquireStep, SocketOpensStep, OpenFailsStep,
       AuthenticatedStep, HandshakeFailsStep DEF Dial
  <1>2. ASSUME NEW s \in Sockets, SocketDies(s) \/ ProducerTurns(s) PROVE ConnInv' /\ KeepsAttention
    BY <1>2, ProducerFailsStep, ProducerEndsStep DEF SocketDies, ProducerTurns
  <1> QED BY <1>1, <1>2, ReconnectStep DEF Connection

-----------------------------------------------------------------------------
(* The feed manager, the gate and the relay                                *)

\* Steps that leave the connection alone keep its invariant; those that take
\* the feed live are taken by an attempt that has connected.
LEMMA FeedMoves ==
    ASSUME FeedInv, FeedTypes', GateTypes', UNCHANGED connVars, LivePricesAreReal',
           stage' = "running" => stage = "running",
           feed' = "live" => feed = "live" \/ \E t \in Attempts : pc[t] = "pause",
           \A t \in Attempts : pc'[t] = "pause" => pc[t] = "pause" \/ call[t] = "done"
    PROVE  FeedInv'
  <1>1. ConnInv'
    BY DEF connVars, FeedInv, ConnInv, ConnTypeOK, ReaderInv, ReconnectInv
  <1>2. AttendedInv'
    BY DEF connVars, FeedInv, FeedTypes, AttendedInv, Attended
  <1> QED BY <1>1, <1>2 DEF FeedInv

LEMMA TransitionFacts ==
    ASSUME FeedTypes, LivePricesAreReal
    PROVE  /\ TransitionToFallback =>
                 /\ feed' = "fallback" /\ LivePricesAreReal'
                 /\ synthetic' \in BOOLEAN /\ ticker' \in BOOLEAN /\ silent' \in BOOLEAN
           /\ TransitionToLive =>
                 /\ feed' = "live" /\ LivePricesAreReal'
                 /\ synthetic' \in BOOLEAN /\ ticker' \in BOOLEAN /\ silent' \in BOOLEAN
           /\ \A t \in Attempts : GiveUp(t) =>
                 /\ feed' \in {feed, "fallback"} /\ LivePricesAreReal'
                 /\ synthetic' \in BOOLEAN /\ ticker' \in BOOLEAN /\ silent' \in BOOLEAN
  BY DEF TransitionToFallback, TransitionToLive, GiveUp, feedVars, FeedTypes, LivePricesAreReal

LEMMA PlaceFacts ==
    ASSUME FeedTypes, NEW t \in Attempts,
           NEW place \in {"none", "asleep", "health", "stream", "connect", "refused", "pause"},
           Goto(t, place)
    PROVE  /\ pc' \in [Attempts -> {"none", "asleep", "health", "stream", "connect", "refused", "pause"}]
           /\ pc'[t] = place /\ \A u \in Attempts \ {t} : pc'[u] = pc[u]
           /\ Rest(t) \in {"none", "asleep"}
  BY DEF FeedTypes, Goto, Rest

\* An attempt, where it does not touch the connection.
LEMMA AttemptStep ==
    ASSUME FeedInv, NEW t \in Attempts, HealthKnown(t) \/ ServerAnswers(t) \/ Refused(t) \/ DeclareLive(t)
    PROVE  FeedInv'
  <1>1. FeedTypes /\ GateTypes /\ LivePricesAreReal /\ Rest(t) \in {"none", "asleep"}
    BY DEF FeedInv, Rest
  <1>2. CASE HealthKnown(t)
    <2>1. CASE relay = "up"
      <3>1. Goto(t, "stream") /\ UNCHANGED <<connVars, feedVars, stage, said, due, sm, syncing, inbox, envVars>>
        BY <1>2, <2>1 DEF HealthKnown
      <3> QED BY <1>1, <3>1, PlaceFacts, FeedMoves
              DEF FeedTypes, GateTypes, feedVars, due, envVars, LivePricesAreReal
    <2>2. CASE relay # "up"
      <3>1. GiveUp(t) /\ UNCHANGED <<connVars, stage, said, due, sm, syncing, inbox, envVars>>
        BY <1>2, <2>2 DEF HealthKnown
      <3>2. Goto(t, Rest(t))
        BY <3>1 DEF GiveUp
      <3> QED BY <1>1, <3>1, <3>2, PlaceFacts, TransitionFacts, FeedMoves
              DEF FeedTypes, GateTypes, due, envVars
    <2> QED BY <2>1, <2>2
  <1>3. CASE ServerAnswers(t)
    <2>1. Answer \in {"up", "down", "error"}
      BY <1>1 DEF Answer, GateTypes
    <2>2. said' \in [Attempts -> {"nothing", "up", "down", "error"}]
      BY <1>1, <1>3, <2>1 DEF ServerAnswers, FeedTypes
    <2> QED BY <1>1, <1>3, <2>2, FeedMoves
            DEF ServerAnswers, FeedTypes, GateTypes, feedVars, due, envVars, LivePricesAreReal
  <1>4. CASE Refused(t)
    <2>1. GiveUp(t) /\ sm' = "stale" /\ UNCHANGED <<connVars, stage, said, due, syncing, inbox, envVars>>
      BY <1>4 DEF Refused
    <2>2. Goto(t, Rest(t))
      BY <2>1 DEF GiveUp
    <2> QED BY <1>1, <2>1, <2>2, PlaceFacts, TransitionFacts, FeedMoves
            DEF FeedTypes, GateTypes, due, envVars
  <1>5. CASE DeclareLive(t)
    <2>1. /\ TransitionToLive /\ Goto(t, Rest(t)) /\ pc[t] = "pause"
          /\ UNCHANGED <<connVars, stage, said, due, sm, syncing, inbox, envVars>>
      BY <1>5 DEF DeclareLive
    <2>2. feed' = "live" /\ LivePricesAreReal' /\ FeedTypes' /\ GateTypes'
      BY <1>1, <2>1, PlaceFacts, TransitionFacts DEF FeedTypes, GateTypes, due, envVars
    <2> QED BY <1>1, <2>1, <2>2, PlaceFacts, FeedMoves
  <1> QED BY <1>2, <1>3, <1>4, <1>5

\* An attempt goes to connect() and comes back from it.
LEMMA CallStep ==
    ASSUME FeedInv, NEW t \in Attempts, CheckInitialHealth(t) \/ Connected(t)
    PROVE  FeedInv'
  <1>1. PICK place \in {"connect", "pause", "refused"} :
           /\ Goto(t, place)
           /\ place = "pause" => call[t] = "done"
    BY SocketFacts DEF CheckInitialHealth, Connected, FeedInv, ConnInv, ConnTypeOK
  <1>2. PICK outcome \in {"waiting", "idle"} : call' = [call EXCEPT ![t] = outcome]
    BY DEF CheckInitialHealth, Connected
  <1>3. /\ UNCHANGED <<ws, sock, open, holder, producer, latest, reconnect, closed>>
        /\ UNCHANGED <<feedVars, stage, due, syncing, inbox, envVars>>
    BY DEF CheckInitialHealth, Connected
  <1>4. /\ FeedTypes' /\ GateTypes' /\ LivePricesAreReal'
        /\ pc'[t] = place /\ \A u \in Attempts \ {t} : pc'[u] = pc[u]
    <2>1. /\ said' \in [Attempts -> {"nothing", "up", "down", "error"}]
          /\ sm' \in {"initializing", "monitoring", "syncing", "stale"}
      BY DEF CheckInitialHealth, Connected, FeedInv, FeedTypes, GateTypes
    <2> QED BY <1>1, <1>3, <2>1, PlaceFacts
            DEF FeedInv, FeedTypes, GateTypes, LivePricesAreReal, feedVars, due, envVars
  <1>5. /\ call' \in [Callers -> {"idle", "waiting", "opening", "handshake", "done", "failed"}]
        /\ call'[t] = outcome /\ \A c \in Callers \ {t} : call'[c] = call[c]
    BY <1>2, SocketFacts DEF FeedInv, ConnInv, ConnTypeOK
  <1>6. ConnInv'
    BY <1>3, <1>5, SocketFacts DEF FeedInv, ConnInv, ConnTypeOK, ReaderInv, ReconnectInv
  <1>7. AttendedInv'
    BY <1>1, <1>3, <1>4, <1>5, SocketFacts DEF FeedInv, AttendedInv, Attended, feedVars
  <1> QED BY <1>4, <1>6, <1>7 DEF FeedInv

LEMMA ConnectionMoves ==
    ASSUME FeedInv, ConnInv', KeepsAttention, GateTypes', UNCHANGED <<feedVars, stage, pc, said>>
    PROVE  FeedInv'
  BY DEF FeedInv, FeedTypes, AttendedInv, KeepsAttention, LivePricesAreReal, feedVars

LEMMA SocketStep ==
    ASSUME FeedInv, Connection \/ \E s \in Sockets : ProducerAlerts(s)
    PROVE  FeedInv'
  <1>1. CASE Connection
    BY <1>1, ConnectionStep, ConnectionMoves
       DEF Connection, LifecycleSame, FeedInv, GateTypes, due, envVars
  <1>2. ASSUME NEW s \in Sockets, ProducerAlerts(s) PROVE FeedInv'
    <2>1. ConnInv' /\ KeepsAttention
      BY <1>2, ProducerEndsStep DEF ProducerAlerts, FeedInv
    <2>2. GateTypes'
      BY <1>2 DEF ProducerAlerts, Disconnected, FeedInv, GateTypes, envVars
    <2> QED BY <1>2, <2>1, <2>2, ConnectionMoves DEF ProducerAlerts
  <1> QED BY <1>1, <1>2

LEMMA ConsumerStep ==
    ASSUME FeedInv, Events \/ BarArrives
    PROVE  FeedInv'
  <1>1. CASE Events
    <2>1. inbox' \in Seq({"connected", "disconnected"}) /\ Len(inbox') <= MaxEvents
      BY <1>1, FeedAssumption
         DEF Events, HearDisconnected, HearConnected, HearConnectedNoGap, Synced, Received, FeedInv, GateTypes
    <2>2. GateTypes'
      BY <1>1, <2>1
         DEF Events, HearDisconnected, HearConnected, HearConnectedNoGap, Synced, Disconnected, Resume,
             FeedInv, GateTypes, envVars, due
    <2>3. UNCHANGED <<connVars, feedVars, stage, pc, said>>
      BY <1>1 DEF Events, HearDisconnected, HearConnected, HearConnectedNoGap, Synced
    <2> QED BY <2>2, <2>3, FeedMoves DEF FeedInv, FeedTypes, LivePricesAreReal, feedVars
  <1>2. CASE BarArrives
    BY <1>2, FeedMoves, ZenonT(60)
       DEF BarArrives, FeedInv, FeedTypes, GateTypes, LivePricesAreReal, due, envVars
  <1> QED BY <1>1, <1>2

LEMMA ManagerStep ==
    ASSUME FeedInv, RecoveryWakes \/ ScheduledFallback \/ ScheduledProbe \/ Watchdog \/ SyntheticTick
    PROVE  FeedInv'
  <1>1. FeedTypes /\ GateTypes /\ LivePricesAreReal /\ "recovery" \in Attempts /\ "probe" \in Attempts
    BY DEF FeedInv, Attempts
  <1>2. CASE RecoveryWakes
    BY <1>1, <1>2, PlaceFacts, FeedMoves
       DEF RecoveryWakes, FeedTypes, GateTypes, feedVars, due, envVars, LivePricesAreReal
  <1>3. CASE ScheduledFallback
    BY <1>1, <1>3, TransitionFacts, FeedMoves DEF ScheduledFallback, FeedTypes, GateTypes, envVars
  <1>4. CASE ScheduledProbe
    BY <1>1, <1>4, PlaceFacts, FeedMoves, ZenonT(60)
       DEF ScheduledProbe, FeedTypes, GateTypes, feedVars, envVars, LivePricesAreReal
  <1>5. CASE Watchdog
    BY <1>1, <1>5, TransitionFacts, FeedMoves DEF Watchdog, FeedTypes, GateTypes, due, envVars
  <1>6. CASE SyntheticTick
    BY <1>1, <1>6, FeedMoves DEF SyntheticTick, FeedTypes, GateTypes, due, envVars, LivePricesAreReal
  <1> QED BY <1>2, <1>3, <1>4, <1>5, <1>6

LEMMA StopStep ==
    ASSUME FeedInv, Stop \/ Stopped
    PROVE  FeedInv'
  <1>1. stage' # "running" /\ UNCHANGED <<feed, synthetic, silent, due, sm, syncing, inbox, envVars>>
    BY DEF Stop, Stopped, feedVars
  <1>2. FeedTypes' /\ GateTypes' /\ LivePricesAreReal' /\ AttendedInv'
    BY <1>1, ZenonT(60) DEF Stop, Stopped, Goto, feedVars, due, envVars,
                FeedInv, FeedTypes, GateTypes, LivePricesAreReal, AttendedInv
  <1>3. ConnInv'
    <2>1. CASE Stop
      <3>1. BeginDisconnect({"recovery"})
        BY <2>1 DEF Stop
      <3>2. /\ producer' \in [Sockets -> {"none", "reading", "alerting"}]
            /\ latest' \in 0..MaxSockets
        BY <3>1, CancelFacts DEF BeginDisconnect, FeedInv
      <3> QED BY <3>1, <3>2, SocketFacts
              DEF BeginDisconnect, FeedInv, ConnInv, ConnTypeOK, ReaderInv, ReconnectInv
    <2>2. CASE Stopped
      BY <2>2, SocketFacts DEF Stopped, EndDisconnect, FeedInv, ConnInv, ConnTypeOK, ReaderInv, ReconnectInv
    <2> QED BY <2>1, <2>2
  <1> QED BY <1>2, <1>3 DEF FeedInv

LEMMA EnvironmentStep ==
    ASSUME FeedInv, Environment
    PROVE  FeedInv'
  <1>1. FeedTypes /\ GateTypes /\ LivePricesAreReal
    BY DEF FeedInv
  <1>2. ASSUME NEW event \in {"connected", "disconnected"}, Broadcast(event)
        PROVE  inbox' \in Seq({"connected", "disconnected"}) /\ Len(inbox') <= MaxEvents
    BY <1>1, <1>2, FeedAssumption DEF Broadcast, GateTypes
  <1>3. Fault => faults' \in 0..MaxFaults
    BY <1>1, FeedAssumption DEF Fault, GateTypes
  <1>4. CASE UpstreamLost \/ UpstreamBack
    <2>1. inbox' \in Seq({"connected", "disconnected"}) /\ Len(inbox') <= MaxEvents
      BY <1>2, <1>4 DEF UpstreamLost, UpstreamBack
    <2> QED BY <1>1, <1>3, <1>4, <2>1, FeedMoves
            DEF UpstreamLost, UpstreamBack, Same, connVars, FeedTypes, GateTypes, due, LivePricesAreReal
  <1>5. CASE RelayLost \/ SocketLost
    <2>1. open' \subseteq open /\ FeedTypes' /\ GateTypes' /\ LivePricesAreReal'
      BY <1>1, <1>3, <1>5
         DEF RelayLost, SocketLost, Same, FeedTypes, GateTypes, due, LivePricesAreReal
    <2>2. Same
      BY <1>5 DEF RelayLost, SocketLost
    <2> QED BY <2>1, <2>2
            DEF Same, FeedInv, ConnInv, ConnTypeOK, ReaderInv, ReconnectInv, AttendedInv, Attended
  <1>6. CASE RelayBack \/ Silence
    <2>1. FeedTypes' /\ GateTypes' /\ LivePricesAreReal'
      <3>1. Same /\ UNCHANGED <<due, inbox, faults>>
        BY <1>6 DEF RelayBack, Silence, envVars
      <3>2. silent' \in BOOLEAN /\ relay' \in {"up", "cut", "gone"}
        BY <1>1, <1>6 DEF RelayBack, Silence, envVars, FeedTypes, GateTypes
      <3> QED BY <1>1, <3>1, <3>2 DEF Same, FeedTypes, GateTypes, due, LivePricesAreReal
    <2>2. UNCHANGED <<connVars, feed, stage, pc>>
      BY <1>6 DEF RelayBack, Silence, Same, connVars
    <2> QED BY <2>1, <2>2, FeedMoves
  <1>7. CASE RestFails
    BY <1>1, <1>3, <1>7, TransitionFacts, FeedMoves DEF RestFails, FeedTypes, GateTypes, due
  <1> QED BY <1>4, <1>5, <1>6, <1>7 DEF Environment

LEMMA FeedInit == Init => FeedInv
  <1> SUFFICES ASSUME Init PROVE FeedInv
    OBVIOUS
  <1>1. FeedTypes /\ GateTypes /\ LivePricesAreReal
    <2>1. pc \in [Attempts -> {"none", "asleep", "health", "stream", "connect", "refused", "pause"}]
      BY DEF Init, Attempts
    <2>2. faults \in 0..MaxFaults /\ inbox \in Seq({"connected", "disconnected"}) /\ Len(inbox) <= MaxEvents
      BY FeedAssumption DEF Init
    <2> QED BY <2>1, <2>2 DEF Init, FeedTypes, GateTypes, LivePricesAreReal
  <1>2. ConnInv
    BY SocketFacts DEF Init, ConnInit, ConnInv, ConnTypeOK, ReaderInv, ReconnectInv
  <1>3. AttendedInv
    BY SocketFacts DEF Init, ConnInit, AttendedInv, Attempts
  <1> QED BY <1>1, <1>2, <1>3 DEF FeedInv

LEMMA FeedStep == FeedInv /\ [Next]_vars => FeedInv'
  <1> SUFFICES ASSUME FeedInv, [Next]_vars PROVE FeedInv'
    OBVIOUS
  <1>1. CASE UNCHANGED vars
    BY <1>1, FeedMoves
       DEF vars, feedVars, due, envVars, FeedInv, FeedTypes, GateTypes, LivePricesAreReal
  <1>2. CASE Next
    BY <1>2, AttemptStep, CallStep, SocketStep, ConsumerStep, ManagerStep, StopStep, EnvironmentStep
       DEF Next, Attempt
  <1> QED BY <1>1, <1>2

-----------------------------------------------------------------------------
(* Theorems                                                                *)

\* The connection, the feed and the gate keep their types (ws_client.py,
\* feed_manager.py, state_machine.py).
THEOREM FeedTypeCorrect == Spec => []TypeOK
  <1>1. FeedInv => TypeOK
    BY DEF FeedInv, FeedTypes, GateTypes, ConnInv, TypeOK
  <1> QED BY <1>1, FeedInit, FeedStep, PTL DEF Spec

\* No made-up price survives the return to the live feed (_transition_to_live).
THEOREM LivePricesStayReal == Spec => []LivePricesAreReal
  <1>1. FeedInv => LivePricesAreReal
    BY DEF FeedInv
  <1> QED BY <1>1, FeedInit, FeedStep, PTL DEF Spec

\* No interleaving of drops, the reconnect task and the attempts leaves a
\* connection, or a live feed, that nobody attends to (_producer_loop,
\* _handle_reconnect, connect).
THEOREM ConnectionsAreAttended == Spec => []ConnectionIsAttended
  <1>1. FeedInv => ConnectionIsAttended
    <2> SUFFICES ASSUME FeedInv PROVE ConnectionIsAttended
      OBVIOUS
    <2>1. CASE ws = "authenticated"
      BY <2>1, SocketFacts DEF FeedInv, ConnInv, ConnTypeOK, ReaderInv, Attended, ConnectionIsAttended
    <2>2. CASE stage = "running" /\ feed = "live"
      BY <2>2 DEF FeedInv, AttendedInv, ConnectionIsAttended
    <2> QED BY <2>1, <2>2 DEF ConnectionIsAttended
  <1> QED BY <1>1, FeedInit, FeedStep, PTL DEF Spec
=============================================================================

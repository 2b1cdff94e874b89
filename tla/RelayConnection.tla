-------------------------- MODULE RelayConnection --------------------------
(***************************************************************************)
(* strategy_engine/ingestion/ws_client.py: the connection of               *)
(* AlpacaRelayWSClient.  Any task may call connect(), one at a time behind *)
(* the connection lock; each authenticated socket gets a producer task     *)
(* that reads it; a producer that dies tells its listeners and then starts *)
(* the reconnect task, unless one is still running.                        *)
(*                                                                         *)
(* A step ends where the code awaits.  connect() is followed without a     *)
(* pause by the caller's (re)subscription, whose outcome is part of the    *)
(* step that ends the call.  What the messages carry is the business of    *)
(* RelayStream and FeedLifecycle.                                          *)
(***************************************************************************)
EXTENDS Naturals

CONSTANTS
    Tasks,          \* the tasks besides the reconnect task that call connect()
    MaxSockets      \* bound: sockets and producers that exist at once

Sockets == 1..MaxSockets
Callers == Tasks \union {"reconnect"}

ASSUME ConnectionAssumption == MaxSockets \in Nat \ {0} /\ "reconnect" \notin Tasks

VARIABLES
    ws,             \* _state: "connected" stands for CONNECTED and AUTHENTICATING
    sock,           \* _ws: the socket held, 0 for None
    open,           \* the sockets whose connection is alive
    holder,         \* the caller that holds _lock
    call,           \* what each caller's connect() has come to
    producer,       \* the producer created with each socket
    latest,         \* _producer_task: the socket of the producer created last, 0 once done
    reconnect,      \* _reconnect_task
    closed          \* _closed

connVars == <<ws, sock, open, holder, call, producer, latest, reconnect, closed>>

ConnTypeOK ==
    /\ ws \in {"disconnected", "connecting", "connected", "authenticated",
               "reconnecting", "closing", "closed"}
    /\ sock \in 0..MaxSockets /\ latest \in 0..MaxSockets
    /\ open \subseteq Sockets
    /\ holder \in Callers \union {"none"}
    /\ call \in [Callers -> {"idle", "waiting", "opening", "handshake", "done", "failed"}]
    /\ producer \in [Sockets -> {"none", "reading", "alerting"}]
    /\ reconnect \in {"idle", "starting", "sleeping", "closing", "connecting"}
    /\ closed \in BOOLEAN

ConnInit ==
    /\ ws = "disconnected" /\ sock = 0 /\ open = {} /\ holder = "none"
    /\ call = [c \in Callers |-> "idle"]
    /\ producer = [s \in Sockets |-> "none"]
    /\ latest = 0 /\ reconnect = "idle" /\ closed = FALSE

IsConnected == ws \in {"connected", "authenticated"}
SocketAlive == sock \in open

\* Sockets are numbered anew once nothing in the client refers to them.
Unused == {s \in Sockets : producer[s] = "none" /\ s # sock}
NewSocket == CHOOSE s \in Unused : TRUE

-----------------------------------------------------------------------------
(* connect()                                                               *)

\* The subscription does not suspend, so nothing comes between the end of the
\* reconnect task's call and its own: it ends or goes back to sleep.
Return(c, outcome) ==
    /\ holder' = "none"
    /\ IF c = "reconnect"
       THEN /\ call' = [call EXCEPT ![c] = "idle"]
            /\ reconnect' = IF outcome = "done" \/ closed THEN "idle" ELSE "sleeping"
       ELSE call' = [call EXCEPT ![c] = outcome] /\ UNCHANGED reconnect

\* An authenticated client has nothing to do, though its socket may be dead:
\* then the subscription sent on it may or may not raise.
AlreadyConnected(c) ==
    /\ call[c] = "waiting" /\ holder = "none"
    /\ ws = "authenticated" /\ sock # 0
    /\ \E outcome \in IF SocketAlive THEN {"done"} ELSE {"done", "failed"} : Return(c, outcome)
    /\ UNCHANGED <<ws, sock, open, producer, latest, closed>>

Acquire(c) ==
    /\ call[c] = "waiting" /\ holder = "none"
    /\ ~ (ws = "authenticated" /\ sock # 0)
    /\ holder' = c /\ call' = [call EXCEPT ![c] = "opening"]
    /\ closed' = FALSE /\ ws' = "connecting"
    /\ UNCHANGED <<sock, open, producer, latest, reconnect>>

SocketOpens(c) ==
    /\ call[c] = "opening"
    /\ Unused # {}
    /\ sock' = NewSocket /\ open' = open \union {NewSocket}
    /\ ws' = "connected" /\ call' = [call EXCEPT ![c] = "handshake"]
    /\ UNCHANGED <<holder, producer, latest, reconnect, closed>>

\* The socket cannot be opened; _ws keeps the one it had.
OpenFails(c) ==
    /\ call[c] = "opening"
    /\ ws' = "disconnected" /\ Return(c, "failed")
    /\ UNCHANGED <<sock, open, producer, latest, closed>>

\* The relay accepts the token; the producer starts, the caller subscribes.
Authenticated(c) ==
    /\ call[c] = "handshake" /\ SocketAlive
    /\ ws' = "authenticated" /\ Return(c, "done")
    /\ producer' = [producer EXCEPT ![sock] = "reading"] /\ latest' = sock
    /\ UNCHANGED <<sock, open, closed>>

HandshakeFails(c) ==
    /\ call[c] = "handshake" /\ ~ SocketAlive
    /\ sock' = 0 /\ ws' = "disconnected" /\ Return(c, "failed")
    /\ UNCHANGED <<open, producer, latest, closed>>

Connect(c) ==
    AlreadyConnected(c) \/ Acquire(c) \/ OpenFails(c) \/ Authenticated(c) \/ HandshakeFails(c)

-----------------------------------------------------------------------------
(* The producer                                                            *)

Without(s) == [producer EXCEPT ![s] = "none"]
LatestWithout(s) == IF latest = s THEN 0 ELSE latest

\* recv() raises: the listeners hear of it before the task ends.
ProducerFails(s) ==
    /\ ws' = "disconnected"
    /\ IF closed THEN producer' = Without(s) /\ latest' = LatestWithout(s)
       ELSE producer' = [producer EXCEPT ![s] = "alerting"] /\ latest' = latest
    /\ UNCHANGED <<sock, open, holder, call, reconnect, closed>>

\* The finally clause: a reconnect task, if none is running.
Restarted == IF closed \/ reconnect # "idle" THEN reconnect ELSE "starting"

\* Mutant: a producer that ends leaves the reconnecting to the recovery loop.
ProducerEndsQuietly(s) ==
    /\ producer' = Without(s) /\ latest' = LatestWithout(s)
    /\ reconnect' = reconnect
    /\ UNCHANGED <<ws, sock, open, holder, call, closed>>

ProducerEnds(s) ==
    /\ producer' = Without(s) /\ latest' = LatestWithout(s)
    /\ reconnect' = Restarted
    /\ UNCHANGED <<ws, sock, open, holder, call, closed>>

SocketDies(s) == producer[s] = "reading" /\ s \notin open /\ ProducerFails(s)

\* A producer whose socket was replaced under it: the next message makes it
\* look at _ws again, and a second recv() on one socket raises.
ProducerTurns(s) ==
    /\ producer[s] = "reading" /\ s \in open /\ sock # s
    /\ IF sock = 0 THEN ProducerEnds(s) ELSE ProducerFails(s)

\* _producer_task.cancel(): CancelledError skips what is left of the alert.
CancelLatest ==
    /\ producer' = IF latest = 0 THEN producer ELSE Without(latest)
    /\ latest' = 0

-----------------------------------------------------------------------------
(* _handle_reconnect                                                       *)

ReconnectStarts ==
    /\ reconnect = "starting"
    /\ IF closed THEN reconnect' = "idle" /\ ws' = ws
       ELSE reconnect' = "sleeping" /\ ws' = "reconnecting"
    /\ UNCHANGED <<sock, open, holder, call, producer, latest, closed>>

\* After the backoff it clears away whatever is there, also a socket that
\* another caller has opened meanwhile.
ReconnectWakes ==
    /\ reconnect = "sleeping"
    /\ IF closed
       THEN reconnect' = "idle" /\ UNCHANGED <<producer, latest, open>>
       ELSE reconnect' = "closing" /\ CancelLatest /\ open' = open \ {sock}
    /\ UNCHANGED <<ws, sock, holder, call, closed>>

\* Whatever _ws holds when the old socket has closed is let go; without a
\* reader nobody hears of that socket again.  (A caller whose handshake awaits its
\* last answer on it fails here; the code would call it authenticated without a
\* socket, until the reconnect's own connect() replaces it.)
OldSocketClosed ==
    /\ reconnect = "closing"
    /\ sock' = 0 /\ open' = {s \in open : s # sock \/ producer[s] # "none"}
    /\ reconnect' = "connecting" /\ call' = [call EXCEPT !["reconnect"] = "waiting"]
    /\ UNCHANGED <<ws, holder, producer, latest, closed>>

Reconnect == ReconnectStarts \/ ReconnectWakes \/ OldSocketClosed

-----------------------------------------------------------------------------
(* disconnect(), in its two steps around the closing of the socket.  The   *)
(* tasks in stopped, cancelled by the caller, leave connect() with it.     *)

BeginDisconnect(stopped) ==
    /\ closed' = TRUE /\ ws' = "closing" /\ reconnect' = "idle"
    /\ CancelLatest
    /\ call' = [c \in Callers |-> IF c \in stopped \union {"reconnect"} THEN "idle" ELSE call[c]]
    /\ holder' = IF holder \in stopped \union {"reconnect"} THEN "none" ELSE holder
    /\ open' = open \ {sock}
    /\ sock' = sock

EndDisconnect ==
    /\ ws' = "closed" /\ sock' = 0
    /\ UNCHANGED <<open, holder, call, producer, latest, reconnect, closed>>
=============================================================================

---------------------------- MODULE RelayStream ----------------------------
(***************************************************************************)
(* strategy_engine/ingestion/ws_client.py: what travels over the           *)
(* connection.  The producer pushes messages into a bounded queue and      *)
(* drops the oldest when it is full; consumers take them out, parse them   *)
(* and dispatch them to callbacks and to stream() subscribers; callers     *)
(* connect, subscribe and unsubscribe.  connect() asks nothing of the      *)
(* relay: only the client's own reconnect subscribes anew.                 *)
(*                                                                         *)
(* Messages are numbered in the order the relay sends them.  The callbacks *)
(* for bars do not suspend; those for lifecycle messages may (the gate's   *)
(* lock, a backfill), and their consumer with them.  Each connect() starts *)
(* one more consumer and none is ever cancelled but by disconnect().  What *)
(* the producer itself dispatches, its notice of a lost socket, passes by  *)
(* the queue and is none of the relay's messages: it is left out.          *)
(***************************************************************************)
EXTENDS Naturals, Sequences, FiniteSets

CONSTANTS
    MaxMessages,    \* bound: messages the relay sends
    Lifecycle,      \* which of them are relay lifecycle messages
    QueueSize,      \* queue_size
    BacklogSize,    \* maxsize of a stream() subscriber's queue
    MaxConsumers,   \* bound: connections made, each with its consumer
    Symbols,        \* what may be subscribed on the channel the program uses
    MaxRequests     \* bound: calls of subscribe() and unsubscribe()

ASSUME StreamAssumption ==
    /\ MaxMessages \in Nat /\ Lifecycle \subseteq 1..MaxMessages
    /\ QueueSize \in Nat \ {0} /\ BacklogSize \in Nat \ {0}
    /\ MaxConsumers \in Nat \ {0} /\ MaxRequests \in Nat

Messages == 1..MaxMessages
Consumers == 1..MaxConsumers

VARIABLES
    up,             \* the socket is authenticated and alive
    reconnecting,   \* _reconnect_task is under way
    sent,           \* messages received so far
    queue,          \* _queue
    consumers,      \* consumer tasks started
    holds,          \* the lifecycle message each consumer is suspended on, 0 for none
    latest,         \* the newest bar that reached the callbacks (the price caches)
    backlog,        \* the queue of a stream() subscriber
    yielded,        \* the last event the subscriber got
    desired,        \* _desired_subscriptions
    frames,         \* subscription frames on the socket
    server,         \* what the relay has subscribed this connection to
    missed,         \* history: what was desired when a caller's connect() made this
                    \* connection and no frame has named since
    requests        \* calls so far

streamVars == <<sent, queue, holds, latest, backlog, yielded>>
subscriptionVars == <<desired, frames, server, missed, requests>>
vars == <<up, reconnecting, consumers, streamVars, subscriptionVars>>

Frames == [action : {"subscribe", "unsubscribe"}, symbols : SUBSET Symbols]

TypeOK ==
    /\ up \in BOOLEAN /\ reconnecting \in BOOLEAN
    /\ sent \in 0..MaxMessages /\ latest \in 0..MaxMessages
    /\ queue \in Seq(Messages) /\ Len(queue) <= QueueSize
    /\ consumers \in 0..MaxConsumers /\ holds \in [Consumers -> {0} \union Lifecycle]
    /\ backlog \in Seq(Messages) /\ Len(backlog) <= BacklogSize
    /\ yielded \in 0..MaxMessages
    /\ desired \subseteq Symbols /\ server \subseteq Symbols /\ missed \subseteq Symbols
    /\ frames \in Seq(Frames) /\ requests \in 0..MaxRequests

Init ==
    /\ up = FALSE /\ reconnecting = FALSE /\ sent = 0 /\ queue = <<>> /\ consumers = 0
    /\ holds = [k \in Consumers |-> 0] /\ latest = 0
    /\ backlog = <<>> /\ yielded = 0
    /\ desired = {} /\ frames = <<>> /\ server = {} /\ missed = {} /\ requests = 0

-----------------------------------------------------------------------------
(* The socket                                                              *)

\* connect(), called by the program: a fresh connection and its consumer.
Connect ==
    /\ ~ up /\ consumers < MaxConsumers
    /\ up' = TRUE /\ consumers' = consumers + 1
    /\ frames' = <<>> /\ server' = {} /\ missed' = desired
    /\ UNCHANGED <<reconnecting, streamVars, desired, requests>>

\* The socket is lost; its producer sees to it that a reconnect is under way.
Drop ==
    /\ up /\ up' = FALSE /\ reconnecting' = TRUE
    /\ frames' = <<>> /\ server' = {} /\ missed' = {}
    /\ UNCHANGED <<consumers, streamVars, desired, requests>>

\* Mutant: the new connection is taken for the old one.
NotResubscribed(wire) == wire

\* _resubscribe_all: everything desired, in one frame.
Resubscribed(wire) ==
    IF desired = {} THEN wire
    ELSE Append(wire, [action |-> "subscribe", symbols |-> desired])

\* _handle_reconnect closes the socket there may be by now, one of another caller,
\* makes a connection of its own and subscribes anew at once.
Reconnect ==
    /\ reconnecting /\ reconnecting' = FALSE
    /\ consumers < MaxConsumers /\ consumers' = consumers + 1
    /\ up' = TRUE /\ frames' = Resubscribed(<<>>) /\ server' = {} /\ missed' = {}
    /\ UNCHANGED <<streamVars, desired, requests>>

\* A caller whose connect() held the lock was first: the reconnect uses that one.
ReconnectJoins ==
    /\ reconnecting /\ reconnecting' = FALSE
    /\ up /\ frames' = Resubscribed(frames) /\ missed' = {}
    /\ UNCHANGED <<up, consumers, streamVars, desired, server, requests>>

\* The producer makes room by dropping the oldest message.
Full(q, size) == Len(q) = size

\* Mutant: the message that finds the queue full is dropped.
PushIfRoom(q, size, m) == IF Full(q, size) THEN q ELSE Append(q, m)

Push(q, size, m) == Append(IF Full(q, size) THEN Tail(q) ELSE q, m)

Receive ==
    /\ up /\ sent < MaxMessages
    /\ sent' = sent + 1
    /\ queue' = Push(queue, QueueSize, sent + 1)
    /\ UNCHANGED <<up, reconnecting, consumers, holds, latest, backlog, yielded, subscriptionVars>>

-----------------------------------------------------------------------------
(* The consumers                                                           *)

\* Mutant: a lifecycle callback is started but not awaited.
FreeThroughout(k) == k <= consumers

Free(k) == k <= consumers /\ holds[k] = 0

\* _dispatch_event's second half: subscribers too slow lose their oldest event.
Publish(m) == backlog' = Push(backlog, BacklogSize, m)

DispatchBar(k) ==
    /\ Free(k) /\ queue # <<>> /\ Head(queue) \notin Lifecycle
    /\ queue' = Tail(queue) /\ latest' = Head(queue) /\ Publish(Head(queue))
    /\ UNCHANGED <<up, reconnecting, consumers, sent, holds, yielded, subscriptionVars>>

BeginLifecycle(k) ==
    /\ Free(k) /\ holds[k] = 0 /\ queue # <<>> /\ Head(queue) \in Lifecycle
    /\ queue' = Tail(queue) /\ holds' = [holds EXCEPT ![k] = Head(queue)]
    /\ UNCHANGED <<up, reconnecting, consumers, sent, latest, backlog, yielded, subscriptionVars>>

EndLifecycle(k) ==
    /\ holds[k] # 0
    /\ holds' = [holds EXCEPT ![k] = 0] /\ Publish(holds[k])
    /\ UNCHANGED <<up, reconnecting, consumers, sent, queue, latest, yielded, subscriptionVars>>

\* stream(): the generator hands out the next event.
Yield ==
    /\ backlog # <<>> /\ yielded' = Head(backlog) /\ backlog' = Tail(backlog)
    /\ UNCHANGED <<up, reconnecting, consumers, sent, queue, holds, latest, subscriptionVars>>

-----------------------------------------------------------------------------
(* subscribe(), unsubscribe() and the relay                                *)

Send(frame) == frames' = IF up THEN Append(frames, frame) ELSE frames

Subscribe ==
    /\ requests < MaxRequests /\ requests' = requests + 1
    /\ \E S \in SUBSET Symbols \ {{}} :
          /\ desired' = desired \union S /\ missed' = missed \ S
          /\ Send([action |-> "subscribe", symbols |-> S])
    /\ UNCHANGED <<up, reconnecting, consumers, streamVars, server>>

Unsubscribe ==
    /\ requests < MaxRequests /\ requests' = requests + 1
    /\ \E S \in SUBSET Symbols \ {{}} :
          /\ desired' = desired \ S /\ missed' = missed \ S
          /\ Send([action |-> "unsubscribe", symbols |-> S])
    /\ UNCHANGED <<up, reconnecting, consumers, streamVars, server>>

RelayAnswers ==
    /\ up /\ frames # <<>> /\ frames' = Tail(frames)
    /\ server' = IF Head(frames).action = "subscribe"
                 THEN server \union Head(frames).symbols ELSE server \ Head(frames).symbols
    /\ UNCHANGED <<up, reconnecting, consumers, streamVars, desired, missed, requests>>

Next ==
    \/ Connect \/ Drop \/ Reconnect \/ ReconnectJoins \/ Receive
    \/ \E k \in Consumers : DispatchBar(k) \/ BeginLifecycle(k) \/ EndLifecycle(k)
    \/ Yield \/ Subscribe \/ Unsubscribe \/ RelayAnswers

Spec == Init /\ [][Next]_vars

-----------------------------------------------------------------------------
(* Properties                                                              *)

Ascending(q) == \A i, j \in DOMAIN q : i < j => q[i] < q[j]

\* The messages that no overflow can have dropped yet.
Recent == {m \in 1..sent : sent < m + QueueSize}

\* However fast the relay sends and however many consumers run: messages wait in
\* the order they came, no bar that waits is older than the one in the price
\* caches, so none is replaced by an older one, and once the queue is empty the
\* caches hold the newest of the bars among the last QueueSize messages, whatever
\* was dropped (ws_client.py:404-416).
CachesCatchUp ==
    /\ Ascending(queue)
    /\ \A i \in DOMAIN queue : queue[i] \in Lifecycle \/ latest < queue[i]
    /\ queue = <<>> => \A m \in Recent \ Lifecycle : m <= latest

\* One consumer hands every event to the subscribers in the order the relay
\* sent them, also around a lifecycle message it is suspended on.
OneConsumerKeepsOrder ==
    consumers <= 1 => Ascending(backlog) /\ \A i \in DOMAIN backlog : yielded < backlog[i]

\* Once its frames are read, the relay sends what the program wants: nothing asked
\* for during an outage is forgotten by the reconnect that ends it, nothing asked for
\* on this connection is lost, nothing given up comes back.  What remains out is what
\* a caller's own connect() found on the list, until it is named again or the client
\* reconnects: connect() does not subscribe (ws_client.py:231-267, 677).
RelayHasDesired == up /\ frames = <<>> => server = desired \ missed
=============================================================================

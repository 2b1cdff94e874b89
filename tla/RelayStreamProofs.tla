------------------------- MODULE RelayStreamProofs -------------------------
(***************************************************************************)
(* What RelayStream promises for any queues, any mix of bars and lifecycle *)
(* messages, any number of connections with their consumers, and any       *)
(* subscriptions.                                                          *)
(***************************************************************************)
EXTENDS RelayStream, TLAPS

\* The messages that have left the queue, dispatched or dropped.
Taken == sent - Len(queue)

\* q holds the newest of n messages, without a gap.
Newest(q, n) == Len(q) <= n /\ \A i \in 1..Len(q) : q[i] = n - Len(q) + i

QueueInv == Newest(queue, sent)

\* Messages in ascending order, after low and up to high.
Within(q, low, high) ==
    /\ \A i \in 1..Len(q) : low < q[i] /\ q[i] <= high
    /\ \A i, j \in 1..Len(q) : i < j => q[i] < q[j]

\* No bar that has left the queue is missing in the caches, unless an overflow
\* can have dropped it.
CacheInv ==
    /\ latest <= Taken
    /\ \A m \in 1..Taken : m \in Lifecycle \/ m + QueueSize <= sent \/ m <= latest

\* The newest message that a single consumer can have published.
Published == IF holds[1] = 0 THEN Taken ELSE holds[1] - 1

\* A single consumer publishes in order, and what it is suspended on comes after
\* all it has published.
OrderInv ==
    /\ \A k \in Consumers : consumers < k => holds[k] = 0
    /\ consumers <= 1 =>
        /\ holds[1] <= Taken /\ yielded <= Published
        /\ Within(backlog, yielded, Published)

\* What the relay should have once its frames are read.
Asked == desired \ missed

\* The last frame on the wire that mentions a symbol says whether it is asked for;
\* without one the relay's subscriptions do.
SubscriptionInv ==
    /\ ~ up => frames = <<>>
    /\ up => \A s \in Symbols :
        \/ /\ \A i \in 1..Len(frames) : s \notin frames[i].symbols
           /\ s \in server <=> s \in Asked
        \/ \E i \in 1..Len(frames) :
              /\ s \in frames[i].symbols
              /\ frames[i].action = "subscribe" <=> s \in Asked
              /\ \A j \in 1..Len(frames) : i < j => s \notin frames[j].symbols

StreamTypes ==
    /\ sent \in 0..MaxMessages /\ latest \in 0..MaxMessages /\ yielded \in 0..MaxMessages
    /\ queue \in Seq(Messages) /\ Len(queue) <= QueueSize
    /\ consumers \in 0..MaxConsumers /\ holds \in [Consumers -> {0} \union Lifecycle]
    /\ backlog \in Seq(Messages) /\ Len(backlog) <= BacklogSize

SubscriptionTypes ==
    /\ up \in BOOLEAN /\ reconnecting \in BOOLEAN
    /\ desired \subseteq Symbols /\ server \subseteq Symbols /\ missed \subseteq Symbols
    /\ frames \in Seq(Frames) /\ requests \in 0..MaxRequests

DeliveryInv == StreamTypes /\ QueueInv /\ CacheInv /\ OrderInv
WireInv == SubscriptionTypes /\ SubscriptionInv

-----------------------------------------------------------------------------
(* Queues                                                                  *)

LEMMA TailFacts ==
    ASSUME NEW S, NEW q \in Seq(S), q # <<>>
    PROVE  /\ Head(q) = q[1] /\ Head(q) \in S /\ Len(q) \in Nat \ {0}
           /\ Tail(q) \in Seq(S) /\ Len(Tail(q)) = Len(q) - 1
           /\ \A i \in 1..Len(q) - 1 : Tail(q)[i] = q[i + 1]
  OBVIOUS

\* What Push makes of a queue, with and without room.
LEMMA PushTypes ==
    ASSUME NEW S, NEW q \in Seq(S), NEW size \in Nat \ {0}, Len(q) <= size, NEW m \in S
    PROVE  Push(q, size, m) \in Seq(S) /\ Len(Push(q, size, m)) <= size
  BY DEF Push, Full

LEMMA PushFull ==
    ASSUME NEW q \in Seq(Nat), NEW size \in Nat \ {0}, Len(q) = size, NEW m \in Nat
    PROVE  /\ Len(Push(q, size, m)) = size /\ Push(q, size, m)[size] = m
           /\ \A i \in 1..size - 1 : Push(q, size, m)[i] = q[i + 1]
  BY DEF Push, Full

LEMMA PushRoom ==
    ASSUME NEW q \in Seq(Nat), NEW size \in Nat \ {0}, Len(q) # size, NEW m \in Nat
    PROVE  /\ Len(Push(q, size, m)) = Len(q) + 1 /\ Push(q, size, m)[Len(q) + 1] = m
           /\ \A i \in 1..Len(q) : Push(q, size, m)[i] = q[i]
  BY DEF Push, Full

\* A queue that holds the newest of n messages takes the next one.
LEMMA PushNext ==
    ASSUME NEW q \in Seq(Nat), NEW size \in Nat \ {0}, Len(q) <= size,
           NEW n \in Nat, Newest(q, n)
    PROVE  /\ Newest(Push(q, size, n + 1), n + 1) /\ Len(Push(q, size, n + 1)) \in Nat
           /\ \/ n + 1 - Len(Push(q, size, n + 1)) = n - Len(q)
              \/ /\ n + 1 - Len(Push(q, size, n + 1)) = n - Len(q) + 1
                 /\ Len(Push(q, size, n + 1)) = size
  <1> DEFINE p == Push(q, size, n + 1)
             l == Len(q)
  <1>1. /\ n + 1 \in Nat /\ l \in Nat /\ l <= n /\ l <= size
        /\ \A i \in 1..l : q[i] = n - l + i
    BY DEF Newest
  <1>2. CASE l = size
    <2>1. Len(p) = size /\ p[size] = n + 1 /\ \A i \in 1..size - 1 : p[i] = q[i + 1]
      BY <1>1, <1>2, PushFull
    <2> HIDE DEF l, p
    <2>2. ASSUME NEW i \in 1..size PROVE p[i] = n + 1 - size + i
      <3>1. CASE i = size
        BY <2>1, <3>1
      <3>2. CASE i # size
        <4>1. i + 1 \in 1..l /\ p[i] = q[i + 1]
          BY <1>2, <2>1, <3>2
        <4> QED BY <1>1, <1>2, <4>1
      <3> QED BY <3>1, <3>2
    <2>3. Newest(p, n + 1)
      BY <1>1, <1>2, <2>1, <2>2 DEF Newest
    <2> QED BY <1>1, <1>2, <2>1, <2>3 DEF l, p
  <1>3. CASE l # size
    <2>1. Len(p) = l + 1 /\ p[l + 1] = n + 1 /\ \A i \in 1..l : p[i] = q[i]
      BY <1>1, <1>3, PushRoom
    <2> HIDE DEF l, p
    <2>2. ASSUME NEW i \in 1..l + 1 PROVE p[i] = n + 1 - (l + 1) + i
      <3>1. CASE i = l + 1
        BY <1>1, <2>1, <3>1
      <3>2. CASE i # l + 1
        <4>1. i \in 1..l /\ p[i] = q[i]
          BY <1>1, <2>1, <3>2
        <4> QED BY <1>1, <4>1
      <3> QED BY <3>1, <3>2
    <2>3. Newest(p, n + 1)
      BY <1>1, <2>1, <2>2 DEF Newest
    <2> QED BY <1>1, <1>3, <2>1, <2>3 DEF l, p
  <1> QED BY <1>2, <1>3

\* A queue of ascending messages within bounds stays one when a newer message comes.
LEMMA PushWithin ==
    ASSUME NEW q \in Seq(Nat), NEW size \in Nat \ {0}, Len(q) <= size,
           NEW low \in Nat, NEW high \in Nat, NEW m \in Nat,
           Within(q, low, high), low < m, high < m
    PROVE  Within(Push(q, size, m), low, m)
  <1> DEFINE p == Push(q, size, m)
             l == Len(q)
  <1>1. /\ l \in Nat /\ l <= size
        /\ \A i \in 1..l : q[i] \in Nat /\ low < q[i] /\ q[i] < m
        /\ \A i, j \in 1..l : i < j => q[i] < q[j]
    BY DEF Within
  <1>2. CASE l = size
    <2>1. Len(p) = size /\ p[size] = m /\ \A i \in 1..size - 1 : p[i] = q[i + 1]
      BY <1>2, PushFull
    <2> HIDE DEF l, p
    <2>2. ASSUME NEW i \in 1..size - 1
          PROVE  i + 1 \in 1..l /\ p[i] = q[i + 1] /\ p[i] \in Nat /\ low < p[i] /\ p[i] < m
      <3>1. i + 1 \in 1..l /\ p[i] = q[i + 1]
        BY <1>2, <2>1
      <3> QED BY <1>1, <3>1
    <2>3. ASSUME NEW i \in 1..size, NEW j \in 1..size, i < j PROVE p[i] < p[j]
      <3>1. i \in 1..size - 1 /\ p[i] = q[i + 1] /\ p[i] < m /\ i + 1 \in 1..l
        BY <2>2, <2>3
      <3>2. CASE j = size
        BY <2>1, <3>1, <3>2
      <3>3. CASE j # size
        <4>1. p[j] = q[j + 1] /\ j + 1 \in 1..l /\ i + 1 < j + 1
          BY <2>2, <2>3, <3>3
        <4> QED BY <1>1, <3>1, <4>1
      <3> QED BY <3>2, <3>3
    <2>4. ASSUME NEW i \in 1..size PROVE low < p[i] /\ p[i] <= m
      <3>1. CASE i = size
        BY <2>1, <3>1
      <3>2. CASE i # size
        BY <2>2, <3>2
      <3> QED BY <3>1, <3>2
    <2>5. Within(p, low, m)
      BY <2>1, <2>3, <2>4 DEF Within
    <2> QED BY <2>5 DEF p
  <1>3. CASE l # size
    <2>1. Len(p) = l + 1 /\ p[l + 1] = m /\ \A i \in 1..l : p[i] = q[i]
      BY <1>3, PushRoom
    <2> HIDE DEF l, p
    <2>2. ASSUME NEW i \in 1..l PROVE p[i] = q[i] /\ p[i] \in Nat /\ low < p[i] /\ p[i] < m
      BY <1>1, <2>1
    <2>3. ASSUME NEW i \in 1..l + 1, NEW j \in 1..l + 1, i < j PROVE p[i] < p[j]
      <3>1. i \in 1..l
        BY <1>1, <2>3
      <3>2. CASE j = l + 1
        BY <2>1, <2>2, <3>1, <3>2
      <3>3. CASE j # l + 1
        <4>1. j \in 1..l
          BY <1>1, <3>3
        <4> QED BY <1>1, <2>2, <2>3, <3>1, <4>1
      <3> QED BY <3>2, <3>3
    <2>4. ASSUME NEW i \in 1..l + 1 PROVE low < p[i] /\ p[i] <= m
      <3>1. CASE i = l + 1
        BY <2>1, <3>1
      <3>2. CASE i # l + 1
        <4>1. i \in 1..l
          BY <1>1, <3>2
        <4> QED BY <2>2, <4>1
      <3> QED BY <3>1, <3>2
    <2>5. Within(p, low, m)
      BY <2>1, <2>3, <2>4 DEF Within
    <2> QED BY <2>5 DEF p
  <1> QED BY <1>2, <1>3

LEMMA WithinWider ==
    ASSUME NEW q \in Seq(Nat), NEW low \in Nat, NEW high \in Nat, NEW top \in Nat,
           Within(q, low, high), high <= top
    PROVE  Within(q, low, top)
  BY DEF Within

\* Taking the first message raises the lower bound to it.
LEMMA TailWithin ==
    ASSUME NEW q \in Seq(Nat), q # <<>>, NEW low \in Nat, NEW high \in Nat, Within(q, low, high)
    PROVE  Head(q) <= high /\ Within(Tail(q), Head(q), high)
  <1>1. /\ Head(q) = q[1] /\ Len(q) \in Nat \ {0} /\ Len(Tail(q)) = Len(q) - 1
        /\ \A i \in 1..Len(q) - 1 : Tail(q)[i] = q[i + 1]
    BY TailFacts
  <1> DEFINE t == Tail(q)
             l == Len(q)
  <1>2. /\ q[1] <= high /\ l \in Nat \ {0}
        /\ \A i \in 1..l : q[i] \in Nat /\ q[i] <= high
        /\ \A i, j \in 1..l : i < j => q[i] < q[j]
    BY <1>1 DEF Within
  <1>3. Len(t) = l - 1 /\ \A i \in 1..l - 1 : t[i] = q[i + 1]
    BY <1>1
  <1> HIDE DEF t, l
  <1>4. ASSUME NEW i \in 1..l - 1
        PROVE  i + 1 \in 1..l /\ t[i] = q[i + 1] /\ q[1] < t[i] /\ t[i] <= high
    <2>1. i + 1 \in 1..l /\ 1 \in 1..l /\ 1 < i + 1 /\ t[i] = q[i + 1]
      BY <1>2, <1>3
    <2> QED BY <1>2, <2>1
  <1>5. ASSUME NEW i \in 1..l - 1, NEW j \in 1..l - 1, i < j PROVE t[i] < t[j]
    <2>1. i + 1 < j + 1
      BY <1>2, <1>5
    <2> QED BY <1>2, <1>4, <2>1
  <1>6. Within(t, q[1], high)
    BY <1>3, <1>4, <1>5 DEF Within
  <1> QED BY <1>1, <1>2, <1>6 DEF t

LEMMA MessageFacts ==
    /\ Lifecycle \subseteq Messages /\ Messages \subseteq 0..MaxMessages
    /\ 1 \in Consumers /\ Consumers \subseteq Nat \ {0}
  BY StreamAssumption DEF Messages, Consumers

-----------------------------------------------------------------------------
(* Delivery                                                                *)

LEMMA NatQueues == Seq(Messages) \subseteq Seq(Nat)
  <1>1. Messages \subseteq Nat
    BY StreamAssumption DEF Messages
  <1>2. ASSUME NEW q \in Seq(Messages) PROVE q \in Seq(Nat)
    <2>1. Len(q) \in Nat /\ q \in [1..Len(q) -> Messages]
      OBVIOUS
    <2>2. q \in [1..Len(q) -> Nat]
      BY <1>1, <2>1
    <2> QED BY <2>1, <2>2
  <1> QED BY <1>2

LEMMA DeliveryNats ==
    ASSUME StreamTypes, QueueInv
    PROVE  /\ sent \in Nat /\ latest \in Nat /\ yielded \in Nat /\ holds[1] \in Nat
           /\ Len(queue) \in Nat /\ Taken \in Nat /\ Taken = sent - Len(queue)
           /\ queue \in Seq(Nat) /\ backlog \in Seq(Nat)
           /\ QueueSize \in Nat \ {0} /\ BacklogSize \in Nat \ {0}
  <1>1. /\ sent \in Nat /\ latest \in Nat /\ yielded \in Nat /\ Len(queue) \in Nat
        /\ QueueSize \in Nat \ {0} /\ BacklogSize \in Nat \ {0}
    BY StreamAssumption DEF StreamTypes, Messages
  <1>2. queue \in Seq(Nat) /\ backlog \in Seq(Nat)
    BY NatQueues DEF StreamTypes
  <1>3. holds[1] \in Nat
    <2>1. holds[1] \in {0} \union Lifecycle
      BY MessageFacts DEF StreamTypes
    <2>2. 0 \in Nat /\ Lifecycle \subseteq Nat
      BY MessageFacts, StreamAssumption DEF Messages
    <2> QED BY <2>1, <2>2
  <1>4. Taken \in Nat
    BY <1>1 DEF QueueInv, Newest, Taken
  <1> QED BY <1>1, <1>2, <1>3, <1>4 DEF Taken

LEMMA ReceiveStep ==
    ASSUME DeliveryInv, Receive
    PROVE  DeliveryInv'
  <1> USE DEF DeliveryInv
  <1>1. /\ sent' = sent + 1 /\ sent' \in Messages /\ queue' = Push(queue, QueueSize, sent + 1)
        /\ UNCHANGED <<consumers, holds, latest, backlog, yielded>>
    BY StreamAssumption DEF Receive, StreamTypes, Messages
  <1>2. Newest(queue', sent') /\ Len(queue') \in Nat
    BY <1>1, DeliveryNats, PushNext DEF QueueInv, StreamTypes
  <1>3. /\ Taken' = sent' - Len(queue')
        /\ Taken' = Taken \/ (Taken' = Taken + 1 /\ Taken' + QueueSize = sent')
    <2>1. \/ sent + 1 - Len(Push(queue, QueueSize, sent + 1)) = sent - Len(queue)
          \/ /\ sent + 1 - Len(Push(queue, QueueSize, sent + 1)) = sent - Len(queue) + 1
             /\ Len(Push(queue, QueueSize, sent + 1)) = QueueSize
      BY DeliveryNats, PushNext DEF QueueInv, StreamTypes
    <2> QED BY <1>1, <2>1, DeliveryNats DEF Taken
  <1>4. StreamTypes'
    <2>1. queue' \in Seq(Messages) /\ Len(queue') <= QueueSize
      BY <1>1, PushTypes, DeliveryNats DEF StreamTypes
    <2> QED BY <1>1, <2>1, MessageFacts DEF StreamTypes
  <1>5. CacheInv'
    <2>1. /\ latest <= Taken
          /\ \A m \in 1..Taken : m \in Lifecycle \/ m + QueueSize <= sent \/ m <= latest
      BY DEF CacheInv
    <2>2. ASSUME NEW m \in 1..Taken'
          PROVE  m \in Lifecycle \/ m + QueueSize <= sent' \/ m <= latest
      <3>1. CASE m \in 1..Taken
        BY <1>1, <2>1, <3>1, DeliveryNats
      <3>2. CASE m \notin 1..Taken
        BY <1>3, <3>2, DeliveryNats
      <3> QED BY <3>1, <3>2
    <2> QED BY <1>1, <1>3, <2>1, <2>2, DeliveryNats, SMTT(30) DEF CacheInv
  <1>6. OrderInv'
    <2>1. Taken \in Nat /\ Taken' \in Nat /\ Taken <= Taken'
      <3>1. Taken \in Nat
        BY DeliveryNats
      <3> QED BY <1>3, <3>1
    <2>2. Published \in Nat /\ Published' \in Nat /\ Published <= Published'
      <3>1. holds' = holds /\ holds[1] \in Nat
        BY <1>1, DeliveryNats
      <3> QED BY <2>1, <3>1 DEF Published
    <2>3. ASSUME consumers' <= 1
          PROVE  yielded' <= Published' /\ Within(backlog, yielded, Published')
      <3>1. yielded <= Published /\ Within(backlog, yielded, Published)
        BY <1>1, <2>3 DEF OrderInv
      <3>2. Within(backlog, yielded, Published')
        BY <2>2, <3>1, DeliveryNats, WithinWider
      <3> QED BY <1>1, <2>2, <3>1, <3>2, DeliveryNats
    <2>4. ASSUME consumers' <= 1 PROVE holds'[1] <= Taken'
      BY <1>1, <2>1, <2>4, DeliveryNats DEF OrderInv
    <2> QED BY <1>1, <2>3, <2>4 DEF OrderInv
  <1> QED BY <1>1, <1>2, <1>4, <1>5, <1>6 DEF QueueInv

\* A consumer takes the oldest message.
LEMMA TakeFacts ==
    ASSUME DeliveryInv, queue # <<>>, queue' = Tail(queue), sent' = sent
    PROVE  /\ queue' \in Seq(Messages) /\ Len(queue') <= QueueSize /\ QueueInv'
           /\ Taken' = Taken + 1 /\ Head(queue) = Taken + 1 /\ Head(queue) \in Messages
  <1>1. /\ queue \in Seq(Messages) /\ sent \in Nat /\ Len(queue) <= QueueSize /\ QueueSize \in Nat
        /\ Len(queue) <= sent /\ \A i \in 1..Len(queue) : queue[i] = sent - Len(queue) + i
    BY DeliveryNats DEF DeliveryInv, StreamTypes, QueueInv, Newest
  <1>2. /\ Head(queue) = queue[1] /\ Head(queue) \in Messages
        /\ Len(queue) \in Nat \ {0} /\ queue' \in Seq(Messages)
        /\ Len(queue') = Len(queue) - 1 /\ \A i \in 1..Len(queue) - 1 : queue'[i] = queue[i + 1]
    BY <1>1, TailFacts
  <1>3. \A i \in 1..Len(queue') : queue'[i] = sent' - Len(queue') + i
    BY <1>1, <1>2
  <1> QED BY <1>1, <1>2, <1>3 DEF QueueInv, Newest, Taken

LEMMA DispatchBarStep ==
    ASSUME DeliveryInv, NEW k \in Consumers, DispatchBar(k)
    PROVE  DeliveryInv'
  <1> USE DEF DeliveryInv
  <1>1. /\ queue # <<>> /\ queue' = Tail(queue) /\ latest' = Head(queue)
        /\ backlog' = Push(backlog, BacklogSize, Head(queue))
        /\ k <= consumers /\ holds[k] = 0
        /\ UNCHANGED <<consumers, sent, holds, yielded>>
    BY DEF DispatchBar, Free, Publish
  <1>2. /\ queue' \in Seq(Messages) /\ Len(queue') <= QueueSize /\ QueueInv'
        /\ Taken' = Taken + 1 /\ Head(queue) = Taken + 1 /\ Head(queue) \in Messages
        /\ Taken \in Nat
    BY <1>1, TakeFacts, DeliveryNats
  <1>3. StreamTypes'
    <2>1. backlog' \in Seq(Messages) /\ Len(backlog') <= BacklogSize
      BY <1>1, <1>2, PushTypes, DeliveryNats DEF StreamTypes
    <2> QED BY <1>1, <1>2, <2>1, MessageFacts DEF StreamTypes
  <1>4. CacheInv'
    BY <1>1, <1>2 DEF CacheInv
  <1>5. OrderInv'
    <2>1. ASSUME consumers' <= 1
          PROVE  yielded' <= Published' /\ Within(backlog', yielded', Published')
      <3>1. k = 1
        BY <1>1, <2>1, MessageFacts DEF StreamTypes
      <3>2. holds[1] = 0 /\ Published = Taken /\ Published' = Taken + 1
        BY <1>1, <1>2, <3>1 DEF Published
      <3>3. yielded <= Taken /\ Within(backlog, yielded, Taken)
        BY <1>1, <2>1, <3>2 DEF OrderInv
      <3>4. Within(Push(backlog, BacklogSize, Taken + 1), yielded, Taken + 1)
        <4>1. yielded \in Nat /\ Taken + 1 \in Nat /\ yielded < Taken + 1 /\ Taken < Taken + 1
          BY <1>2, <3>3, DeliveryNats
        <4> QED BY <1>2, <3>3, <4>1, DeliveryNats, PushWithin DEF StreamTypes
      <3> QED BY <1>1, <1>2, <3>2, <3>3, <3>4, DeliveryNats
    <2>2. ASSUME consumers' <= 1 PROVE holds'[1] <= Taken'
      BY <1>1, <1>2, <2>2, DeliveryNats DEF OrderInv
    <2> QED BY <1>1, <2>1, <2>2 DEF OrderInv
  <1> QED BY <1>2, <1>3, <1>4, <1>5

LEMMA BeginLifecycleStep ==
    ASSUME DeliveryInv, NEW k \in Consumers, BeginLifecycle(k)
    PROVE  DeliveryInv'
  <1> USE DEF DeliveryInv
  <1>1. /\ queue # <<>> /\ queue' = Tail(queue) /\ Head(queue) \in Lifecycle
        /\ k <= consumers /\ holds[k] = 0 /\ holds' = [holds EXCEPT ![k] = Head(queue)]
        /\ UNCHANGED <<consumers, sent, latest, backlog, yielded>>
    BY DEF BeginLifecycle, Free
  <1>2. /\ queue' \in Seq(Messages) /\ Len(queue') <= QueueSize /\ QueueInv'
        /\ Taken' = Taken + 1 /\ Head(queue) = Taken + 1 /\ Taken \in Nat
    BY <1>1, TakeFacts, DeliveryNats
  <1>3. StreamTypes'
    BY <1>1, <1>2 DEF StreamTypes
  <1>4. CacheInv'
    BY <1>1, <1>2, DeliveryNats, SMTT(30) DEF CacheInv
  <1>5. OrderInv'
    <2>1. ASSUME consumers' <= 1
          PROVE  yielded' <= Published' /\ Within(backlog', yielded', Published')
      <3>1. k = 1
        BY <1>1, <2>1, MessageFacts DEF StreamTypes
      <3>2. holds'[1] = Taken + 1
        BY <1>1, <1>2, <3>1, MessageFacts DEF StreamTypes
      <3>3. Published = Taken /\ Published' = Taken
        BY <1>1, <1>2, <3>1, <3>2 DEF Published
      <3> QED BY <1>1, <2>1, <3>3 DEF OrderInv
    <2>2. ASSUME NEW c \in Consumers, consumers' < c PROVE holds'[c] = 0
      <3>1. c # k /\ holds[c] = 0
        BY <1>1, <2>2, MessageFacts DEF StreamTypes, OrderInv
      <3> QED BY <1>1, <3>1 DEF StreamTypes
    <2>3. ASSUME consumers' <= 1 PROVE holds'[1] <= Taken'
      <3>1. k = 1
        BY <1>1, <2>3, MessageFacts DEF StreamTypes
      <3> QED BY <1>1, <1>2, <3>1, MessageFacts DEF StreamTypes
    <2> QED BY <2>1, <2>2, <2>3 DEF OrderInv
  <1> QED BY <1>2, <1>3, <1>4, <1>5

LEMMA EndLifecycleStep ==
    ASSUME DeliveryInv, NEW k \in Consumers, EndLifecycle(k)
    PROVE  DeliveryInv'
  <1> USE DEF DeliveryInv
  <1>1. /\ holds[k] # 0 /\ holds' = [holds EXCEPT ![k] = 0]
        /\ backlog' = Push(backlog, BacklogSize, holds[k])
        /\ UNCHANGED <<consumers, sent, queue, latest, yielded>>
    BY DEF EndLifecycle, Publish
  <1>2. Taken' = Taken /\ QueueInv'
    BY <1>1 DEF Taken, QueueInv, Newest
  <1>3. StreamTypes'
    <2>1. holds[k] \in Messages
      BY <1>1, MessageFacts DEF StreamTypes
    <2>2. backlog' \in Seq(Messages) /\ Len(backlog') <= BacklogSize
      BY <1>1, <2>1, PushTypes, DeliveryNats DEF StreamTypes
    <2>3. holds' \in [Consumers -> {0} \union Lifecycle]
      BY <1>1 DEF StreamTypes
    <2> QED BY <1>1, <2>2, <2>3 DEF StreamTypes
  <1>4. CacheInv'
    BY <1>1, <1>2 DEF CacheInv
  <1>5. OrderInv'
    <2>1. k <= consumers
      BY <1>1, MessageFacts DEF StreamTypes, OrderInv
    <2>2. ASSUME consumers' <= 1
          PROVE  yielded' <= Published' /\ Within(backlog', yielded', Published')
      <3>1. k = 1
        BY <1>1, <2>1, <2>2, MessageFacts DEF StreamTypes
      <3> DEFINE h == holds[1]
      <3>2. h \in Nat \ {0} /\ Published = h - 1
        BY <1>1, <3>1, DeliveryNats DEF Published
      <3>3. yielded <= h - 1 /\ Within(backlog, yielded, h - 1) /\ h <= Taken
        BY <1>1, <2>2, <3>2 DEF OrderInv
      <3>4. holds'[1] = 0 /\ Published' = Taken
        BY <1>1, <1>2, <3>1 DEF StreamTypes, Published
      <3> HIDE DEF h
      <3>5. Within(Push(backlog, BacklogSize, h), yielded, h)
        <4>1. /\ yielded \in Nat /\ h \in Nat /\ h - 1 \in Nat /\ yielded < h /\ h - 1 < h
              /\ Len(backlog) <= BacklogSize
          BY <3>2, <3>3, DeliveryNats DEF StreamTypes
        <4> QED BY <3>3, <4>1, DeliveryNats, PushWithin
      <3>6. backlog' = Push(backlog, BacklogSize, h) /\ backlog' \in Seq(Nat)
        BY <1>1, <1>3, <3>1, NatQueues DEF h, StreamTypes
      <3>7. Within(backlog', yielded, Taken)
        BY <3>2, <3>3, <3>5, <3>6, DeliveryNats, WithinWider
      <3> QED BY <1>1, <3>2, <3>3, <3>4, <3>7, DeliveryNats
    <2>3. ASSUME NEW c \in Consumers, consumers' < c PROVE holds'[c] = 0
      BY <1>1, <2>3 DEF StreamTypes, OrderInv
    <2>4. ASSUME consumers' <= 1 PROVE holds'[1] <= Taken'
      <3>1. k = 1
        BY <1>1, <2>1, <2>4, MessageFacts DEF StreamTypes
      <3> QED BY <1>1, <1>2, <3>1, MessageFacts, DeliveryNats DEF StreamTypes
    <2> QED BY <2>2, <2>3, <2>4 DEF OrderInv
  <1> QED BY <1>2, <1>3, <1>4, <1>5

LEMMA YieldStep ==
    ASSUME DeliveryInv, Yield
    PROVE  DeliveryInv'
  <1> USE DEF DeliveryInv
  <1>1. /\ backlog # <<>> /\ yielded' = Head(backlog) /\ backlog' = Tail(backlog)
        /\ UNCHANGED <<consumers, sent, queue, holds, latest>>
    BY DEF Yield
  <1>2. Taken' = Taken /\ QueueInv' /\ Published' = Published
    BY <1>1 DEF Taken, QueueInv, Newest, Published
  <1>3. StreamTypes'
    <2>1. /\ Head(backlog) \in Messages /\ Tail(backlog) \in Seq(Messages)
          /\ Len(Tail(backlog)) <= BacklogSize
      BY <1>1, TailFacts, DeliveryNats DEF StreamTypes
    <2> QED BY <1>1, <2>1, MessageFacts DEF StreamTypes
  <1>4. CacheInv'
    BY <1>1, <1>2 DEF CacheInv
  <1>5. OrderInv'
    <2>1. ASSUME consumers' <= 1
          PROVE  yielded' <= Published' /\ Within(backlog', yielded', Published')
      <3>1. Within(backlog, yielded, Published)
        BY <1>1, <2>1 DEF OrderInv
      <3>2. Published \in Nat
        BY DeliveryNats DEF Published
      <3> QED BY <1>1, <1>2, <3>1, <3>2, DeliveryNats, TailWithin
    <2>2. ASSUME consumers' <= 1 PROVE holds'[1] <= Taken'
      BY <1>1, <1>2, <2>2 DEF OrderInv
    <2> QED BY <1>1, <2>1, <2>2 DEF OrderInv
  <1> QED BY <1>2, <1>3, <1>4, <1>5

LEMMA ConnectDelivery ==
    ASSUME DeliveryInv, Connect \/ Reconnect
    PROVE  DeliveryInv'
  <1> USE DEF DeliveryInv
  <1>1. consumers' = consumers + 1 /\ consumers < MaxConsumers /\ UNCHANGED streamVars
    BY DEF Connect, Reconnect
  <1>2. /\ Taken' = Taken /\ Published' = Published /\ QueueInv'
        /\ UNCHANGED <<sent, queue, holds, latest, backlog, yielded>>
    BY <1>1 DEF Taken, Published, QueueInv, streamVars
  <1>3. StreamTypes'
    BY <1>1, <1>2, StreamAssumption DEF StreamTypes
  <1>4. CacheInv'
    BY <1>2 DEF CacheInv
  <1>5. OrderInv'
    <2>1. consumers \in Nat /\ consumers <= consumers' /\ Consumers \subseteq Nat
      BY <1>1, MessageFacts, StreamAssumption DEF StreamTypes
    <2>2. ASSUME NEW k \in Consumers, consumers' < k PROVE holds'[k] = 0
      BY <1>1, <1>2, <2>1, <2>2 DEF OrderInv
    <2>3. consumers' <= 1 => consumers <= 1
      BY <1>1, <2>1
    <2> QED BY <1>2, <2>2, <2>3 DEF OrderInv
  <1> QED BY <1>2, <1>3, <1>4, <1>5

LEMMA SameDelivery ==
    ASSUME DeliveryInv, UNCHANGED <<consumers, streamVars>>
    PROVE  DeliveryInv'
  <1>1. Taken' = Taken /\ Published' = Published
    BY DEF Taken, Published, streamVars
  <1> QED BY <1>1 DEF DeliveryInv, StreamTypes, QueueInv, CacheInv, OrderInv, streamVars

LEMMA DeliveryStep ==
    ASSUME DeliveryInv, [Next]_vars
    PROVE  DeliveryInv'
  <1>1. CASE Connect \/ Reconnect
    BY <1>1, ConnectDelivery
  <1>2. CASE Receive
    BY <1>2, ReceiveStep
  <1>3. ASSUME NEW k \in Consumers, DispatchBar(k) PROVE DeliveryInv'
    BY <1>3, DispatchBarStep
  <1>4. ASSUME NEW k \in Consumers, BeginLifecycle(k) PROVE DeliveryInv'
    BY <1>4, BeginLifecycleStep
  <1>5. ASSUME NEW k \in Consumers, EndLifecycle(k) PROVE DeliveryInv'
    BY <1>5, EndLifecycleStep
  <1>6. CASE Yield
    BY <1>6, YieldStep
  <1>7. CASE Drop \/ ReconnectJoins \/ Subscribe \/ Unsubscribe \/ RelayAnswers
    BY <1>7, SameDelivery DEF Drop, ReconnectJoins, Subscribe, Unsubscribe, RelayAnswers
  <1>8. CASE UNCHANGED vars
    BY <1>8, SameDelivery DEF vars
  <1> QED BY <1>1, <1>2, <1>3, <1>4, <1>5, <1>6, <1>7, <1>8 DEF Next

LEMMA DeliveryAlways == Spec => []DeliveryInv
  <1>1. Init => DeliveryInv
    <2> SUFFICES ASSUME Init PROVE DeliveryInv
      OBVIOUS
    <2>1. StreamTypes
      <3>1. queue = <<>> /\ backlog = <<>> /\ <<>> \in Seq(Messages) /\ Len(<<>>) = 0
        BY DEF Init
      <3>2. sent = 0 /\ latest = 0 /\ yielded = 0 /\ consumers = 0
        BY DEF Init
      <3>3. 0 \in 0..MaxMessages /\ 0 \in 0..MaxConsumers /\ 0 <= QueueSize /\ 0 <= BacklogSize
        BY StreamAssumption
      <3>4. holds \in [Consumers -> {0} \union Lifecycle]
        BY DEF Init
      <3> QED BY <3>1, <3>2, <3>3, <3>4 DEF StreamTypes
    <2>2. Taken = 0 /\ Published = 0 /\ QueueInv
      <3>1. sent = 0 /\ Len(queue) = 0 /\ holds[1] = 0
        BY MessageFacts DEF Init
      <3>2. Taken = 0 /\ Published = 0
        BY <3>1 DEF Taken, Published
      <3> QED BY <3>1, <3>2 DEF QueueInv, Newest
    <2>3. CacheInv
      BY <2>2 DEF Init, CacheInv
    <2>4. OrderInv
      BY <2>2, MessageFacts DEF Init, OrderInv, Within
    <2> QED BY <2>1, <2>2, <2>3, <2>4 DEF DeliveryInv
  <1>2. DeliveryInv /\ [Next]_vars => DeliveryInv'
    BY DeliveryStep
  <1> QED BY <1>1, <1>2, PTL DEF Spec

\* Whatever the relay sends, however slow the consumers are and however many of
\* them a run of reconnects has left behind: the queue keeps the order of the
\* relay, no bar in it is older than the one in the price caches, and an empty
\* queue means that the caches have the newest of the bars no overflow can have
\* dropped (ws_client.py:404-416).
THEOREM CachesAlwaysCatchUp == Spec => []CachesCatchUp
  <1>1. DeliveryInv => CachesCatchUp
    <2> SUFFICES ASSUME DeliveryInv PROVE CachesCatchUp
      OBVIOUS
    <2>1. /\ queue \in Seq(Nat) /\ Len(queue) \in Nat /\ sent \in Nat /\ latest \in Nat
          /\ Taken \in Nat /\ Taken = sent - Len(queue) /\ QueueSize \in Nat
      BY DeliveryNats DEF DeliveryInv
    <2>2. DOMAIN queue = 1..Len(queue) /\ \A i \in 1..Len(queue) : queue[i] = Taken + i
      BY <2>1 DEF DeliveryInv, QueueInv, Newest
    <2>3. latest <= Taken
      BY DEF DeliveryInv, CacheInv
    <2>4. Ascending(queue)
      BY <2>1, <2>2 DEF Ascending
    <2>5. \A i \in DOMAIN queue : latest < queue[i]
      BY <2>1, <2>2, <2>3
    <2>6. ASSUME queue = <<>>, NEW m \in Recent \ Lifecycle PROVE m <= latest
      <3>1. m \in 1..Taken /\ ~ (m + QueueSize <= sent)
        BY <2>1, <2>6 DEF Recent
      <3> QED BY <2>6, <3>1 DEF DeliveryInv, CacheInv
    <2> QED BY <2>4, <2>5, <2>6 DEF CachesCatchUp
  <1> QED BY <1>1, DeliveryAlways, PTL

\* As long as one connection has been made, a stream() subscriber gets the events
\* in the order the relay sent them, however long a lifecycle callback takes.
THEOREM OneConsumerAlwaysKeepsOrder == Spec => []OneConsumerKeepsOrder
  <1>1. DeliveryInv => OneConsumerKeepsOrder
    <2> SUFFICES ASSUME DeliveryInv, consumers <= 1
                 PROVE  Ascending(backlog) /\ \A i \in DOMAIN backlog : yielded < backlog[i]
      BY DEF OneConsumerKeepsOrder
    <2>1. Within(backlog, yielded, Published)
      BY DEF DeliveryInv, OrderInv
    <2>2. DOMAIN backlog = 1..Len(backlog)
      BY DeliveryNats DEF DeliveryInv
    <2> QED BY <2>1, <2>2 DEF Within, Ascending
  <1> QED BY <1>1, DeliveryAlways, PTL

-----------------------------------------------------------------------------
(* Subscriptions                                                           *)

\* The frames after the first are all that is left to read.
LEMMA AnswerStep ==
    ASSUME WireInv, RelayAnswers
    PROVE  WireInv'
  <1> DEFINE f == Head(frames)
  <1>1. /\ frames # <<>> /\ up /\ frames' = Tail(frames) /\ Asked' = Asked
        /\ UNCHANGED <<up, reconnecting, desired, missed, requests>>
        /\ server' = IF f.action = "subscribe" THEN server \union f.symbols
                     ELSE server \ f.symbols
    BY DEF RelayAnswers, Asked
  <1>2. /\ f = frames[1] /\ f \in Frames /\ Len(frames) \in Nat \ {0}
        /\ frames' \in Seq(Frames) /\ Len(frames') = Len(frames) - 1
        /\ \A i \in 1..Len(frames) - 1 : frames'[i] = frames[i + 1]
    BY <1>1, TailFacts DEF WireInv, SubscriptionTypes
  <1>3. SubscriptionTypes'
    BY <1>1, <1>2 DEF WireInv, SubscriptionTypes, Frames
  <1> DEFINE l == Len(frames)
  <1>4. l \in Nat \ {0} /\ Len(frames') = l - 1
    BY <1>2
  <1> HIDE DEF f, l
  <1>5. ASSUME NEW s \in Symbols
        PROVE  \/ /\ \A i \in 1..Len(frames') : s \notin frames'[i].symbols
                  /\ s \in server' <=> s \in Asked'
               \/ \E i \in 1..Len(frames') :
                     /\ s \in frames'[i].symbols
                     /\ frames'[i].action = "subscribe" <=> s \in Asked'
                     /\ \A j \in 1..Len(frames') : i < j => s \notin frames'[j].symbols
    <2>1. ASSUME NEW i \in 1..l - 1 PROVE i + 1 \in 1..l /\ frames'[i] = frames[i + 1]
      BY <1>2, <1>4 DEF l
    <2>2. CASE /\ \A i \in 1..l : s \notin frames[i].symbols
               /\ s \in server <=> s \in Asked
      <3>1. 1 \in 1..l /\ s \notin f.symbols
        BY <1>2, <1>4, <2>2
      <3>2. s \in server' <=> s \in Asked'
        BY <1>1, <2>2, <3>1
      <3>3. \A i \in 1..Len(frames') : s \notin frames'[i].symbols
        BY <1>4, <2>1, <2>2
      <3> QED BY <3>2, <3>3
    <2>3. ASSUME NEW i \in 1..l, s \in frames[i].symbols,
                 frames[i].action = "subscribe" <=> s \in Asked,
                 \A j \in 1..l : i < j => s \notin frames[j].symbols
          PROVE  \/ /\ \A k \in 1..Len(frames') : s \notin frames'[k].symbols
                    /\ s \in server' <=> s \in Asked'
                 \/ \E k \in 1..Len(frames') :
                       /\ s \in frames'[k].symbols
                       /\ frames'[k].action = "subscribe" <=> s \in Asked'
                       /\ \A j \in 1..Len(frames') : k < j => s \notin frames'[j].symbols
      <3>1. CASE i = 1
        <4>1. s \in server' <=> s \in Asked'
          BY <1>1, <1>2, <2>3, <3>1
        <4>2. ASSUME NEW k \in 1..Len(frames') PROVE s \notin frames'[k].symbols
          <5>1. k + 1 \in 1..l /\ frames'[k] = frames[k + 1] /\ 1 < k + 1
            BY <1>4, <2>1
          <5> QED BY <2>3, <3>1, <5>1
        <4> QED BY <4>1, <4>2
      <3>2. CASE i # 1
        <4>1. i - 1 \in 1..Len(frames') /\ frames'[i - 1] = frames[i]
          <5>1. i - 1 \in 1..l - 1 /\ (i - 1) + 1 = i
            BY <1>4, <3>2
          <5> QED BY <1>4, <2>1, <5>1
        <4>2. ASSUME NEW j \in 1..Len(frames'), i - 1 < j PROVE s \notin frames'[j].symbols
          <5>1. j + 1 \in 1..l /\ frames'[j] = frames[j + 1] /\ i < j + 1
            BY <1>4, <2>1, <4>2
          <5> QED BY <2>3, <5>1
        <4>3. s \in frames'[i - 1].symbols /\ (frames'[i - 1].action = "subscribe" <=> s \in Asked')
          BY <1>1, <2>3, <4>1
        <4> QED BY <4>1, <4>2, <4>3
      <3> QED BY <3>1, <3>2
    <2>4. \/ /\ \A i \in 1..l : s \notin frames[i].symbols
             /\ s \in server <=> s \in Asked
          \/ \E i \in 1..l :
                /\ s \in frames[i].symbols
                /\ frames[i].action = "subscribe" <=> s \in Asked
                /\ \A j \in 1..l : i < j => s \notin frames[j].symbols
      BY <1>1 DEF WireInv, SubscriptionInv, l
    <2> QED BY <2>2, <2>3, <2>4
  <1>6. SubscriptionInv'
    BY <1>1, <1>5 DEF SubscriptionInv
  <1> QED BY <1>3, <1>6 DEF WireInv

\* A new frame settles the symbols in it and leaves the others alone.
LEMMA SendStep ==
    ASSUME WireInv, NEW f \in Frames, Send(f), UNCHANGED <<up, server>>,
           reconnecting' \in BOOLEAN, desired' \subseteq Symbols, missed' \subseteq Symbols,
           requests' \in 0..MaxRequests,
           \A s \in Symbols : IF s \in f.symbols THEN f.action = "subscribe" <=> s \in Asked'
                              ELSE s \in Asked' <=> s \in Asked
    PROVE  WireInv'
  <1>1. /\ frames \in Seq(Frames) /\ Len(frames) \in Nat
        /\ frames' = IF up THEN Append(frames, f) ELSE frames
    BY DEF WireInv, SubscriptionTypes, Send
  <1>2. SubscriptionTypes'
    BY <1>1 DEF WireInv, SubscriptionTypes
  <1>3. CASE ~ up
    BY <1>1, <1>2, <1>3 DEF WireInv, SubscriptionInv
  <1>4. CASE up
    <2> DEFINE l == Len(frames)
    <2>1. /\ l \in Nat /\ Len(frames') = l + 1 /\ frames'[l + 1] = f
          /\ \A i \in 1..l : frames'[i] = frames[i]
      BY <1>1, <1>4
    <2> HIDE DEF l
    <2>2. ASSUME NEW s \in Symbols
          PROVE  \/ /\ \A i \in 1..Len(frames') : s \notin frames'[i].symbols
                    /\ s \in server' <=> s \in Asked'
                 \/ \E i \in 1..Len(frames') :
                       /\ s \in frames'[i].symbols
                       /\ frames'[i].action = "subscribe" <=> s \in Asked'
                       /\ \A j \in 1..Len(frames') : i < j => s \notin frames'[j].symbols
      <3>1. CASE s \in f.symbols
        <4>1. l + 1 \in 1..Len(frames') /\ \A j \in 1..Len(frames') : ~ (l + 1 < j)
          BY <2>1
        <4>2. s \in frames'[l + 1].symbols /\ (frames'[l + 1].action = "subscribe" <=> s \in Asked')
          BY <2>1, <3>1
        <4> QED BY <4>1, <4>2
      <3>2. CASE s \notin f.symbols
        <4>1. s \in Asked' <=> s \in Asked
          BY <3>2
        <4>2. ASSUME NEW j \in 1..Len(frames')
              PROVE  j \in 1..l \/ s \notin frames'[j].symbols
          BY <2>1, <3>2
        <4>3. CASE /\ \A i \in 1..l : s \notin frames[i].symbols
                   /\ s \in server <=> s \in Asked
          <5>1. \A i \in 1..Len(frames') : s \notin frames'[i].symbols
            BY <2>1, <4>2, <4>3
          <5> QED BY <4>1, <4>3, <5>1
        <4>4. ASSUME NEW i \in 1..l, s \in frames[i].symbols,
                     frames[i].action = "subscribe" <=> s \in Asked,
                     \A j \in 1..l : i < j => s \notin frames[j].symbols
              PROVE  \E k \in 1..Len(frames') :
                       /\ s \in frames'[k].symbols
                       /\ frames'[k].action = "subscribe" <=> s \in Asked'
                       /\ \A j \in 1..Len(frames') : k < j => s \notin frames'[j].symbols
          <5>1. /\ i \in 1..Len(frames') /\ s \in frames'[i].symbols
                /\ frames'[i].action = "subscribe" <=> s \in Asked'
            BY <2>1, <4>1, <4>4
          <5>2. \A j \in 1..Len(frames') : i < j => s \notin frames'[j].symbols
            BY <2>1, <4>2, <4>4
          <5> QED BY <5>1, <5>2
        <4>5. \/ /\ \A i \in 1..l : s \notin frames[i].symbols
                 /\ s \in server <=> s \in Asked
              \/ \E i \in 1..l :
                    /\ s \in frames[i].symbols
                    /\ frames[i].action = "subscribe" <=> s \in Asked
                    /\ \A j \in 1..l : i < j => s \notin frames[j].symbols
          BY <1>4 DEF WireInv, SubscriptionInv, l
        <4> QED BY <4>3, <4>4, <4>5
      <3> QED BY <3>1, <3>2
    <2>3. SubscriptionInv'
      BY <1>4, <2>2 DEF SubscriptionInv
    <2> QED BY <1>2, <2>3 DEF WireInv
  <1> QED BY <1>3, <1>4

LEMMA SubscribeStep ==
    ASSUME WireInv, Subscribe
    PROVE  WireInv'
  <1>1. PICK S \in SUBSET Symbols \ {{}} :
          /\ desired' = desired \union S /\ missed' = missed \ S
          /\ Send([action |-> "subscribe", symbols |-> S])
    BY DEF Subscribe
  <1> DEFINE f == [action |-> "subscribe", symbols |-> S]
  <1>2. f \in Frames /\ f.action = "subscribe" /\ f.symbols = S
    BY DEF Frames
  <1>3. /\ UNCHANGED <<up, server>> /\ reconnecting' \in BOOLEAN
        /\ desired' \subseteq Symbols /\ missed' \subseteq Symbols
        /\ requests' \in 0..MaxRequests
    BY <1>1, StreamAssumption DEF Subscribe, WireInv, SubscriptionTypes
  <1>4. Send(f)
    BY <1>1
  <1> HIDE DEF f
  <1>5. \A s \in Symbols : IF s \in f.symbols THEN f.action = "subscribe" <=> s \in Asked'
                           ELSE s \in Asked' <=> s \in Asked
    BY <1>1, <1>2 DEF Asked
  <1> QED BY <1>2, <1>3, <1>4, <1>5, SendStep

LEMMA UnsubscribeStep ==
    ASSUME WireInv, Unsubscribe
    PROVE  WireInv'
  <1>1. PICK S \in SUBSET Symbols \ {{}} :
          /\ desired' = desired \ S /\ missed' = missed \ S
          /\ Send([action |-> "unsubscribe", symbols |-> S])
    BY DEF Unsubscribe
  <1> DEFINE f == [action |-> "unsubscribe", symbols |-> S]
  <1>2. f \in Frames /\ f.action # "subscribe" /\ f.symbols = S
    BY DEF Frames
  <1>3. /\ UNCHANGED <<up, server>> /\ reconnecting' \in BOOLEAN
        /\ desired' \subseteq Symbols /\ missed' \subseteq Symbols
        /\ requests' \in 0..MaxRequests
    BY <1>1, StreamAssumption DEF Unsubscribe, WireInv, SubscriptionTypes
  <1>4. Send(f)
    BY <1>1
  <1> HIDE DEF f
  <1>5. \A s \in Symbols : IF s \in f.symbols THEN f.action = "subscribe" <=> s \in Asked'
                           ELSE s \in Asked' <=> s \in Asked
    BY <1>1, <1>2 DEF Asked
  <1> QED BY <1>2, <1>3, <1>4, <1>5, SendStep

\* A caller's connection: nothing is asked for yet.
LEMMA ConnectWire ==
    ASSUME WireInv, Connect
    PROVE  WireInv'
  <1>1. /\ frames' = <<>> /\ Len(<<>>) = 0 /\ server' = {} /\ Asked' = {}
        /\ missed' = desired /\ UNCHANGED <<reconnecting, desired, requests>> /\ up' = TRUE
    BY DEF Connect, Asked
  <1>2. SubscriptionTypes'
    BY <1>1 DEF WireInv, SubscriptionTypes
  <1>3. SubscriptionInv'
    BY <1>1 DEF SubscriptionInv
  <1> QED BY <1>2, <1>3 DEF WireInv

\* The reconnect's own connection: the one frame on it asks for all that is desired.
LEMMA ReconnectWire ==
    ASSUME WireInv, Reconnect
    PROVE  WireInv'
  <1>1. /\ up' = TRUE /\ frames' = Resubscribed(<<>>) /\ server' = {}
        /\ reconnecting' = FALSE /\ missed' = {} /\ Asked' = desired
        /\ UNCHANGED <<desired, requests>> /\ desired \subseteq Symbols
    BY DEF Reconnect, WireInv, SubscriptionTypes, Asked
  <1>2. CASE desired = {}
    <2>1. /\ frames' = <<>> /\ Len(<<>>) = 0 /\ <<>> \in Seq(Frames)
          /\ Asked' = {} /\ server' = {}
      BY <1>1, <1>2 DEF Resubscribed
    <2>2. SubscriptionTypes'
      BY <1>1, <2>1 DEF WireInv, SubscriptionTypes
    <2>3. SubscriptionInv'
      BY <2>1 DEF SubscriptionInv
    <2> QED BY <2>2, <2>3 DEF WireInv
  <1>3. CASE desired # {}
    <2> DEFINE f == [action |-> "subscribe", symbols |-> desired]
    <2>1. f \in Frames /\ f.action = "subscribe" /\ f.symbols = desired
      BY <1>1 DEF Frames
    <2>2. frames' = <<f>>
      BY <1>1, <1>3 DEF Resubscribed
    <2> HIDE DEF f
    <2>3. Len(frames') = 1 /\ frames'[1] = f /\ frames' \in Seq(Frames)
      BY <2>1, <2>2
    <2>4. SubscriptionTypes'
      BY <1>1, <2>3 DEF WireInv, SubscriptionTypes
    <2>5. ASSUME NEW s \in Symbols
          PROVE  \/ /\ \A i \in 1..Len(frames') : s \notin frames'[i].symbols
                    /\ s \in server' <=> s \in Asked'
                 \/ \E i \in 1..Len(frames') :
                       /\ s \in frames'[i].symbols
                       /\ frames'[i].action = "subscribe" <=> s \in Asked'
                       /\ \A j \in 1..Len(frames') : i < j => s \notin frames'[j].symbols
      <3>1. 1 \in 1..1 /\ \A i \in 1..1 : i = 1
        OBVIOUS
      <3>2. CASE s \in desired
        BY <1>1, <2>1, <2>3, <3>1, <3>2
      <3>3. CASE s \notin desired
        BY <1>1, <2>1, <2>3, <3>1, <3>3
      <3> QED BY <3>2, <3>3
    <2>6. SubscriptionInv'
      BY <1>1, <2>5 DEF SubscriptionInv
    <2> QED BY <2>4, <2>6 DEF WireInv
  <1> QED BY <1>2, <1>3

\* The reconnect on a caller's connection: one frame more asks for all that is desired.
LEMMA JoinWire ==
    ASSUME WireInv, ReconnectJoins
    PROVE  WireInv'
  <1>1. /\ up /\ frames' = Resubscribed(frames) /\ missed' = {} /\ reconnecting' = FALSE
        /\ UNCHANGED <<up, server, desired, requests>> /\ Asked' = desired
        /\ desired \subseteq Symbols /\ requests' \in 0..MaxRequests
    BY DEF ReconnectJoins, WireInv, SubscriptionTypes, Asked
  <1>2. CASE desired = {}
    <2>1. frames' = frames /\ Asked' = Asked
      BY <1>1, <1>2 DEF Resubscribed, Asked
    <2>2. SubscriptionTypes'
      BY <1>1, <2>1 DEF WireInv, SubscriptionTypes
    <2>3. SubscriptionInv'
      BY <1>1, <2>1 DEF WireInv, SubscriptionInv
    <2> QED BY <2>2, <2>3 DEF WireInv
  <1>3. CASE desired # {}
    <2> DEFINE f == [action |-> "subscribe", symbols |-> desired]
    <2>1. f \in Frames /\ f.action = "subscribe" /\ f.symbols = desired
      BY <1>1 DEF Frames
    <2>2. Send(f)
      BY <1>1, <1>3 DEF Resubscribed, Send
    <2> HIDE DEF f
    <2>3. \A s \in Symbols : IF s \in f.symbols THEN f.action = "subscribe" <=> s \in Asked'
                             ELSE s \in Asked' <=> s \in Asked
      BY <1>1, <2>1 DEF Asked
    <2> QED BY <1>1, <2>1, <2>2, <2>3, SendStep
  <1> QED BY <1>2, <1>3

LEMMA DropWire ==
    ASSUME WireInv, Drop
    PROVE  WireInv'
  <1>1. /\ up' = FALSE /\ frames' = <<>> /\ server' = {} /\ UNCHANGED <<desired, requests>>
        /\ reconnecting' = TRUE /\ missed' = {} /\ <<>> \in Seq(Frames)
    BY DEF Drop
  <1>2. SubscriptionTypes'
    BY <1>1 DEF WireInv, SubscriptionTypes
  <1>3. SubscriptionInv'
    BY <1>1 DEF SubscriptionInv
  <1> QED BY <1>2, <1>3 DEF WireInv

LEMMA SameWire ==
    ASSUME WireInv, UNCHANGED <<up, reconnecting, subscriptionVars>>
    PROVE  WireInv'
  BY DEF WireInv, SubscriptionTypes, SubscriptionInv, Asked, subscriptionVars

LEMMA WireStep ==
    ASSUME WireInv, [Next]_vars
    PROVE  WireInv'
  <1>1. CASE Connect
    BY <1>1, ConnectWire
  <1>2. CASE Drop
    BY <1>2, DropWire
  <1>3. CASE Subscribe
    BY <1>3, SubscribeStep
  <1>4. CASE Unsubscribe
    BY <1>4, UnsubscribeStep
  <1>5. CASE RelayAnswers
    BY <1>5, AnswerStep
  <1>6. CASE Receive \/ Yield
    BY <1>6, SameWire DEF Receive, Yield
  <1>7. ASSUME NEW k \in Consumers, DispatchBar(k) \/ BeginLifecycle(k) \/ EndLifecycle(k)
        PROVE  WireInv'
    BY <1>7, SameWire DEF DispatchBar, BeginLifecycle, EndLifecycle
  <1>8. CASE UNCHANGED vars
    BY <1>8, SameWire DEF vars
  <1>9. CASE Reconnect
    BY <1>9, ReconnectWire
  <1>10. CASE ReconnectJoins
    BY <1>10, JoinWire
  <1> QED BY <1>1, <1>2, <1>3, <1>4, <1>5, <1>6, <1>7, <1>8, <1>9, <1>10 DEF Next

LEMMA WireAlways == Spec => []WireInv
  <1>1. Init => WireInv
    <2> SUFFICES ASSUME Init PROVE WireInv
      OBVIOUS
    <2>1. /\ up = FALSE /\ reconnecting = FALSE /\ desired = {} /\ server = {}
          /\ missed = {} /\ frames = <<>> /\ requests = 0
      BY DEF Init
    <2>2. <<>> \in Seq(Frames) /\ 0 \in 0..MaxRequests
      BY StreamAssumption
    <2> QED BY <2>1, <2>2 DEF WireInv, SubscriptionTypes, SubscriptionInv
  <1>2. WireInv /\ [Next]_vars => WireInv'
    BY WireStep
  <1> QED BY <1>1, <1>2, PTL DEF Spec

\* Whatever is subscribed and given up, during an outage too, and however often the
\* connection is lost: when no frame is on its way, the relay sends this connection
\* what the program has on its list, but for what a caller's own connect() found there
\* and nobody has named since (ws_client.py:231-267, 536-645, 677).
THEOREM RelayAlwaysHasDesired == Spec => []RelayHasDesired
  <1>1. WireInv => RelayHasDesired
    <2> SUFFICES ASSUME WireInv, up, frames = <<>> PROVE server = Asked
      BY DEF RelayHasDesired, Asked
    <2>1. Len(frames) = 0 /\ server \subseteq Symbols /\ Asked \subseteq Symbols
      BY DEF WireInv, SubscriptionTypes, Asked
    <2>2. \A s \in Symbols : s \in server <=> s \in Asked
      BY <2>1 DEF WireInv, SubscriptionInv
    <2> QED BY <2>1, <2>2
  <1> QED BY <1>1, WireAlways, PTL

\* Neither queue ever grows beyond its bound, and every variable keeps its type,
\* whatever the sizes of the queues and the number of connections.
THEOREM StreamTypeCorrect == Spec => []TypeOK
  <1>1. DeliveryInv /\ WireInv => TypeOK
    BY DEF DeliveryInv, WireInv, StreamTypes, SubscriptionTypes, TypeOK
  <1> QED BY <1>1, DeliveryAlways, WireAlways, PTL
=============================================================================

--------------------------- MODULE RelayRestProofs ---------------------------
(***************************************************************************)
(* What RelayRest promises for any finite number of callers, any bucket,   *)
(* price, retries, delays and pages: the rate its requests leave at, and   *)
(* the answers it gives.                                                   *)
(***************************************************************************)
EXTENDS RelayRest, FiniteSetTheorems, TLAPS

\* Price tokens for each of a set of callers.
Cost(S) == Price * Cardinality(S)

\* The callers that sleep for a token they have reserved, and those of them
\* that wake no later than d.
Owing == {c \in Callers : pc[c] = "token"}
Sooner(d) == {e \in Owing : wait[e] <= wait[d]}

RateTypes ==
    /\ tokens \in Int /\ ago \in Int /\ credit \in Nat /\ credit <= Ceiling
    /\ pc \in [Callers -> {"idle", "token", "sent", "backoff", "returned"}]
    /\ DOMAIN wait = Callers
    /\ \A c \in Owing : wait[c] \in Nat

\* Every reservation can be served when it is due: the budget that is left then
\* pays for all that wake by then, and the bucket holds no more than what the
\* budget leaves after all reservations.
RateInv ==
    /\ RateTypes
    /\ Level + Cost(Owing) <= credit
    /\ \A d \in Owing : Cost(Sooner(d)) <= credit + wait[d]

-----------------------------------------------------------------------------
(* Costs                                                                   *)

LEMMA CostFacts ==
    ASSUME NEW S \in SUBSET Callers
    PROVE  /\ Cost(S) \in Nat
           /\ \A T \in SUBSET S : Cost(T) \in Nat /\ Cost(T) <= Cost(S)
           /\ \A c \in Callers \ S : Cost(S \cup {c}) = Cost(S) + Price
           /\ \A c \in S : Cost(S \ {c}) = Cost(S) - Price /\ Price <= Cost(S)
  <1>1. IsFiniteSet(S) /\ Cardinality(S) \in Nat /\ Price \in Nat
    BY RestAssumption, FS_Subset, FS_CardinalityType
  <1>2. ASSUME NEW m \in Nat, NEW n \in Nat
        PROVE  /\ Price * m \in Nat
               /\ Price * (m + 1) = Price * m + Price
               /\ m <= n => Price * m <= Price * n
    BY <1>1
  <1>3. Cost(S) \in Nat
    BY <1>1, <1>2 DEF Cost
  <1>4. ASSUME NEW T \in SUBSET S PROVE Cost(T) \in Nat /\ Cost(T) <= Cost(S)
    <2>1. IsFiniteSet(T) /\ Cardinality(T) \in Nat /\ Cardinality(T) <= Cardinality(S)
      BY <1>1, FS_Subset, FS_CardinalityType
    <2> QED BY <1>1, <1>2, <2>1 DEF Cost
  <1>5. ASSUME NEW c \in Callers \ S PROVE Cost(S \cup {c}) = Cost(S) + Price
    <2>1. Cardinality(S \cup {c}) = Cardinality(S) + 1
      BY <1>1, FS_AddElement
    <2> QED BY <1>1, <1>2, <2>1 DEF Cost
  <1>6. ASSUME NEW c \in S PROVE Cost(S \ {c}) = Cost(S) - Price /\ Price <= Cost(S)
    <2>1. IsFiniteSet(S \ {c}) /\ c \notin S \ {c} /\ (S \ {c}) \cup {c} = S
      BY <1>1, FS_RemoveElement
    <2>2. Cardinality(S \ {c}) \in Nat /\ Cardinality(S) = Cardinality(S \ {c}) + 1
      BY <2>1, FS_AddElement, FS_CardinalityType
    <2>3. Cost(S) = Cost(S \ {c}) + Price /\ Cost(S \ {c}) \in Nat
      BY <1>2, <2>2 DEF Cost
    <2> QED BY <1>1, <2>3
  <1> QED BY <1>3, <1>4, <1>5, <1>6

LEMMA CeilingFacts ==
    /\ Ceiling = Capacity + Cost(Callers) /\ Ceiling \in Nat
    /\ \A S \in SUBSET Callers : Cost(S) \in Nat /\ Capacity + Cost(S) <= Ceiling
  <1>1. Capacity \in Nat /\ Callers \in SUBSET Callers
    BY RestAssumption
  <1>2. Cost(Callers) \in Nat /\ \A S \in SUBSET Callers : Cost(S) \in Nat /\ Cost(S) <= Cost(Callers)
    BY <1>1, CostFacts
  <1>3. Ceiling = Capacity + Cost(Callers)
    BY DEF Ceiling, Cost
  <1> QED BY <1>1, <1>2, <1>3

LEMMA LevelFacts ==
    ASSUME tokens \in Int, ago \in Int
    PROVE  Level \in Int /\ Level <= Capacity /\ Capacity \in Nat /\ Price \in Nat
  BY RestAssumption DEF Level, Shortest

-----------------------------------------------------------------------------
(* The steps of the rate                                                   *)

\* A caller that does not sleep for a token goes where none is needed.
LEMMA LeavesRate ==
    ASSUME RateInv, NEW c \in Callers, NEW place \in {"idle", "backoff", "returned"}, NEW ticks,
           Goto(c, place, ticks), UNCHANGED bucketVars
    PROVE  RateInv' /\ credit' = credit /\ pc' = [pc EXCEPT ![c] = place]
  <1>1. credit' = credit /\ Level' = Level /\ Owing' = Owing \ {c} /\ pc' = [pc EXCEPT ![c] = place]
    BY DEF Goto, bucketVars, Level, Owing, RateInv, RateTypes
  <1>2. \A d \in Owing' : d \in Owing /\ wait'[d] = wait[d] /\ Sooner(d)' \subseteq Sooner(d)
    BY <1>1 DEF Goto, Owing, Sooner, RateInv, RateTypes
  <1>3. RateTypes'
    BY <1>1, <1>2 DEF RateInv, RateTypes, Goto, bucketVars, Ceiling
  <1>4. Level' + Cost(Owing') <= credit'
    <2>1. Owing \in SUBSET Callers /\ Owing \ {c} \in SUBSET Owing
      BY DEF Owing
    <2>2. Cost(Owing \ {c}) \in Nat /\ Cost(Owing \ {c}) <= Cost(Owing) /\ Cost(Owing) \in Nat
      BY <2>1, CostFacts
    <2>3. Level \in Int /\ credit \in Nat /\ Level + Cost(Owing) <= credit
      BY LevelFacts DEF RateInv, RateTypes
    <2> QED BY <1>1, <2>2, <2>3
  <1>5. \A d \in Owing' : Cost(Sooner(d)') <= credit' + wait'[d]
    <2> SUFFICES ASSUME NEW d \in Owing' PROVE Cost(Sooner(d)') <= credit' + wait'[d]
      OBVIOUS
    <2>1. d \in Owing /\ wait'[d] = wait[d] /\ wait[d] \in Nat /\ credit \in Nat
      BY <1>2 DEF RateInv, RateTypes
    <2>2. Sooner(d) \in SUBSET Callers /\ Sooner(d)' \in SUBSET Sooner(d)
      BY <1>2 DEF Sooner, Owing
    <2>3. Cost(Sooner(d)') \in Nat /\ Cost(Sooner(d)') <= Cost(Sooner(d)) /\ Cost(Sooner(d)) \in Nat
      BY <2>2, CostFacts
    <2>4. Cost(Sooner(d)) <= credit + wait[d]
      BY <2>1 DEF RateInv
    <2> QED BY <1>1, <2>1, <2>3, <2>4
  <1> QED BY <1>1, <1>3, <1>4, <1>5 DEF RateInv, Cost, Owing, Sooner

\* A sleeper that wakes has its token paid for.
LEMMA SleptRate ==
    ASSUME RateInv, NEW c \in Callers, Slept(c)
    PROVE  /\ RateInv' /\ Price <= credit /\ credit' = credit - Price
           /\ pc' = [pc EXCEPT ![c] = "sent"]
  <1>1. /\ c \in Owing /\ wait[c] = 0 /\ credit' = credit - Price /\ Level' = Level
        /\ pc' = [pc EXCEPT ![c] = "sent"] /\ wait' = [wait EXCEPT ![c] = 0]
    BY DEF Slept, Goto, bucketVars, Level, Owing
  <1>2. Owing' = Owing \ {c}
    BY <1>1 DEF Owing, RateInv, RateTypes
  <1>3. Owing \in SUBSET Callers /\ credit \in Nat /\ Price \in Nat /\ Level \in Int
    BY LevelFacts DEF Owing, RateInv, RateTypes
  <1>4. Price <= credit
    <2>1. c \in Sooner(c) /\ Sooner(c) \in SUBSET Callers
      BY <1>1 DEF Sooner, Owing, RateInv, RateTypes
    <2>2. Price <= Cost(Sooner(c)) /\ Cost(Sooner(c)) \in Nat
      BY <2>1, CostFacts
    <2>3. Cost(Sooner(c)) <= credit + 0
      BY <1>1 DEF RateInv
    <2> QED BY <1>3, <2>2, <2>3
  <1>5. ASSUME NEW d \in Owing'
        PROVE  wait'[d] \in Nat /\ Cost(Sooner(d)') <= credit' + wait'[d]
    <2>1. d \in Owing /\ wait'[d] = wait[d] /\ wait[d] \in Nat
      BY <1>1, <1>2 DEF RateInv, RateTypes
    <2>2. c \in Sooner(d) /\ Sooner(d)' = Sooner(d) \ {c} /\ Sooner(d) \in SUBSET Callers
      BY <1>1, <1>2, <2>1 DEF Sooner, Owing, RateInv, RateTypes
    <2>3. Cost(Sooner(d)') = Cost(Sooner(d)) - Price /\ Cost(Sooner(d)) \in Nat
      BY <2>2, CostFacts
    <2>4. Cost(Sooner(d)) <= credit + wait[d]
      BY <2>1 DEF RateInv
    <2> QED BY <1>1, <1>3, <2>1, <2>3, <2>4
  <1>6. Level' + Cost(Owing') <= credit'
    <2>1. Cost(Owing \ {c}) = Cost(Owing) - Price /\ Cost(Owing) \in Nat
      BY <1>1, <1>3, CostFacts
    <2>2. Level + Cost(Owing) <= credit
      BY DEF RateInv
    <2> QED BY <1>1, <1>2, <1>3, <2>1, <2>2
  <1>7. RateTypes'
    <2>1. credit' \in Nat /\ credit' <= Ceiling
      BY <1>1, <1>3, <1>4, CeilingFacts DEF RateInv, RateTypes
    <2>2. UNCHANGED bucketVars /\ DOMAIN wait' = Callers
      BY <1>1 DEF Slept, RateInv, RateTypes
    <2>3. pc' \in [Callers -> {"idle", "token", "sent", "backoff", "returned"}]
      BY <1>1 DEF RateInv, RateTypes
    <2> QED BY <1>5, <2>1, <2>2, <2>3 DEF RateInv, RateTypes, bucketVars, Ceiling
  <1> QED BY <1>1, <1>4, <1>5, <1>6, <1>7 DEF RateInv, Cost

\* A caller that takes a token sends at once or reserves one: its wake-up is
\* later than what the budget pays for.
LEMMA AcquireRate ==
    ASSUME RateInv, NEW c \in Callers, pc[c] # "token", Acquire(c)
    PROVE  /\ RateInv'
           /\ \/ /\ pc' = [pc EXCEPT ![c] = "sent"]
                 /\ Price <= credit /\ credit' = credit - Price
              \/ pc' = [pc EXCEPT ![c] = "token"] /\ credit' = credit
  <1>1. /\ Owing \in SUBSET Callers /\ c \in Callers \ Owing /\ credit \in Nat
        /\ Price \in Nat /\ Level \in Int /\ Level <= Capacity /\ Capacity \in Nat
    BY LevelFacts DEF Owing, RateInv, RateTypes
  <1>2. Cost(Owing) \in Nat /\ Level + Cost(Owing) <= credit
    BY <1>1, CostFacts DEF RateInv
  <1>3. /\ Level' = Level - Price /\ tokens' \in Int /\ ago' \in Int
    <2>1. tokens' + ago' = Level - Price /\ tokens' \in Int /\ ago' \in Int
      BY <1>1 DEF Acquire
    <2>2. Level - Price \in Int /\ Level - Price <= Capacity
      BY <1>1
    <2>3. ASSUME NEW x \in Int, x <= Capacity PROVE Shortest(Capacity, x) = x
      BY <1>1, <2>3 DEF Shortest
    <2>4. Shortest(Capacity, Level - Price) = Level - Price
      BY <2>2, <2>3
    <2>5. Level' = Shortest(Capacity, tokens' + ago')
      BY DEF Level
    <2> HIDE DEF Level
    <2> QED BY <2>1, <2>4, <2>5
  <1>4. CASE Level >= Price
    <2>1. /\ pc' = [pc EXCEPT ![c] = "sent"] /\ wait' = [wait EXCEPT ![c] = 0]
          /\ credit' = credit - Price
      BY <1>4 DEF Acquire, Goto
    <2>2. Price <= credit /\ credit' \in Nat /\ credit' <= Ceiling
      <3>1. Ceiling \in Nat /\ credit <= Ceiling
        BY CeilingFacts DEF RateInv, RateTypes
      <3> QED BY <1>1, <1>2, <1>4, <2>1, <3>1
    <2>3. Owing' = Owing
      BY <1>1, <2>1 DEF Owing, RateInv, RateTypes
    <2>4. ASSUME NEW d \in Owing
          PROVE  wait'[d] \in Nat /\ Cost(Sooner(d)') <= credit' + wait'[d]
      <3>1. wait'[d] = wait[d] /\ wait[d] \in Nat
        BY <1>1, <2>1 DEF RateInv, RateTypes
      <3>2. Sooner(d)' \in SUBSET Owing
        BY <2>3 DEF Sooner
      <3>3. Cost(Sooner(d)') <= Cost(Owing) /\ Cost(Sooner(d)') \in Nat
        BY <1>1, <3>2, CostFacts
      <3> QED BY <1>1, <1>2, <1>4, <2>1, <3>1, <3>3
    <2>5. Level' + Cost(Owing') <= credit'
      BY <1>1, <1>2, <1>3, <2>1, <2>3
    <2>6. RateTypes'
      BY <1>3, <2>1, <2>2, <2>3, <2>4 DEF RateInv, RateTypes, Ceiling
    <2> QED BY <2>1, <2>2, <2>3, <2>4, <2>5, <2>6 DEF RateInv, Cost
  <1>5. CASE ~ (Level >= Price)
    <2> DEFINE w == Price - Level
    <2>1. /\ pc' = [pc EXCEPT ![c] = "token"] /\ wait' = [wait EXCEPT ![c] = w]
          /\ credit' = credit /\ w \in Nat
      BY <1>1, <1>5 DEF Acquire, Goto
    <2>2. Owing' = Owing \cup {c} /\ wait'[c] = w
      BY <2>1 DEF Owing, RateInv, RateTypes
    <2>3. Cost(Owing') = Cost(Owing) + Price /\ Cost(Owing') <= credit + w
      BY <1>1, <1>2, <2>2, CostFacts
    <2>4. ASSUME NEW d \in Owing'
          PROVE  wait'[d] \in Nat /\ Cost(Sooner(d)') <= credit' + wait'[d]
      <3>1. Owing' \in SUBSET Callers /\ Sooner(d)' \in SUBSET Owing'
        BY <1>1, <2>2 DEF Sooner
      <3>2. Cost(Sooner(d)') <= Cost(Owing') /\ Cost(Sooner(d)') \in Nat /\ Cost(Owing') \in Nat
        BY <3>1, CostFacts
      <3>3. CASE d = c
        BY <1>1, <2>1, <2>2, <2>3, <3>2, <3>3
      <3>4. CASE d # c
        <4>1. d \in Owing /\ wait'[d] = wait[d] /\ wait[d] \in Nat
          BY <2>1, <2>2, <3>4 DEF RateInv, RateTypes
        <4>2. CASE w <= wait[d]
          BY <1>1, <2>1, <2>3, <3>2, <4>1, <4>2
        <4>3. CASE ~ (w <= wait[d])
          <5>1. Sooner(d)' \in SUBSET Sooner(d) /\ Sooner(d) \in SUBSET Callers
            BY <1>1, <2>1, <2>2, <4>1, <4>3 DEF Sooner, RateInv, RateTypes
          <5>2. Cost(Sooner(d)') <= Cost(Sooner(d)) /\ Cost(Sooner(d)) \in Nat
            BY <5>1, CostFacts
          <5>3. Cost(Sooner(d)) <= credit + wait[d]
            BY <4>1 DEF RateInv
          <5> QED BY <1>1, <2>1, <3>2, <4>1, <5>2, <5>3
        <4> QED BY <4>2, <4>3
      <3> QED BY <3>3, <3>4
    <2>5. Level' + Cost(Owing') <= credit'
      BY <1>1, <1>2, <1>3, <2>1, <2>3
    <2>6. RateTypes'
      BY <1>3, <2>1, <2>4 DEF RateInv, RateTypes, Ceiling
    <2> QED BY <2>1, <2>4, <2>5, <2>6 DEF RateInv, Cost
  <1> QED BY <1>4, <1>5

\* Time refills the budget as it lets the sleepers sleep.
LEMMA TickRate ==
    ASSUME RateInv, Tick
    PROVE  RateInv' /\ (credit' = credit \/ (credit < Ceiling /\ credit' = credit + 1))
  <1>1. /\ Owing' = Owing /\ Owing \in SUBSET Callers /\ credit \in Nat /\ Capacity \in Nat
        /\ Level \in Int /\ credit <= Ceiling /\ Ceiling \in Nat
        /\ tokens \in Int /\ ago \in Int
    BY LevelFacts, CeilingFacts DEF Tick, Owing, RateInv, RateTypes
  <1>2. /\ credit' = Shortest(credit + 1, Ceiling) /\ tokens' = tokens /\ pc' = pc
        /\ ago' = Shortest(ago + 1, Capacity)
        /\ wait' = [c \in Callers |-> Longest(wait[c] - 1, 0)]
    BY DEF Tick
  <1>3. credit' = IF credit = Ceiling THEN Ceiling ELSE credit + 1
    BY <1>1, <1>2 DEF Shortest
  <1>4. Level' \in Int /\ Level' <= Level + 1 /\ Level' <= Capacity
    BY <1>1, <1>2 DEF Level, Shortest
  <1>5. Level' + Cost(Owing') <= credit'
    <2>1. Cost(Owing) \in Nat /\ Capacity + Cost(Owing) <= Ceiling
      BY <1>1, CeilingFacts
    <2>2. Level + Cost(Owing) <= credit
      BY DEF RateInv
    <2> QED BY <1>1, <1>3, <1>4, <2>1, <2>2
  <1>6. ASSUME NEW d \in Owing
        PROVE  wait'[d] \in Nat /\ Cost(Sooner(d)') <= credit' + wait'[d]
    <2>1. \A e \in Owing : /\ wait[e] \in Nat
                           /\ wait'[e] = IF wait[e] = 0 THEN 0 ELSE wait[e] - 1
      BY <1>1, <1>2 DEF RateInv, RateTypes, Longest
    <2>2. Sooner(d)' \in SUBSET Callers /\ Sooner(d) \in SUBSET Callers
      BY <1>1 DEF Sooner
    <2>3. Cost(Sooner(d)') \in Nat /\ Capacity + Cost(Sooner(d)') <= Ceiling
      BY <2>2, CeilingFacts
    <2>4. CASE credit = Ceiling
      BY <1>1, <1>3, <2>1, <2>3, <2>4
    <2>5. CASE credit # Ceiling
      <3>1. ASSUME NEW e \in Owing, wait[e] <= wait'[d] + 1, Sooner(d)' \subseteq Sooner(e)
            PROVE  Cost(Sooner(d)') <= credit' + wait'[d]
        <4>1. Sooner(e) \in SUBSET Callers /\ Sooner(d)' \in SUBSET Sooner(e)
          BY <1>1, <3>1 DEF Sooner
        <4>2. Cost(Sooner(d)') <= Cost(Sooner(e)) /\ Cost(Sooner(e)) \in Nat
          BY <4>1, CostFacts
        <4>3. Cost(Sooner(e)) <= credit + wait[e]
          BY DEF RateInv
        <4> QED BY <1>1, <1>3, <2>1, <2>3, <2>5, <3>1, <4>2, <4>3
      <3>2. CASE wait[d] # 0
        <4>1. Sooner(d)' \subseteq Sooner(d)
          BY <1>1, <2>1, <3>2 DEF Sooner
        <4> QED BY <2>1, <3>1, <3>2, <4>1
      <3>3. CASE wait[d] = 0 /\ \E e \in Owing : wait[e] = 1
        <4>1. PICK e \in Owing : wait[e] = 1
          BY <3>3
        <4>2. Sooner(d)' \subseteq Sooner(e)
          BY <1>1, <2>1, <3>3, <4>1 DEF Sooner
        <4> QED BY <2>1, <3>1, <3>3, <4>1, <4>2
      <3>4. CASE wait[d] = 0 /\ ~ \E e \in Owing : wait[e] = 1
        <4>1. Sooner(d)' \subseteq Sooner(d)
          BY <1>1, <2>1, <3>4 DEF Sooner
        <4> QED BY <2>1, <3>1, <3>4, <4>1
      <3> QED BY <3>2, <3>3, <3>4
    <2> QED BY <2>1, <2>4, <2>5
  <1>7. RateTypes'
    <2>1. credit' \in Nat /\ credit' <= Ceiling
      BY <1>1, <1>3
    <2>2. tokens' \in Int /\ ago' \in Int /\ DOMAIN wait' = Callers
      BY <1>1, <1>2 DEF Shortest
    <2> QED BY <1>1, <1>2, <1>6, <2>1, <2>2 DEF RateInv, RateTypes, Ceiling
  <1>8. credit' = credit \/ (credit < Ceiling /\ credit' = credit + 1)
    BY <1>1, <1>3
  <1> QED BY <1>1, <1>5, <1>6, <1>7, <1>8 DEF RateInv, Cost

-----------------------------------------------------------------------------
(* The contract, and the answers                                           *)

LEMMA RateInit == Init => RateInv /\ Contract!Init
  <1> SUFFICES ASSUME Init PROVE RateInv /\ Contract!Init
    OBVIOUS
  <1>1. Owing = {} /\ {c \in Callers : pc[c] = "sent"} = {}
    BY DEF Init, Owing
  <1>2. Level = Capacity
    BY RestAssumption DEF Init, Level, Shortest
  <1>3. {} \in SUBSET Callers /\ Ceiling \in Nat /\ Capacity + Cost({}) <= Ceiling
    BY CeilingFacts
  <1>4. RateTypes
    BY <1>1, <1>3, RestAssumption DEF Init, RateTypes
  <1> QED BY <1>1, <1>2, <1>3, <1>4 DEF Init, RateInv, Contract!Init

\* The requests on their way.
Out == {c \in Callers : pc[c] = "sent"}

LEMMA Outs ==
    ASSUME RateInv, NEW c \in Callers, NEW place, pc' = [pc EXCEPT ![c] = place]
    PROVE  Out' = IF place = "sent" THEN Out \cup {c} ELSE Out \ {c}
  BY DEF Out, RateInv, RateTypes

\* One step of a caller, as the contract sees it.
LEMMA CallerStep ==
    ASSUME RateInv, NEW c \in Callers, Call(c) \/ Works(c) \/ Cancelled(c)
    PROVE  RateInv' /\ (Contract!Next \/ UNCHANGED Contract!vars)
  <1>1. \/ Slept(c)
        \/ pc[c] # "token" /\ Acquire(c)
        \/ \E place \in {"idle", "backoff", "returned"}, ticks \in {wait'[c]} :
              Goto(c, place, ticks) /\ UNCHANGED bucketVars
    <2>1. CASE Slept(c)
      BY <2>1
    <2>2. CASE Call(c) \/ TryAgain(c)
      BY <2>2 DEF Call, TryAgain
    <2>3. ASSUME NEW place \in {"idle", "backoff", "returned"}, NEW ticks, Goto(c, place, ticks)
          PROVE  Goto(c, place, wait'[c])
      BY <2>3 DEF Goto, RateInv, RateTypes
    <2>4. CASE PageArrives(c)
      BY <2>3, <2>4 DEF PageArrives
    <2>5. CASE Refused(c) \/ Exhausted(c) \/ Take(c) \/ Cancelled(c)
      <3>1. Goto(c, "idle", 0) /\ UNCHANGED bucketVars
        BY <2>5 DEF Refused, Exhausted, Take, Cancelled, Raise
      <3> QED BY <2>3, <3>1
    <2>6. CASE BackOff(c)
      BY <2>3, <2>6 DEF BackOff
    <2> QED BY <2>1, <2>2, <2>4, <2>5, <2>6 DEF Works
  <1>2. \/ /\ RateInv' /\ pc' = [pc EXCEPT ![c] = "sent"]
           /\ Price <= credit /\ credit' = credit - Price
        \/ /\ RateInv' /\ credit' = credit
           /\ \E place \in {"idle", "backoff", "returned", "token"} : pc' = [pc EXCEPT ![c] = place]
    <2>1. CASE Slept(c)
      BY <2>1, SleptRate
    <2>2. CASE pc[c] # "token" /\ Acquire(c)
      BY <2>2, AcquireRate
    <2>3. ASSUME NEW place \in {"idle", "backoff", "returned"}, NEW ticks \in {wait'[c]},
                 Goto(c, place, ticks), UNCHANGED bucketVars
          PROVE  RateInv' /\ credit' = credit /\ pc' = [pc EXCEPT ![c] = place]
      BY <2>3, LeavesRate
    <2> QED BY <1>1, <2>1, <2>2, <2>3
  <1>3. CASE /\ pc' = [pc EXCEPT ![c] = "sent"]
             /\ Price <= credit /\ credit' = credit - Price
    <2>1. Out' = Out \cup {c}
      BY <1>3, Outs
    <2>2. Contract!Send(c)
      BY <1>3, <2>1, LevelFacts DEF Contract!Send, Out, RateInv, RateTypes
    <2> QED BY <1>2, <2>2 DEF Contract!Next
  <1>4. CASE /\ RateInv' /\ credit' = credit
             /\ \E place \in {"idle", "backoff", "returned", "token"} : pc' = [pc EXCEPT ![c] = place]
    <2>1. Out' = Out \ {c}
      BY <1>4, Outs
    <2>2. CASE c \in Out
      <3>1. Contract!Return(c)
        BY <1>4, <2>1, <2>2 DEF Contract!Return, Out
      <3> QED BY <1>4, <3>1 DEF Contract!Next
    <2>3. CASE c \notin Out
      <3>1. Out' = Out
        BY <2>1, <2>3
      <3> QED BY <1>4, <3>1 DEF Contract!vars, Out
    <2> QED BY <2>2, <2>3
  <1> QED BY <1>2, <1>3, <1>4

LEMMA RateStep ==
    RateInv /\ [Next]_vars => RateInv' /\ [Contract!Next]_Contract!vars
  <1> SUFFICES ASSUME RateInv, [Next]_vars
               PROVE  RateInv' /\ (Contract!Next \/ UNCHANGED Contract!vars)
    OBVIOUS
  <1>1. CASE UNCHANGED vars
    <2>1. UNCHANGED <<tokens, ago, pc, wait, credit>>
      BY <1>1 DEF vars, bucketVars
    <2>2. UNCHANGED <<Level, Owing>> /\ \A d \in Owing : Sooner(d)' = Sooner(d)
      BY <2>1 DEF Level, Owing, Sooner
    <2> QED BY <2>1, <2>2 DEF RateInv, RateTypes, Ceiling, Cost, Contract!vars
  <1>2. CASE Tick
    <2>1. RateInv' /\ (credit' = credit \/ (credit < Ceiling /\ credit' = credit + 1)) /\ pc' = pc
      BY <1>2, TickRate DEF Tick
    <2> QED BY <2>1 DEF Contract!Next, Contract!Refill, Contract!vars
  <1>3. CASE \E c \in Callers : Call(c) \/ Works(c) \/ Cancelled(c)
    BY <1>3, CallerStep
  <1> QED BY <1>1, <1>2, <1>3 DEF Next

\* The pages 1 to k.
First(k) == [n \in 1..k |-> n]
Wanted(max) == IF max = 0 THEN Pages ELSE Shortest(Pages, max)

\* A query under way has some of the pages it wants and no more, one that has
\* returned has them all.
PagesInv ==
    /\ pc \in [Callers -> {"idle", "token", "sent", "backoff", "returned"}]
    /\ limit \in [Callers -> Limits] /\ got \in [Callers -> Seq(Nat)]
    /\ \A c \in Callers :
        /\ pc[c] \in {"token", "sent", "backoff"} =>
              \E k \in Nat : k < Wanted(limit[c]) /\ got[c] = First(k)
        /\ pc[c] = "returned" => got[c] = First(Wanted(limit[c]))

LEMMA FirstFacts ==
    ASSUME NEW k \in Nat
    PROVE  First(k) \in Seq(Nat) /\ Len(First(k)) = k /\ Append(First(k), k + 1) = First(k + 1)
  BY DEF First

LEMMA NoPages == First(0) = <<>> /\ \A max \in Nat : Wanted(max) \in Nat \ {0}
  BY RestAssumption DEF First, Wanted, Shortest

LEMMA PagesInit == Init => PagesInv
  BY RestAssumption DEF Init, PagesInv

LEMMA PagesStep ==
    ASSUME PagesInv, [Next]_vars
    PROVE  PagesInv'
  <1> DEFINE Places == {"idle", "token", "sent", "backoff", "returned"}
             Fits(c) == /\ pc[c] \in {"token", "sent", "backoff"} =>
                              \E k \in Nat : k < Wanted(limit[c]) /\ got[c] = First(k)
                        /\ pc[c] = "returned" => got[c] = First(Wanted(limit[c]))
  <1>0. \A c \in Callers : limit[c] \in Nat /\ got[c] \in Seq(Nat) /\ Fits(c)
    BY RestAssumption DEF PagesInv
  \* One caller moves, the others keep their query.
  <1>1. ASSUME NEW c \in Callers, NEW place \in Places, NEW max \in Limits, NEW pages \in Seq(Nat),
               pc' = [pc EXCEPT ![c] = place], limit' = [limit EXCEPT ![c] = max],
               got' = [got EXCEPT ![c] = pages],
               place \in {"token", "sent", "backoff"} =>
                  \E k \in Nat : k < Wanted(max) /\ pages = First(k),
               place = "returned" => pages = First(Wanted(max))
        PROVE  PagesInv'
    <2>1. /\ pc' \in [Callers -> Places] /\ limit' \in [Callers -> Limits]
          /\ got' \in [Callers -> Seq(Nat)]
      BY <1>1 DEF PagesInv
    <2>2. ASSUME NEW d \in Callers PROVE Fits(d)'
      <3>1. CASE d = c
        BY <1>1, <3>1 DEF PagesInv, Wanted, First
      <3>2. CASE d # c
        <4>1. pc'[d] = pc[d] /\ limit'[d] = limit[d] /\ got'[d] = got[d] /\ Fits(d)
          BY <1>0, <1>1, <3>2 DEF PagesInv
        <4> QED BY <4>1 DEF Wanted, First
      <3> QED BY <3>1, <3>2
    <2> QED BY <2>1, <2>2 DEF PagesInv
  <1>2. ASSUME NEW c \in Callers, NEW place \in {"token", "sent", "backoff"},
               pc[c] \in {"token", "sent", "backoff"},
               pc' = [pc EXCEPT ![c] = place], UNCHANGED queryVars
        PROVE  PagesInv'
    <2>1. limit' = [limit EXCEPT ![c] = limit[c]] /\ got' = [got EXCEPT ![c] = got[c]]
      BY <1>2 DEF PagesInv, queryVars
    <2> QED BY <1>0, <1>1, <1>2, <2>1 DEF PagesInv
  <1>3. ASSUME NEW c \in Callers, pc' = [pc EXCEPT ![c] = "idle"], UNCHANGED queryVars
        PROVE  PagesInv'
    <2>1. limit' = [limit EXCEPT ![c] = limit[c]] /\ got' = [got EXCEPT ![c] = got[c]]
      BY <1>3 DEF PagesInv, queryVars
    <2> QED BY <1>0, <1>1, <1>3, <2>1 DEF PagesInv
  <1>4. CASE UNCHANGED vars
    BY <1>4 DEF vars, queryVars, PagesInv, Wanted, First
  <1>5. CASE Tick
    BY <1>5 DEF Tick, queryVars, PagesInv, Wanted, First
  <1>6. ASSUME NEW c \in Callers, Acquire(c)
        PROVE  \E place \in {"token", "sent"} : pc' = [pc EXCEPT ![c] = place]
    BY <1>6 DEF Acquire, Goto
  <1>7. ASSUME NEW c \in Callers, Call(c) PROVE PagesInv'
    <2>1. PICK max \in Limits : limit' = [limit EXCEPT ![c] = max]
      BY <1>7 DEF Call
    <2>2. PICK place \in {"token", "sent"} : pc' = [pc EXCEPT ![c] = place]
      BY <1>6, <1>7 DEF Call
    <2>3. got' = [got EXCEPT ![c] = <<>>] /\ <<>> \in Seq(Nat)
      BY <1>7 DEF Call
    <2>4. 0 < Wanted(max) /\ <<>> = First(0)
      BY NoPages, RestAssumption
    <2> QED BY <1>1, <2>1, <2>2, <2>3, <2>4
  <1>8. ASSUME NEW c \in Callers, PageArrives(c) PROVE PagesInv'
    <2>1. PICK k \in Nat : k < Wanted(limit[c]) /\ got[c] = First(k)
      BY <1>0, <1>8 DEF PageArrives
    <2>2. First(k + 1) \in Seq(Nat) /\ NextPage(c) = k + 1 /\ got' = [got EXCEPT ![c] = First(k + 1)]
      <3>1. Len(First(k)) = k /\ Append(First(k), k + 1) = First(k + 1)
        BY FirstFacts
      <3>2. NextPage(c) = k + 1
        BY <2>1, <3>1 DEF NextPage
      <3>3. got' = [got EXCEPT ![c] = Append(got[c], NextPage(c))]
        BY <1>8 DEF PageArrives
      <3>4. k + 1 \in Nat
        OBVIOUS
      <3>5. First(k + 1) \in Seq(Nat)
        BY <3>4, FirstFacts
      <3> QED BY <2>1, <3>1, <3>2, <3>3, <3>5
    <2>3. limit' = [limit EXCEPT ![c] = limit[c]] /\ limit[c] \in Limits
      BY <1>8 DEF PageArrives, PagesInv
    <2>4. LastPage(c) <=> Wanted(limit[c]) = k + 1
      BY <1>0, <2>1, <2>2, RestAssumption DEF LastPage, Wanted, Shortest
    <2>5. CASE LastPage(c)
      <3>1. pc' = [pc EXCEPT ![c] = "returned"]
        BY <1>8, <2>5 DEF PageArrives, Goto
      <3> QED BY <1>1, <2>2, <2>3, <2>4, <2>5, <3>1
    <2>6. CASE ~ LastPage(c)
      <3>1. PICK place \in {"token", "sent"} : pc' = [pc EXCEPT ![c] = place]
        BY <1>6, <1>8, <2>6 DEF PageArrives
      <3>2. k + 1 < Wanted(limit[c]) /\ k + 1 \in Nat
        <4>1. Wanted(limit[c]) \in Nat /\ Wanted(limit[c]) # k + 1
          BY <1>0, <2>4, <2>6, NoPages
        <4> QED BY <2>1, <4>1
      <3> QED BY <1>1, <2>2, <2>3, <3>1, <3>2
    <2> QED BY <2>5, <2>6
  <1>9. ASSUME NEW c \in Callers, Slept(c) \/ BackOff(c) \/ TryAgain(c) PROVE PagesInv'
    <2>1. pc[c] \in {"token", "sent", "backoff"} /\ UNCHANGED queryVars
      BY <1>9 DEF Slept, BackOff, TryAgain
    <2>2. \E place \in {"token", "sent", "backoff"} : pc' = [pc EXCEPT ![c] = place]
      BY <1>6, <1>9 DEF Slept, BackOff, TryAgain, Goto
    <2> QED BY <1>2, <2>1, <2>2
  <1>10. ASSUME NEW c \in Callers, Refused(c) \/ Exhausted(c) \/ Take(c) \/ Cancelled(c)
         PROVE  PagesInv'
    <2>1. pc' = [pc EXCEPT ![c] = "idle"] /\ UNCHANGED queryVars
      BY <1>10 DEF Refused, Exhausted, Take, Cancelled, Raise, Goto
    <2> QED BY <1>3, <2>1
  <1> QED BY <1>4, <1>5, <1>7, <1>8, <1>9, <1>10 DEF Next, Works

\* Requests leave at the bucket's rate, for any number of callers that call,
\* retry, wake late or are cancelled in any order (TokenBucket.acquire).
THEOREM RateIsKept == Spec => KeepsRateCeiling
  BY RateInit, RateStep, PTL DEF Spec, KeepsRateCeiling, Contract!Spec

\* A query returns all its pages, each once and in order, or raises, whatever
\* its retries (get_bars, get_multi_bars).
THEOREM QueriesAreComplete == Spec => []CompleteOrError
  <1>1. Init => PagesInv
    BY PagesInit
  <1>2. PagesInv /\ [Next]_vars => PagesInv'
    BY PagesStep
  <1>3. PagesInv => CompleteOrError
    BY DEF PagesInv, CompleteOrError, First, Wanted
  <1> QED BY <1>1, <1>2, <1>3, PTL DEF Spec
=============================================================================

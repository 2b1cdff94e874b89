------------------------ MODULE DailyStrategyProofs ------------------------
(***************************************************************************)
(* The drawdown defence and the allocation rules keep their promises for   *)
(* any markets, any sectors, any number of recovery days and any pattern   *)
(* of evaluations, skips and restarts.                                     *)
(*                                                                         *)
(* The inductive invariant relates the counter to the observed window (the *)
(* last `recovery' evaluations closed above the average), the gate to the  *)
(* lockout, and the decision to the rules that made it (DecisionInv).      *)
(* What the rules give is then a matter of sums: momentum picks at most    *)
(* two sectors, so a regime holds Percent of the capital times the risk    *)
(* multiplier, and the havens spend what is left.  Both factors only fall  *)
(* when the market gets worse (NoBetter).                                  *)
(***************************************************************************)
EXTENDS DailyStrategy, FiniteSetTheorems, TLAPS

\* The market is known whenever it may be evaluated.
MarketKnown == phase # "night" => market \in Markets

\* The counter counts the evaluations the window shows.
CounterSeen == \A i \in 1..recovery : window[i]

TrackerInv ==
    /\ TrackerTypeOK
    /\ LockoutIffCut
    /\ CounterSeen
    /\ MarketKnown

\* No bull allocation passes a cut.
NoBullInCut ==
    phase = "decided" /\ gate < 100 => decision.regime \notin {"BULL_AGGRESSIVE", "BULL_NORMAL"}

StrategyInv == TrackerInv /\ NoBullInCut

\* A decision is what the rules give for the day's market and some values of the
\* tracker, and for the gate that is in force unless the process restarted since.
Made(top, open, locked, stale) ==
    decision = Decide(market, top, open, locked, stale) /\ (gate < 100 => open = gate)

DecisionInv ==
    /\ phase \in {"night", "day", "decided"}
    /\ market \in Markets \cup {NoMarket}
    /\ phase # "decided" => decision = NoDecision
    /\ phase = "decided" =>
          \E top, locked : \E open \in Gates, stale \in BOOLEAN : Made(top, open, locked, stale)

WeightsInv == StrategyInv /\ DecisionInv

-----------------------------------------------------------------------------
\* The table's value is one of the gates.
LEMMA RawGateType ==
    ASSUME NEW top \in Nat, NEW price \in Nat
    PROVE  RawGate(top, price) \in Gates
  BY DEF RawGate, Gates, Down

\* A window without a close above the average is a window.
LEMMA ClosedWindow == [i \in 1..RecoveryDays |-> FALSE] \in [1..RecoveryDays -> BOOLEAN]
<1>1. FALSE \in BOOLEAN
  OBVIOUS
<1> QED
  BY <1>1, Zenon

\* A locked market is at best fragile.
LEMMA LockedIsFragile ==
    ASSUME NEW m, NEW top, NEW stale
    PROVE  Classify(m, top, TRUE, stale) \notin {"BULL_AGGRESSIVE", "BULL_NORMAL"}
  BY DEF Classify, Fragile

\* What an update does to the tracker's types, for any price and close.
LEMMA UpdateType ==
    ASSUME TrackerTypeOK, NEW price \in Nat, NEW above \in BOOLEAN, Update(price, above)
    PROVE  TrackerTypeOK'
<1> DEFINE top == Greater(peak, price)
           raw == RawGate(top, price)
           confirmed == Counted(above) >= RecoveryDays
<1>1. top \in Nat
  BY DEF Greater, TrackerTypeOK
<1>2. raw \in Gates
  BY <1>1, RawGateType
<1>3. Counted(above) \in 0..RecoveryDays
  BY RecoveryAssumption DEF Counted, Lesser, TrackerTypeOK
<1>4. confirmed \in BOOLEAN
  OBVIOUS
<1>5. peak' = top /\ recovery' = Counted(above) /\ lockout' = Locked(raw, confirmed)
      /\ gate' = GateAfter(raw, confirmed)
      /\ window' = [i \in 1..RecoveryDays |-> IF i = 1 THEN above ELSE window[i - 1]]
  BY DEF Update
<1> HIDE DEF top, raw, confirmed
<1>6. gate' \in Gates
  BY <1>2, <1>5 DEF GateAfter, Lesser, TrackerTypeOK
<1>7. lockout' \in BOOLEAN
  BY <1>5 DEF Locked
<1>8. window' \in [1..RecoveryDays -> BOOLEAN]
  <2>1. ASSUME NEW i \in 1..RecoveryDays
        PROVE  (IF i = 1 THEN above ELSE window[i - 1]) \in BOOLEAN
    <3>1. CASE i = 1
      BY <3>1
    <3>2. CASE i # 1
      <4>1. i - 1 \in 1..RecoveryDays
        BY <3>2, RecoveryAssumption
      <4> QED
        BY <3>2, <4>1 DEF TrackerTypeOK
    <3> QED
      BY <3>1, <3>2
  <2> QED
    BY <1>5, <2>1
<1> QED
  BY <1>1, <1>3, <1>5, <1>6, <1>7, <1>8 DEF TrackerTypeOK

\* An update keeps the lockout and the gate together.
LEMMA UpdateLockout ==
    ASSUME TrackerTypeOK, LockoutIffCut,
           NEW price \in Nat, NEW above \in BOOLEAN, Update(price, above)
    PROVE  LockoutIffCut'
<1> DEFINE raw == RawGate(Greater(peak, price), price)
           confirmed == Counted(above) >= RecoveryDays
<1>1. raw \in Gates
  BY RawGateType DEF Greater, TrackerTypeOK
<1>2. lockout' = Locked(raw, confirmed) /\ gate' = GateAfter(raw, confirmed)
  BY DEF Update
<1> HIDE DEF raw, confirmed
<1>3. gate \in Gates /\ lockout \in BOOLEAN
  BY DEF TrackerTypeOK
<1>4. CASE confirmed
  <2>1. gate' = raw
    BY <1>2, <1>4 DEF GateAfter
  <2>2. lockout' <=> (lockout \/ raw < 100) /\ raw # 100
    BY <1>2, <1>4 DEF Locked
  <2> QED
    BY <1>1, <2>1, <2>2 DEF LockoutIffCut, Gates
<1>5. CASE ~confirmed
  <2>1. lockout' <=> lockout \/ raw < 100
    BY <1>2, <1>5 DEF Locked
  <2>2. gate' = IF lockout \/ raw < 100 THEN Lesser(gate, raw) ELSE raw
    BY <1>2, <1>5 DEF GateAfter
  <2> QED
    BY <1>1, <1>3, <2>1, <2>2 DEF LockoutIffCut, Lesser, Gates
<1> QED
  BY <1>4, <1>5

\* An update keeps the counter true to the window.
LEMMA UpdateCounter ==
    ASSUME TrackerTypeOK, CounterSeen,
           NEW price \in Nat, NEW above \in BOOLEAN, Update(price, above)
    PROVE  CounterSeen'
<1>1. recovery' = Counted(above)
      /\ window' = [i \in 1..RecoveryDays |-> IF i = 1 THEN above ELSE window[i - 1]]
  BY DEF Update
<1>2. SUFFICES ASSUME NEW i \in 1..recovery' PROVE window'[i]
  BY DEF CounterSeen
<1>3. above /\ i <= recovery + 1 /\ i \in 1..RecoveryDays
  BY <1>1, RecoveryAssumption DEF Counted, Lesser, TrackerTypeOK
<1>4. CASE i = 1
  BY <1>1, <1>3, <1>4
<1>5. CASE i # 1
  <2>1. i - 1 \in 1..recovery
    BY <1>3, <1>5 DEF TrackerTypeOK
  <2> QED
    BY <1>1, <1>3, <1>5, <2>1 DEF CounterSeen
<1> QED
  BY <1>4, <1>5

\* A gate that an update raises was confirmed by a full window.
LEMMA UpdateConfirms ==
    ASSUME TrackerTypeOK, LockoutIffCut, CounterSeen,
           NEW price \in Nat, NEW above \in BOOLEAN, Update(price, above), gate' > gate
    PROVE  \A i \in 1..RecoveryDays : window'[i]
<1> DEFINE raw == RawGate(Greater(peak, price), price)
           confirmed == Counted(above) >= RecoveryDays
<1>1. raw \in Gates
  BY RawGateType DEF Greater, TrackerTypeOK
<1>2. gate' = GateAfter(raw, confirmed) /\ recovery' = Counted(above)
  BY DEF Update
<1>3. gate \in Gates /\ lockout \in BOOLEAN
  BY DEF TrackerTypeOK
<1>4. confirmed
  <2> SUFFICES ASSUME ~confirmed PROVE FALSE
    OBVIOUS
  <2> HIDE DEF raw, confirmed
  <2>1. gate' = IF lockout \/ raw < 100 THEN Lesser(gate, raw) ELSE raw
    BY <1>2 DEF GateAfter
  <2> QED
    BY <1>1, <1>3, <2>1 DEF LockoutIffCut, Lesser, Gates
<1>5. recovery' = RecoveryDays
  BY <1>2, <1>4, RecoveryAssumption DEF Counted, Lesser, TrackerTypeOK
<1>6. CounterSeen'
  BY UpdateCounter
<1> QED
  BY <1>5, <1>6 DEF CounterSeen

-----------------------------------------------------------------------------
(* Sums.  Finite sets are well-founded under inclusion, so an induction over *)
(* them takes a smallest counterexample.                                     *)

LEMMA SmallestSubset ==
    ASSUME NEW S, IsFiniteSet(S), NEW T, T \subseteq SUBSET S, T # {}
    PROVE  \E x \in T : \A y \in T : ~ (y \subseteq x /\ y # x)
  <1>1. \A x \in SUBSET S : IsFiniteSet(x)
    BY FS_Subset
  <1>2. T \subseteq FiniteSubsetsOf(S)
    BY <1>1 DEF FiniteSubsetsOf
  <1>3. \E x \in T : \A y \in T : <<y, x>> \notin StrictSubsetOrdering(S)
    BY <1>2, WFMin, FS_StrictSubsetOrderingWellFounded
  <1> QED BY <1>3 DEF StrictSubsetOrdering

First(S) == CHOOSE x \in S : TRUE
Rest(S) == S \ {First(S)}

\* g holds the partial sums that the fold over S goes through.
Partial(f, S, g) ==
    g = [x \in SUBSET S |-> IF x = {} THEN 0 ELSE f[First(x)] + g[Rest(x)]]

LEMMA SumIsPartial == ASSUME NEW f, NEW S PROVE Total(f, S) = (CHOOSE g : Partial(f, S, g))[S]
  BY DEF Total, SumFunctionOnSet, FoldFunctionOnSet, MapThenFoldSet, Partial, First, Rest

LEMMA RestIsLess ==
    ASSUME NEW x, x # {}
    PROVE  /\ First(x) \in x /\ First(x) \notin Rest(x) /\ Rest(x) \subseteq x /\ Rest(x) # x
           /\ x = Rest(x) \cup {First(x)}
  BY DEF First, Rest

\* What the equation of a partial sum says of one set.
LEMMA PartialAt ==
    ASSUME NEW f, NEW S, NEW g, Partial(f, S, g), NEW x \in SUBSET S
    PROVE  g[x] = IF x = {} THEN 0 ELSE f[First(x)] + g[Rest(x)]
  BY DEF Partial

LEMMA PartialsAgree ==
    ASSUME NEW S, IsFiniteSet(S), NEW T \in SUBSET S, NEW f, NEW g, NEW h,
           Partial(f, S, g), Partial(f, T, h)
    PROVE  g[T] = h[T]
  <1> DEFINE D == {x \in SUBSET T : g[x] # h[x]}
  <1> SUFFICES ASSUME D # {} PROVE FALSE
    OBVIOUS
  <1>1. PICK x \in D : \A y \in D : ~ (y \subseteq x /\ y # x)
    <2>1. D \subseteq SUBSET S
      OBVIOUS
    <2> HIDE DEF D
    <2> QED BY <2>1, SmallestSubset
  <1>2. x \in SUBSET T /\ x \in SUBSET S /\ g[x] # h[x]
    OBVIOUS
  <1>3. x # {}
    BY <1>2, PartialAt
  <1>4. Rest(x) \in SUBSET T /\ g[Rest(x)] = h[Rest(x)]
    BY <1>1, <1>2, <1>3, RestIsLess
  <1>5. g[x] = f[First(x)] + g[Rest(x)] /\ h[x] = f[First(x)] + h[Rest(x)]
    BY <1>2, <1>3, PartialAt
  <1> QED BY <1>2, <1>4, <1>5

LEMMA PartialExists ==
    ASSUME NEW S, IsFiniteSet(S), NEW f
    PROVE  \E g : Partial(f, S, g)
  <1> DEFINE D == {x \in SUBSET S : ~ \E g : Partial(f, x, g)}
  <1> SUFFICES ASSUME D # {} PROVE FALSE
    OBVIOUS
  <1>1. PICK x \in D : \A y \in D : ~ (y \subseteq x /\ y # x)
    <2>1. D \subseteq SUBSET S
      OBVIOUS
    <2> HIDE DEF D
    <2> QED BY <2>1, SmallestSubset
  <1>2. x \in SUBSET S /\ ~ \E g : Partial(f, x, g)
    OBVIOUS
  <1>3. \A y \in SUBSET x : y # x => \E g : Partial(f, y, g)
    BY <1>1, <1>2
  <1>4. \A y \in SUBSET x : y # x =>
          Partial(f, y, CHOOSE g : Partial(f, y, g)) /\ IsFiniteSet(y)
    BY <1>2, <1>3, FS_Subset
  <1> DEFINE value(z) == IF z = {} THEN 0 ELSE f[First(z)] + Total(f, Rest(z))
             G == [z \in SUBSET x |-> value(z)]
  <1>5. ASSUME NEW y \in SUBSET x, y # x PROVE Total(f, y) = value(y)
    <2>1. PICK g : g = CHOOSE h : Partial(f, y, h)
      OBVIOUS
    <2>2. Partial(f, y, g) /\ Total(f, y) = g[y]
      BY <1>4, <1>5, <2>1, SumIsPartial
    <2>3. CASE y = {}
      BY <2>2, <2>3, PartialAt
    <2>4. CASE y # {}
      <3>1. Rest(y) \in SUBSET y /\ Rest(y) \in SUBSET x /\ Rest(y) # x
        BY <1>5, <2>4, RestIsLess
      <3>2. g[Rest(y)] = Total(f, Rest(y))
        <4>1. PICK h : h = CHOOSE k : Partial(f, Rest(y), k)
          OBVIOUS
        <4>2. Partial(f, Rest(y), h) /\ Total(f, Rest(y)) = h[Rest(y)]
          BY <1>4, <3>1, <4>1, SumIsPartial
        <4>3. IsFiniteSet(y)
          BY <1>4, <1>5
        <4> QED BY <2>2, <3>1, <4>2, <4>3, PartialsAgree
      <3> QED BY <2>2, <2>4, <3>2, PartialAt
    <2> QED BY <2>3, <2>4
  <1>6. ASSUME NEW z \in SUBSET x, z # {} PROVE G[Rest(z)] = Total(f, Rest(z))
    <2>1. Rest(z) \in SUBSET x /\ Rest(z) # x
      BY <1>6, RestIsLess
    <2> QED BY <1>5, <2>1
  <1>7. Partial(f, x, G)
    <2>1. ASSUME NEW z \in SUBSET x
          PROVE  value(z) = IF z = {} THEN 0 ELSE f[First(z)] + G[Rest(z)]
      BY <1>6
    <2>2. G = [z \in SUBSET x |-> IF z = {} THEN 0 ELSE f[First(z)] + G[Rest(z)]]
      <3> HIDE DEF value
      <3> QED BY <2>1
    <2> HIDE DEF G, value
    <2> QED BY <2>2 DEF Partial
  <1> QED BY <1>2, <1>7

\* How the fold takes a sum apart.
LEMMA SumUnfolds ==
    ASSUME NEW S, IsFiniteSet(S), NEW f
    PROVE  Total(f, S) = IF S = {} THEN 0 ELSE f[First(S)] + Total(f, Rest(S))
  <1>1. PICK g : g = CHOOSE h : Partial(f, S, h)
    OBVIOUS
  <1>2. Partial(f, S, g) /\ Total(f, S) = g[S]
    BY <1>1, PartialExists, SumIsPartial
  <1>3. S # {} => g[Rest(S)] = Total(f, Rest(S))
    <2> HAVE S # {}
    <2>1. Rest(S) \in SUBSET S /\ IsFiniteSet(Rest(S))
      BY RestIsLess, FS_Subset
    <2>2. PICK h : h = CHOOSE k : Partial(f, Rest(S), k)
      OBVIOUS
    <2>3. Partial(f, Rest(S), h) /\ Total(f, Rest(S)) = h[Rest(S)]
      BY <2>1, <2>2, PartialExists, SumIsPartial
    <2> QED BY <1>2, <2>1, <2>3, PartialsAgree
  <1> QED BY <1>2, <1>3, PartialAt

Ints(f, S) == \A x \in S : f[x] \in Int

LEMMA SumType ==
    ASSUME NEW S, IsFiniteSet(S), NEW f, Ints(f, S)
    PROVE  Total(f, S) \in Int
  <1> DEFINE D == {x \in SUBSET S : Total(f, x) \notin Int}
  <1> SUFFICES ASSUME D # {} PROVE FALSE
    OBVIOUS
  <1>1. PICK x \in D : \A y \in D : ~ (y \subseteq x /\ y # x)
    <2>1. D \subseteq SUBSET S
      OBVIOUS
    <2> HIDE DEF D
    <2> QED BY <2>1, SmallestSubset
  <1>2. x \in SUBSET S /\ IsFiniteSet(x) /\ Total(f, x) \notin Int
    BY FS_Subset
  <1>3. x # {}
    BY <1>2, SumUnfolds
  <1>4. Total(f, Rest(x)) \in Int /\ f[First(x)] \in Int
    BY <1>1, <1>2, <1>3, RestIsLess DEF Ints
  <1> QED BY <1>2, <1>3, <1>4, SumUnfolds

\* Any element may be taken out first.
LEMMA SumRemoves ==
    ASSUME NEW S, IsFiniteSet(S), NEW f, Ints(f, S), NEW s \in S
    PROVE  Total(f, S) = f[s] + Total(f, S \ {s})
  <1> DEFINE D == {x \in SUBSET S : \E e \in x : Total(f, x) # f[e] + Total(f, x \ {e})}
  <1> SUFFICES ASSUME D # {} PROVE FALSE
    OBVIOUS
  <1>1. PICK x \in D : \A y \in D : ~ (y \subseteq x /\ y # x)
    <2>1. D \subseteq SUBSET S
      OBVIOUS
    <2> HIDE DEF D
    <2> QED BY <2>1, SmallestSubset
  <1>2. x \in SUBSET S /\ IsFiniteSet(x) /\ x # {}
    BY FS_Subset
  <1>3. PICK e \in x : Total(f, x) # f[e] + Total(f, x \ {e})
    BY <1>1
  <1> DEFINE c == First(x)
  <1>4. c \in x /\ Total(f, x) = f[c] + Total(f, x \ {c})
    BY <1>2, SumUnfolds, RestIsLess DEF Rest
  <1> HIDE DEF c
  <1>5. c # e
    BY <1>3, <1>4
  <1>6. /\ Total(f, x \ {c}) = f[e] + Total(f, (x \ {c}) \ {e})
        /\ Total(f, x \ {e}) = f[c] + Total(f, (x \ {e}) \ {c})
    <2>1. x \ {c} \notin D /\ x \ {e} \notin D
      <3> HIDE DEF D
      <3> QED BY <1>1, <1>4
    <2> QED BY <1>2, <1>4, <1>5, <2>1
  <1>7. (x \ {c}) \ {e} = (x \ {e}) \ {c}
    OBVIOUS
  <1>8. f[c] \in Int /\ f[e] \in Int /\ Total(f, (x \ {c}) \ {e}) \in Int
    <2>1. (x \ {c}) \ {e} \in SUBSET S
      BY <1>2
    <2>2. IsFiniteSet((x \ {c}) \ {e}) /\ Ints(f, (x \ {c}) \ {e})
      BY <2>1, FS_Subset DEF Ints
    <2> QED BY <1>2, <1>4, <2>2, SumType DEF Ints
  <1> QED BY <1>3, <1>4, <1>6, <1>7, <1>8

\* The sum depends on the values only.
LEMMA SumsEqual ==
    ASSUME NEW S, IsFiniteSet(S), NEW f, NEW h, \A x \in S : f[x] = h[x]
    PROVE  Total(f, S) = Total(h, S)
  <1> DEFINE D == {x \in SUBSET S : Total(f, x) # Total(h, x)}
  <1> SUFFICES ASSUME D # {} PROVE FALSE
    OBVIOUS
  <1>1. PICK x \in D : \A y \in D : ~ (y \subseteq x /\ y # x)
    <2>1. D \subseteq SUBSET S
      OBVIOUS
    <2> HIDE DEF D
    <2> QED BY <2>1, SmallestSubset
  <1>2. x \in SUBSET S /\ IsFiniteSet(x) /\ Total(f, x) # Total(h, x)
    BY FS_Subset
  <1>3. x # {}
    BY <1>2, SumUnfolds
  <1>4. Total(f, Rest(x)) = Total(h, Rest(x)) /\ f[First(x)] = h[First(x)]
    BY <1>1, <1>2, <1>3, RestIsLess
  <1> QED BY <1>2, <1>3, <1>4, SumUnfolds

\* A sum of natural numbers is one.
LEMMA SumOfNats ==
    ASSUME NEW S, IsFiniteSet(S), NEW f, \A x \in S : f[x] \in Nat
    PROVE  Total(f, S) \in Nat
  <1> DEFINE D == {x \in SUBSET S : Total(f, x) \notin Nat}
  <1> SUFFICES ASSUME D # {} PROVE FALSE
    OBVIOUS
  <1>1. PICK x \in D : \A y \in D : ~ (y \subseteq x /\ y # x)
    <2>1. D \subseteq SUBSET S
      OBVIOUS
    <2> HIDE DEF D
    <2> QED BY <2>1, SmallestSubset
  <1>2. x \in SUBSET S /\ IsFiniteSet(x) /\ Total(f, x) \notin Nat
    BY FS_Subset
  <1>3. x # {}
    BY <1>2, SumUnfolds
  <1>4. Total(f, Rest(x)) \in Nat /\ f[First(x)] \in Nat
    BY <1>1, <1>2, <1>3, RestIsLess
  <1> QED BY <1>2, <1>3, <1>4, SumUnfolds

LEMMA SumOfZeros ==
    ASSUME NEW S, IsFiniteSet(S), NEW f, \A x \in S : f[x] = 0
    PROVE  Total(f, S) = 0
  <1> DEFINE D == {x \in SUBSET S : Total(f, x) # 0}
  <1> SUFFICES ASSUME D # {} PROVE FALSE
    OBVIOUS
  <1>1. PICK x \in D : \A y \in D : ~ (y \subseteq x /\ y # x)
    <2>1. D \subseteq SUBSET S
      OBVIOUS
    <2> HIDE DEF D
    <2> QED BY <2>1, SmallestSubset
  <1>2. x \in SUBSET S /\ IsFiniteSet(x) /\ Total(f, x) # 0
    BY FS_Subset
  <1>3. x # {}
    BY <1>2, SumUnfolds
  <1>4. Total(f, Rest(x)) = 0 /\ f[First(x)] = 0
    BY <1>1, <1>2, <1>3, RestIsLess
  <1> QED BY <1>2, <1>3, <1>4, SumUnfolds

-----------------------------------------------------------------------------
(* The sectors that momentum picks.                                        *)

Funds == {"SPY", "QQQ"}
Refuges == {"TLT", "GLD", "SHV"}

\* A market that the bot may see is one.
LEMMA MarketsAre == ASSUME NEW m \in Markets PROVE IsMarket(m)
  BY StrategyAssumption

LEMMA MomentumType ==
    ASSUME NEW m, IsMarket(m), NEW s
    PROVE  Momentum(m, s) \in Int
  BY DEF IsMarket, Assets, Momentum

\* Ranks order the sectors strictly and totally.
LEMMA RanksOrder ==
    ASSUME NEW m, IsMarket(m), NEW a \in Sectors, NEW b \in Sectors, NEW c \in Sectors
    PROVE  /\ a # b => RanksBefore(m, a, b) \/ RanksBefore(m, b, a)
           /\ ~ (RanksBefore(m, a, b) /\ RanksBefore(m, b, a))
           /\ RanksBefore(m, a, b) /\ RanksBefore(m, b, c) => RanksBefore(m, a, c)
  <1>1. /\ Momentum(m, a) \in Int /\ Momentum(m, b) \in Int /\ Momentum(m, c) \in Int
    BY MomentumType
  <1>2. /\ Alphabetical[a] \in Nat /\ Alphabetical[b] \in Nat /\ Alphabetical[c] \in Nat
        /\ Alphabetical[a] = Alphabetical[b] => a = b
    BY StrategyAssumption
  <1> QED BY <1>1, <1>2 DEF RanksBefore

\* A sector among the first n has fewer than n sectors before it.
LEMMA FewBefore ==
    ASSUME NEW m, IsMarket(m), NEW n \in Nat, NEW s \in TopSectors(m, n),
           NEW B, B \subseteq TopSectors(m, n), \A t \in B : RanksBefore(m, t, s)
    PROVE  IsFiniteSet(B) /\ Cardinality(B) < n
  <1> DEFINE cleared == {t \in Sectors : ClearsHurdle(m, t)}
             before == {t \in cleared : RanksBefore(m, t, s)}
  <1>1. B \subseteq before /\ before \subseteq Sectors /\ Cardinality(before) < n
    BY DEF TopSectors
  <1> HIDE DEF before
  <1>2. IsFiniteSet(before)
    BY <1>1, FS_Subset, StrategyAssumption
  <1>3. IsFiniteSet(B) /\ Cardinality(B) <= Cardinality(before)
    BY <1>1, <1>2, FS_Subset
  <1>4. Cardinality(B) \in Nat /\ Cardinality(before) \in Nat
    BY <1>2, <1>3, FS_CardinalityType
  <1> QED BY <1>1, <1>3, <1>4

LEMMA PairSize == ASSUME NEW a, NEW b, a # b PROVE Cardinality({a, b}) = 2
  <1>1. IsFiniteSet({a}) /\ Cardinality({a}) = 1
    BY FS_Singleton
  <1>2. {a, b} = {a} \cup {b} /\ b \notin {a}
    OBVIOUS
  <1>3. Cardinality({a} \cup {b}) = 1 + 1
    BY <1>1, <1>2, FS_AddElement
  <1> QED BY <1>2, <1>3

LEMMA TopOne ==
    ASSUME NEW m, IsMarket(m)
    PROVE  TopSectors(m, 1) = {} \/ \E a \in Sectors : TopSectors(m, 1) = {a}
  <1>1. TopSectors(m, 1) \subseteq Sectors
    BY DEF TopSectors
  <1>2. ASSUME NEW a \in TopSectors(m, 1), NEW b \in TopSectors(m, 1), RanksBefore(m, a, b)
        PROVE  FALSE
    <2>1. Cardinality({a}) < 1
      BY <1>2, FewBefore
    <2> QED BY <2>1, FS_Singleton
  <1>3. \A a, b \in TopSectors(m, 1) : a = b
    BY <1>1, <1>2, RanksOrder
  <1> QED BY <1>1, <1>3

LEMMA TopTwo ==
    ASSUME NEW m, IsMarket(m)
    PROVE  \/ TopSectors(m, 2) = {}
           \/ \E a \in Sectors : TopSectors(m, 2) = {a}
           \/ \E a, b \in Sectors : a # b /\ TopSectors(m, 2) = {a, b}
  <1>1. TopSectors(m, 2) \subseteq Sectors
    BY DEF TopSectors
  <1>2. ASSUME NEW a \in TopSectors(m, 2), NEW b \in TopSectors(m, 2), NEW c \in TopSectors(m, 2),
               a # b, RanksBefore(m, a, c), RanksBefore(m, b, c)
        PROVE  FALSE
    <2>1. Cardinality({a, b}) < 2
      BY <1>2, FewBefore
    <2> QED BY <1>2, <2>1, PairSize
  <1>3. \A a, b, c \in TopSectors(m, 2) : a = b \/ b = c \/ a = c
    <2> SUFFICES ASSUME NEW a \in TopSectors(m, 2), NEW b \in TopSectors(m, 2),
                        NEW c \in TopSectors(m, 2), a # b, b # c, a # c
                 PROVE  FALSE
      OBVIOUS
    <2>1. /\ RanksBefore(m, a, b) \/ RanksBefore(m, b, a)
          /\ RanksBefore(m, b, c) \/ RanksBefore(m, c, b)
          /\ RanksBefore(m, a, c) \/ RanksBefore(m, c, a)
      BY <1>1, RanksOrder
    <2>2. ~ (RanksBefore(m, a, b) /\ RanksBefore(m, b, c) /\ RanksBefore(m, c, a))
      BY <1>1, RanksOrder
    <2>3. ~ (RanksBefore(m, b, a) /\ RanksBefore(m, a, c) /\ RanksBefore(m, c, b))
      BY <1>1, RanksOrder
    <2> QED BY <1>2, <2>1, <2>2, <2>3
  <1> QED BY <1>1, <1>3

\* Of any sectors, one ranks before all others: by induction on the sets of them.
LEMMA SomeRanksFirst ==
    ASSUME NEW m, IsMarket(m), NEW S, S \subseteq Sectors, S # {}
    PROVE  \E s \in S : \A t \in S \ {s} : RanksBefore(m, s, t)
  <1> DEFINE best(X, s) == \A t \in X \ {s} : RanksBefore(m, s, t)
             D == {X \in SUBSET S : X # {} /\ ~ \E s \in X : best(X, s)}
  <1>1. IsFiniteSet(S)
    BY FS_Subset, StrategyAssumption
  <1> SUFFICES ASSUME D # {} PROVE FALSE
    OBVIOUS
  <1>2. PICK X \in D : \A Y \in D : ~ (Y \subseteq X /\ Y # X)
    <2>1. D \subseteq SUBSET S
      OBVIOUS
    <2> HIDE DEF D
    <2> QED BY <1>1, <2>1, SmallestSubset
  <1>3. X \in SUBSET S /\ X # {} /\ ~ \E s \in X : best(X, s)
    OBVIOUS
  <1>4. First(X) \in X /\ Rest(X) \subseteq X /\ Rest(X) # X /\ X = Rest(X) \cup {First(X)}
    BY <1>3, RestIsLess
  <1>5. CASE Rest(X) = {}
    <2>1. best(X, First(X))
      BY <1>4, <1>5
    <2> QED BY <1>3, <1>4, <2>1
  <1>6. CASE Rest(X) # {}
    <2>1. PICK s \in Rest(X) : best(Rest(X), s)
      BY <1>2, <1>3, <1>4, <1>6
    <2>2. s \in Sectors /\ First(X) \in Sectors /\ \A t \in X : t \in Sectors
      BY <1>3, <1>4
    <2>3. CASE RanksBefore(m, s, First(X))
      <3>1. best(X, s)
        BY <1>4, <2>1, <2>3
      <3> QED BY <1>3, <1>4, <2>1, <3>1
    <2>4. CASE ~ RanksBefore(m, s, First(X))
      <3>1. First(X) # s => RanksBefore(m, First(X), s)
        BY <2>2, <2>4, RanksOrder
      <3>2. ASSUME NEW t \in X \ {First(X)} PROVE RanksBefore(m, First(X), t)
        <4>1. t \in Rest(X) /\ (t # s => RanksBefore(m, s, t))
          BY <1>4, <2>1
        <4> QED BY <2>2, <3>1, <4>1, RanksOrder, RestIsLess
      <3> QED BY <1>3, <1>4, <3>2
    <2> QED BY <2>3, <2>4
  <1> QED BY <1>5, <1>6

LEMMA BestDefensiveIn == ASSUME NEW m, IsMarket(m) PROVE BestDefensive(m) \in Sectors
  <1>1. Defensives \subseteq Sectors /\ Defensives # {}
    BY StrategyAssumption
  <1>2. \E s \in Defensives : \A t \in Defensives \ {s} : RanksBefore(m, s, t)
    BY <1>1, SomeRanksFirst
  <1> QED BY <1>1, <1>2 DEF BestDefensive

-----------------------------------------------------------------------------
(* The equity of a decision.                                               *)

LEMMA VolScaleRange == ASSUME NEW vol \in Nat PROVE VolScale(vol) \in 0..100
  <1>1. Greater(vol, 5) \in Nat \ {0}
    BY DEF Greater
  <1>2. ASSUME NEW v \in Nat \ {0} PROVE Lesser(100, 1200 \div v) \in 0..100
    BY SMT DEF Lesser
  <1> QED BY <1>1, <1>2 DEF VolScale

\* A risk multiplier for a gate that lets open percent through.
RiskBound(risk, open) == risk \in 0..10000 /\ risk <= 100 * open

LEMMA RiskRange ==
    ASSUME NEW m, IsMarket(m), NEW open \in Gates
    PROVE  RiskBound(Risk(m, open), open)
  <1>1. VolScale(m.vol) \in 0..100 /\ open \in 0..100
    BY VolScaleRange DEF IsMarket, Gates
  <1>2. PICK v \in 0..100 : v = VolScale(m.vol)
    BY <1>1
  <1>3. v * open \in 0..10000 /\ v * open <= 100 * open
    BY <1>1, SMTT(30)
  <1>4. PICK n : n = v * open
    OBVIOUS
  <1>5. n \in 0..10000 /\ n <= 100 * open
    BY <1>3, <1>4
  <1>6. Risk(m, open) = IF BandBroken(m) THEN (IF n <= 5000 THEN n ELSE 5000) ELSE n
    BY <1>2, <1>4 DEF Risk, Lesser
  <1> QED BY <1>1, <1>5, <1>6 DEF RiskBound

LEMMA RiskType ==
    ASSUME NEW m, IsMarket(m), NEW open \in Gates
    PROVE  Risk(m, open) \in 0..10000 /\ Risk(m, open) \in Nat
  <1>1. RiskBound(Risk(m, open), open)
    BY RiskRange
  <1>2. PICK n : n = Risk(m, open)
    OBVIOUS
  <1>3. n \in 0..10000
    BY <1>1, <1>2 DEF RiskBound
  <1>4. n \in Nat
    BY <1>3
  <1> QED BY <1>2, <1>3, <1>4

\* The percent of the capital that a regime holds in equity before the overlays.
Percent(m, regime) ==
    IF regime = "BULL_AGGRESSIVE" THEN 70 + 15 * Cardinality(TopSectors(m, 2))
    ELSE IF regime = "BULL_NORMAL" THEN 60 + 20 * Cardinality(TopSectors(m, 1))
    ELSE IF regime = "CORRECTION_FRAGILE" THEN 20 ELSE 0

\* What a fund and a sector get of it.
FundShare(s, regime) ==
    IF regime = "BULL_AGGRESSIVE" THEN (IF s = "QQQ" THEN 50 ELSE 20)
    ELSE IF regime = "BULL_NORMAL" THEN (IF s = "QQQ" THEN 35 ELSE 25) ELSE 0

LEMMA BaseValues ==
    ASSUME NEW m, IsMarket(m), NEW regime \in Regimes
    PROVE  /\ Held(m, regime) \subseteq Sectors
           /\ \A s \in Funds : Base(m, regime)[s] = FundShare(s, regime)
           /\ \A s \in Sectors :
                 Base(m, regime)[s] = IF s \in Held(m, regime) THEN SectorShare(regime) ELSE 0
  <1>1. Held(m, regime) \subseteq Sectors
    <2>1. TopSectors(m, 1) \subseteq Sectors /\ TopSectors(m, 2) \subseteq Sectors
      BY DEF TopSectors
    <2> QED BY <2>1, BestDefensiveIn DEF Held, Regimes
  <1>2. Sectors \cap Funds = {}
    BY StrategyAssumption DEF Funds
  <1>3. ASSUME NEW s \in Funds PROVE Base(m, regime)[s] = FundShare(s, regime)
    <2>1. s \notin Held(m, regime) /\ s \in Sectors \cup {"SPY", "QQQ"}
      BY <1>1, <1>2 DEF Funds
    <2> QED BY <2>1 DEF Base, FundShare, Funds, Regimes
  <1>4. ASSUME NEW s \in Sectors
        PROVE  Base(m, regime)[s] = IF s \in Held(m, regime) THEN SectorShare(regime) ELSE 0
    <2>1. s \in Sectors \cup {"SPY", "QQQ"} /\ s # "SPY" /\ s # "QQQ"
      BY <1>2 DEF Funds
    <2> QED BY <2>1 DEF Base
  <1> QED BY <1>1, <1>3, <1>4

\* What a regime holds are at most two sectors, as many as Percent counts.
LEMMA HeldSectors ==
    ASSUME NEW m, IsMarket(m), NEW regime \in Regimes
    PROVE  \/ Held(m, regime) = {}
              /\ SectorShare(regime) \in Nat
              /\ Percent(m, regime) = FundShare("SPY", regime) + FundShare("QQQ", regime)
           \/ \E a \in Sectors : Held(m, regime) = {a}
              /\ SectorShare(regime) \in Nat
              /\ Percent(m, regime)
                   = FundShare("SPY", regime) + FundShare("QQQ", regime) + SectorShare(regime)
           \/ \E a, b \in Sectors : a # b /\ Held(m, regime) = {a, b}
              /\ SectorShare(regime) \in Nat
              /\ Percent(m, regime)
                   = FundShare("SPY", regime) + FundShare("QQQ", regime) + 2 * SectorShare(regime)
  <1>1. /\ Cardinality({}) = 0 /\ \A a : Cardinality({a}) = 1
        /\ \A a, b \in Sectors : a # b => Cardinality({a, b}) = 2
    BY FS_EmptySet, FS_Singleton, PairSize
  <1>2. CASE regime = "BULL_AGGRESSIVE"
    <2>1. /\ Held(m, regime) = TopSectors(m, 2) /\ SectorShare(regime) = 15
          /\ Percent(m, regime) = 70 + 15 * Cardinality(TopSectors(m, 2))
          /\ FundShare("SPY", regime) = 20 /\ FundShare("QQQ", regime) = 50
      BY <1>2 DEF Held, SectorShare, Percent, FundShare
    <2>2. CASE TopSectors(m, 2) = {}
      BY <1>1, <2>1, <2>2
    <2>3. CASE \E a \in Sectors : TopSectors(m, 2) = {a}
      <3>1. PICK a \in Sectors : TopSectors(m, 2) = {a}
        BY <2>3
      <3>2. Cardinality(TopSectors(m, 2)) = 1
        BY <1>1, <3>1
      <3> QED BY <2>1, <3>1, <3>2
    <2>4. CASE \E a, b \in Sectors : a # b /\ TopSectors(m, 2) = {a, b}
      <3>1. PICK a, b \in Sectors : a # b /\ TopSectors(m, 2) = {a, b}
        BY <2>4
      <3>2. Cardinality(TopSectors(m, 2)) = 2
        BY <1>1, <3>1
      <3> QED BY <2>1, <3>1, <3>2
    <2> QED BY <2>2, <2>3, <2>4, TopTwo
  <1>3. CASE regime = "BULL_NORMAL"
    <2>1. /\ Held(m, regime) = TopSectors(m, 1) /\ SectorShare(regime) = 20
          /\ Percent(m, regime) = 60 + 20 * Cardinality(TopSectors(m, 1))
          /\ FundShare("SPY", regime) = 25 /\ FundShare("QQQ", regime) = 35
      BY <1>3 DEF Held, SectorShare, Percent, FundShare
    <2>2. CASE TopSectors(m, 1) = {}
      BY <1>1, <2>1, <2>2
    <2>3. CASE \E a \in Sectors : TopSectors(m, 1) = {a}
      <3>1. PICK a \in Sectors : TopSectors(m, 1) = {a}
        BY <2>3
      <3>2. Cardinality(TopSectors(m, 1)) = 1
        BY <1>1, <3>1
      <3> QED BY <2>1, <3>1, <3>2
    <2> QED BY <2>2, <2>3, TopOne
  <1>4. CASE regime = "CORRECTION_FRAGILE"
    BY <1>4, BestDefensiveIn DEF Held, SectorShare, Percent, FundShare
  <1>5. CASE regime \in {"BEAR_CRISIS", "STALE_DATA_HOLD"}
    BY <1>5 DEF Held, SectorShare, Percent, FundShare
  <1> QED BY <1>2, <1>3, <1>4, <1>5 DEF Regimes

\* A function that gives v to each sector of H, and what it adds up to.
Spread(f, v, H) == \A s \in Sectors : f[s] = IF s \in H THEN v ELSE 0
SpreadTotal(total, v, H) ==
    /\ H = {} => total = 0
    /\ \A a \in Sectors : H = {a} => total = v
    /\ \A a, b \in Sectors : a # b /\ H = {a, b} => total = 2 * v

\* A sum over sectors of which at most two count.
LEMMA SumOfHeld ==
    ASSUME NEW f, NEW v \in Int, NEW H, Spread(f, v, H)
    PROVE  SpreadTotal(Total(f, Sectors), v, H)
  <1> \A s \in Sectors : f[s] = IF s \in H THEN v ELSE 0
    BY DEF Spread
  <1>1. IsFiniteSet(Sectors) /\ Ints(f, Sectors)
    BY StrategyAssumption DEF Ints
  <1>2. H = {} => Total(f, Sectors) = 0
    BY <1>1, SumOfZeros
  <1>3. ASSUME NEW a \in Sectors, H = {a} PROVE Total(f, Sectors) = v
    <2>1. Total(f, Sectors) = f[a] + Total(f, Sectors \ {a})
      BY <1>1, SumRemoves
    <2>2. IsFiniteSet(Sectors \ {a}) /\ \A s \in Sectors \ {a} : f[s] = 0
      BY <1>1, <1>3, FS_Subset
    <2>3. Total(f, Sectors \ {a}) = 0
      BY <2>2, SumOfZeros
    <2> QED BY <1>3, <2>1, <2>3
  <1>4. ASSUME NEW a \in Sectors, NEW b \in Sectors, a # b, H = {a, b}
        PROVE  Total(f, Sectors) = 2 * v
    <2>1. Total(f, Sectors) = f[a] + Total(f, Sectors \ {a})
      BY <1>1, SumRemoves
    <2>2. IsFiniteSet(Sectors \ {a}) /\ Ints(f, Sectors \ {a}) /\ b \in Sectors \ {a}
      BY <1>1, <1>4, FS_Subset DEF Ints
    <2>3. Total(f, Sectors \ {a}) = f[b] + Total(f, (Sectors \ {a}) \ {b})
      BY <2>2, SumRemoves
    <2>4. IsFiniteSet((Sectors \ {a}) \ {b}) /\ \A s \in (Sectors \ {a}) \ {b} : f[s] = 0
      BY <1>4, <2>2, FS_Subset
    <2>5. Total(f, (Sectors \ {a}) \ {b}) = 0
      BY <2>4, SumOfZeros
    <2> QED BY <1>4, <2>1, <2>3, <2>5
  <1> QED BY <1>2, <1>3, <1>4 DEF SpreadTotal

LEMMA SumOverFunds ==
    ASSUME NEW f, Ints(f, Sectors \cup Funds)
    PROVE  Total(f, Sectors \cup Funds) = f["SPY"] + f["QQQ"] + Total(f, Sectors)
  <1> DEFINE E == Sectors \cup Funds
  <1>1. IsFiniteSet(Sectors) /\ Sectors \cap Funds = {}
    BY StrategyAssumption DEF Funds
  <1>2. E = (Sectors \cup {"SPY"}) \cup {"QQQ"}
    BY DEF Funds
  <1>3. IsFiniteSet(E)
    BY <1>1, <1>2, FS_AddElement
  <1>4. "SPY" \in E /\ "QQQ" \in E \ {"SPY"} /\ (E \ {"SPY"}) \ {"QQQ"} = Sectors
    BY <1>1 DEF Funds
  <1>5. IsFiniteSet(E \ {"SPY"}) /\ Ints(f, E \ {"SPY"}) /\ Ints(f, E)
    BY <1>3, FS_Subset DEF Ints
  <1> HIDE DEF E
  <1>6. Total(f, E) = f["SPY"] + Total(f, E \ {"SPY"})
    BY <1>3, <1>4, <1>5, SumRemoves
  <1>7. Total(f, E \ {"SPY"}) = f["QQQ"] + Total(f, Sectors)
    BY <1>4, <1>5, SumRemoves
  <1>8. f["SPY"] \in Int /\ f["QQQ"] \in Int /\ Total(f, Sectors) \in Int
    <2>1. Ints(f, Sectors)
      BY DEF Ints
    <2> QED BY <1>1, <1>4, <1>5, <2>1, SumType DEF Ints
  <1> QED BY <1>6, <1>7, <1>8 DEF E

\* The equity before the havens: what is held in percent, times the risk multiplier.
EquityWeights(m, regime, open) ==
    [s \in Sectors \cup {"SPY", "QQQ"} |-> Base(m, regime)[s] * Risk(m, open)]

LEMMA EquityTotal ==
    ASSUME NEW m, IsMarket(m), NEW regime \in Regimes, NEW open \in Gates
    PROVE  /\ Total(EquityWeights(m, regime, open), Sectors \cup Funds)
                = Percent(m, regime) * Risk(m, open)
           /\ \A s \in Sectors \cup Funds : EquityWeights(m, regime, open)[s] \in Nat
  <1> DEFINE f == EquityWeights(m, regime, open)
             risk == Risk(m, open)
  <1>1. risk \in Nat
    BY RiskType
  <1>2. SectorShare(regime) \in Nat /\ \A s \in Funds : FundShare(s, regime) \in Nat
    BY DEF SectorShare, FundShare
  <1>3. /\ \A s \in Sectors : f[s] = IF s \in Held(m, regime) THEN SectorShare(regime) * risk
                                                              ELSE 0
        /\ f["SPY"] = FundShare("SPY", regime) * risk
        /\ f["QQQ"] = FundShare("QQQ", regime) * risk
    <2>1. \A s \in Sectors \cup {"SPY", "QQQ"} : f[s] = Base(m, regime)[s] * risk
      BY DEF EquityWeights
    <2>2. /\ Base(m, regime)["SPY"] = FundShare("SPY", regime)
          /\ Base(m, regime)["QQQ"] = FundShare("QQQ", regime)
      BY BaseValues DEF Funds
    <2>3. ASSUME NEW s \in Sectors
          PROVE  f[s] = IF s \in Held(m, regime) THEN SectorShare(regime) * risk ELSE 0
      <3>1. Base(m, regime)[s] = IF s \in Held(m, regime) THEN SectorShare(regime) ELSE 0
        BY BaseValues
      <3>2. 0 * risk = 0
        BY <1>1
      <3> HIDE DEF f, risk
      <3> QED BY <2>1, <3>1, <3>2
    <2> HIDE DEF f, risk
    <2> QED BY <2>1, <2>2, <2>3
  <1> HIDE DEF f, risk
  <1>4. SectorShare(regime) * risk \in Nat /\ \A s \in Funds : FundShare(s, regime) * risk \in Nat
    <2>1. \A a \in Nat : a * risk \in Nat
      BY <1>1, SMT
    <2> QED BY <1>2, <2>1
  <1>5. \A s \in Sectors \cup Funds : f[s] \in Nat
    BY <1>3, <1>4 DEF Funds
  <1>6. Total(f, Sectors \cup Funds) = f["SPY"] + f["QQQ"] + Total(f, Sectors)
    <2>1. Ints(f, Sectors \cup Funds)
      BY <1>5 DEF Ints
    <2> QED BY <2>1, SumOverFunds
  <1>7. Total(f, Sectors \cup Funds) = Percent(m, regime) * risk
    <2> DEFINE y == FundShare("SPY", regime)
               q == FundShare("QQQ", regime)
               v == SectorShare(regime)
    <2>1. y \in Nat /\ q \in Nat /\ v \in Nat /\ v * risk \in Int
      BY <1>2, <1>4 DEF Funds
    <2>2. /\ Held(m, regime) = {} => Total(f, Sectors) = 0
          /\ \A a \in Sectors : Held(m, regime) = {a} => Total(f, Sectors) = v * risk
          /\ \A a, b \in Sectors :
                a # b /\ Held(m, regime) = {a, b} => Total(f, Sectors) = 2 * (v * risk)
      <3> DEFINE H == Held(m, regime)
      <3>1. PICK x \in Int : x = v * risk
        BY <2>1
      <3>2. Spread(f, x, H)
        BY <1>3, <3>1 DEF Spread
      <3>3. SpreadTotal(Total(f, Sectors), x, H)
        BY <3>2, SumOfHeld
      <3> HIDE DEF v
      <3> QED BY <3>1, <3>3 DEF SpreadTotal, H
    <2>3. f["SPY"] = y * risk /\ f["QQQ"] = q * risk
      BY <1>3
    <2> HIDE DEF y, q, v
    <2>4. /\ y * risk + q * risk + 0 = (y + q) * risk
          /\ y * risk + q * risk + v * risk = (y + q + v) * risk
          /\ y * risk + q * risk + 2 * (v * risk) = (y + q + 2 * v) * risk
      BY <1>1, <2>1, SMT
    <2>5. CASE Held(m, regime) = {} /\ Percent(m, regime) = y + q
      BY <1>6, <2>2, <2>3, <2>4, <2>5
    <2>6. CASE \E a \in Sectors : Held(m, regime) = {a} /\ Percent(m, regime) = y + q + v
      BY <1>6, <2>2, <2>3, <2>4, <2>6
    <2>7. CASE \E a, b \in Sectors : /\ a # b /\ Held(m, regime) = {a, b}
                                     /\ Percent(m, regime) = y + q + 2 * v
      BY <1>6, <2>2, <2>3, <2>4, <2>7
    <2> QED BY <2>5, <2>6, <2>7, HeldSectors DEF y, q, v
  <1> QED BY <1>5, <1>7 DEF f, risk

-----------------------------------------------------------------------------
(* The weights of a decision.                                              *)

LEMMA HavensSpend ==
    ASSUME NEW m, NEW capital \in Nat
    PROVE  /\ \A s \in Refuges : Havens(m, capital)[s] \in Nat
           /\ Havens(m, capital)["TLT"] + Havens(m, capital)["GLD"] + Havens(m, capital)["SHV"]
                = capital
  <1> DEFINE share(s) == IF Qualifies(m, s) THEN (2 * capital) \div 5 ELSE 0
  <1>1. (2 * capital) \div 5 \in Nat /\ 2 * ((2 * capital) \div 5) <= capital
    BY SMT
  <1>2. share("TLT") \in Nat /\ share("GLD") \in Nat /\ share("TLT") + share("GLD") <= capital
    BY <1>1
  <1>3. /\ Havens(m, capital)["TLT"] = share("TLT")
        /\ Havens(m, capital)["GLD"] = share("GLD")
        /\ Havens(m, capital)["SHV"] = capital - share("TLT") - share("GLD")
    BY DEF Havens
  <1> HIDE DEF share
  <1> QED BY <1>2, <1>3 DEF Refuges

LEMMA SmallSize ==
    ASSUME NEW T
    PROVE  /\ T = {} \/ (\E a \in Sectors : T = {a}) => Cardinality(T) \in 0..1
           /\ \/ T = {} \/ \E a \in Sectors : T = {a}
              \/ \E a, b \in Sectors : a # b /\ T = {a, b}
              => Cardinality(T) \in 0..2
  <1>1. ASSUME T = {} PROVE Cardinality(T) = 0
    BY <1>1, FS_EmptySet
  <1>2. ASSUME NEW a \in Sectors, T = {a} PROVE Cardinality(T) = 1
    BY <1>2, FS_Singleton
  <1>3. ASSUME NEW a \in Sectors, NEW b \in Sectors, a # b, T = {a, b} PROVE Cardinality(T) = 2
    BY <1>3, PairSize
  <1> QED BY <1>1, <1>2, <1>3

\* What is held and what is kept in reserve never exceed the capital.
LEMMA CapitalIsLeft ==
    ASSUME NEW m, IsMarket(m), NEW regime \in Regimes, NEW open \in Gates
    PROVE  /\ Reserve(m, regime) \in Nat
           /\ Percent(m, regime) * Risk(m, open) \in Nat
           /\ Percent(m, regime) * Risk(m, open) + Reserve(m, regime) * 10000 <= One
  <1>1. /\ Cardinality(TopSectors(m, 1)) \in 0..1 /\ Cardinality(TopSectors(m, 2)) \in 0..2
    BY TopOne, TopTwo, SmallSize
  <1>2. /\ Percent(m, regime) \in Nat /\ Reserve(m, regime) \in Nat
        /\ Percent(m, regime) + Reserve(m, regime) <= 100
    BY <1>1 DEF Percent, Reserve, Regimes
  <1>3. ASSUME NEW p \in Nat, NEW r \in 0..10000 PROVE p * r \in Nat /\ p * r <= p * 10000
    BY SMT
  <1>4. /\ Percent(m, regime) * Risk(m, open) \in Nat
        /\ Percent(m, regime) * Risk(m, open) <= Percent(m, regime) * 10000
    <2>1. PICK p, r : p = Percent(m, regime) /\ r = Risk(m, open)
      OBVIOUS
    <2> p \in Nat /\ r \in 0..10000
      BY <1>2, <2>1, RiskType
    <2>2. p * r \in Nat /\ p * r <= p * 10000
      BY <1>3
    <2> QED BY <2>1, <2>2
  <1> QED BY <1>2, <1>4 DEF One

\* What a regime keeps out of the market.
KeptBack(m, regime) == Reserve(m, regime) * 10000

\* The weights of a regime that is not on hold.
LEMMA WeightValues ==
    ASSUME NEW m, IsMarket(m), NEW regime \in Regimes, regime # "STALE_DATA_HOLD",
           NEW open \in Gates, NEW w, w = Weights(m, regime, open),
           NEW reserve, reserve = KeptBack(m, regime),
           NEW spent, spent = Percent(m, regime) * Risk(m, open),
           NEW left, left = One - spent - reserve
    PROVE  /\ \A s \in Sectors \cup Funds : w[s] = EquityWeights(m, regime, open)[s]
           /\ w["TLT"] = Havens(m, left)["TLT"] /\ w["GLD"] = Havens(m, left)["GLD"]
           /\ w["SHV"] = Havens(m, left)["SHV"] + reserve
  <1> DEFINE e == EquityWeights(m, regime, open)
  <1>1. DOMAIN e = Sectors \cup {"SPY", "QQQ"} /\ Sectors \cup Funds = Sectors \cup {"SPY", "QQQ"}
    BY DEF EquityWeights, Funds
  <1>2. One - Total(e, DOMAIN e) - reserve = left
    <2>1. Total(e, Sectors \cup Funds) = Percent(m, regime) * Risk(m, open)
      BY EquityTotal
    <2> HIDE DEF e
    <2>2. Total(e, DOMAIN e) = spent
      BY <1>1, <2>1, Zenon
    <2> HIDE DEF e
    <2> QED BY <2>2
  <1>3. Weights(m, regime, open)
          = [s \in Symbols |->
               IF s \in DOMAIN e THEN e[s]
               ELSE Havens(m, One - Total(e, DOMAIN e) - reserve)[s]
                      + (IF s = "SHV" THEN reserve ELSE 0)]
    BY DEF Weights, EquityWeights, KeptBack
  <1>4. Symbols = Sectors \cup Funds \cup Refuges /\ Refuges \cap (Sectors \cup Funds) = {}
    BY StrategyAssumption DEF Symbols, Funds, Refuges
  <1> HIDE DEF e
  <1>5. Weights(m, regime, open)
          = [s \in Symbols |->
               IF s \in Sectors \cup Funds THEN e[s]
               ELSE Havens(m, left)[s] + (IF s = "SHV" THEN reserve ELSE 0)]
    BY <1>1, <1>2, <1>3
  <1>6. left \in Nat
    <2>1. PICK r \in Nat : r = Reserve(m, regime) /\ spent \in Nat /\ spent + r * 10000 <= One
      BY CapitalIsLeft
    <2> QED BY <2>1 DEF One, KeptBack
  <1>7. \A s \in Refuges : Havens(m, left)[s] \in Nat
    BY <1>6, HavensSpend
  <1> QED BY <1>4, <1>5, <1>7 DEF e, Refuges

LEMMA WeightsOfSymbols ==
    ASSUME NEW m, NEW regime, NEW open
    PROVE  \E g : Weights(m, regime, open) = [s \in Symbols |-> g[s]]
  <1> DEFINE e == EquityWeights(m, regime, open)
             reserve == Reserve(m, regime) * 10000
             havens == Havens(m, One - Total(e, DOMAIN e) - reserve)
             held == [s \in Symbols |-> IF s = "SHV" THEN One ELSE 0]
             spent == [s \in Symbols |-> IF s \in DOMAIN e THEN e[s]
                                        ELSE havens[s] + (IF s = "SHV" THEN reserve ELSE 0)]
  <1>1. Weights(m, regime, open) = IF regime = "STALE_DATA_HOLD" THEN held ELSE spent
    BY DEF Weights, EquityWeights
  <1>2. held = [s \in Symbols |-> held[s]]
    OBVIOUS
  <1>3. spent = [s \in Symbols |-> spent[s]]
    <2> HIDE DEF e, reserve, havens
    <2> QED OBVIOUS
  <1> HIDE DEF held, spent
  <1> QED BY <1>1, <1>2, <1>3

LEMMA SymbolsFinite == IsFiniteSet(Symbols)
  <1>1. IsFiniteSet(Sectors)
    BY StrategyAssumption
  <1>2. IsFiniteSet((Sectors \cup {"SPY"}) \cup {"QQQ"})
    BY <1>1, FS_AddElement
  <1>3. IsFiniteSet((((Sectors \cup {"SPY"}) \cup {"QQQ"}) \cup {"TLT"}) \cup {"GLD"})
    BY <1>2, FS_AddElement
  <1>4. IsFiniteSet(((((Sectors \cup {"SPY"}) \cup {"QQQ"}) \cup {"TLT"}) \cup {"GLD"}) \cup {"SHV"})
    BY <1>3, FS_AddElement
  <1>5. Symbols = ((((Sectors \cup {"SPY"}) \cup {"QQQ"}) \cup {"TLT"}) \cup {"GLD"}) \cup {"SHV"}
    BY DEF Symbols
  <1> QED BY <1>4, <1>5

\* The sum over all symbols, haven by haven.
LEMMA SumOverSymbols ==
    ASSUME NEW w, Ints(w, Symbols)
    PROVE  /\ Total(w, Sectors \cup Funds) \in Int
           /\ Total(w, Symbols) = w["TLT"] + w["GLD"] + w["SHV"] + Total(w, Sectors \cup Funds)
  <1>1. /\ Symbols = Sectors \cup Funds \cup Refuges /\ Refuges \cap (Sectors \cup Funds) = {}
        /\ IsFiniteSet(Sectors)
    BY StrategyAssumption DEF Symbols, Funds, Refuges
  <1>3. IsFiniteSet(Symbols)
    BY SymbolsFinite
  <1> DEFINE A == Symbols \ {"TLT"}
             B == A \ {"GLD"}
  <1>4. "TLT" \in Symbols /\ "GLD" \in A /\ "SHV" \in B /\ B \ {"SHV"} = Sectors \cup Funds
    BY <1>1 DEF Refuges
  <1>5. /\ IsFiniteSet(A) /\ IsFiniteSet(B) /\ IsFiniteSet(Sectors \cup Funds)
        /\ Ints(w, A) /\ Ints(w, B) /\ Ints(w, Sectors \cup Funds)
    BY <1>1, <1>3, FS_Subset DEF Ints
  <1>6. Total(w, Symbols) = w["TLT"] + Total(w, A)
    BY <1>3, <1>4, SumRemoves
  <1>7. Total(w, A) = w["GLD"] + Total(w, B)
    BY <1>4, <1>5, SumRemoves
  <1>8. Total(w, B) = w["SHV"] + Total(w, Sectors \cup Funds)
    BY <1>4, <1>5, SumRemoves
  <1>9. w["TLT"] \in Int /\ w["GLD"] \in Int /\ w["SHV"] \in Int
    BY DEF Ints, Symbols
  <1>10. Total(w, Sectors \cup Funds) \in Int
    BY <1>5, SumType
  <1> QED BY <1>6, <1>7, <1>8, <1>9, <1>10

\* Every decision's weights are not negative, add up to the capital, and hold the
\* equity that the regime and the risk multiplier say.
LEMMA DecidedWeights ==
    ASSUME NEW m, IsMarket(m), NEW regime \in Regimes, NEW open \in Gates
    PROVE  LET w == Weights(m, regime, open)
           IN /\ \A s \in Symbols : w[s] \in Nat
              /\ Total(w, Symbols) = One
              /\ Total(w, Sectors \cup Funds) = Percent(m, regime) * Risk(m, open)
  <1> DEFINE w == Weights(m, regime, open)
  <1>0. /\ Symbols = Sectors \cup Funds \cup Refuges /\ Refuges \cap (Sectors \cup Funds) = {}
        /\ IsFiniteSet(Sectors)
    BY StrategyAssumption DEF Symbols, Funds, Refuges
  <1>1. IsFiniteSet(Sectors \cup Funds)
    <2>1. Sectors \cup Funds = (Sectors \cup {"SPY"}) \cup {"QQQ"}
      BY DEF Funds
    <2> QED BY <1>0, <2>1, FS_AddElement
  <1>2. CASE regime = "STALE_DATA_HOLD"
    <2>1. w = [s \in Symbols |-> IF s = "SHV" THEN One ELSE 0]
      BY <1>2 DEF Weights
    <2>2. /\ \A s \in Symbols : w[s] \in Nat
          /\ \A s \in Sectors \cup Funds : w[s] = 0
          /\ w["TLT"] = 0 /\ w["GLD"] = 0 /\ w["SHV"] = One
      BY <1>0, <2>1 DEF One, Refuges
    <2> HIDE DEF w
    <2>3. Total(w, Sectors \cup Funds) = 0
      BY <1>1, <2>2, SumOfZeros
    <2>4. Ints(w, Symbols)
      BY <2>2 DEF Ints
    <2>5. Total(w, Symbols) = One
      BY <2>2, <2>3, <2>4, SumOverSymbols DEF One
    <2>6. Percent(m, regime) * Risk(m, open) = 0
      <3>1. Percent(m, regime) = 0 /\ Risk(m, open) \in Nat
        BY <1>2, RiskType DEF Percent
      <3> QED BY <3>1
    <2> QED BY <2>2, <2>3, <2>5, <2>6 DEF w
  <1>3. CASE regime # "STALE_DATA_HOLD"
    <2> DEFINE equity == Percent(m, regime) * Risk(m, open)
               reserve == KeptBack(m, regime)
               left == One - equity - reserve
    <2>1. equity \in Nat /\ reserve \in Nat /\ left \in Nat
      <3>1. PICK e1 \in Nat, r1 \in Nat : /\ e1 = Percent(m, regime) * Risk(m, open)
                                         /\ r1 = Reserve(m, regime) /\ e1 + r1 * 10000 <= One
        BY CapitalIsLeft
      <3>2. equity = e1 /\ reserve = r1 * 10000 /\ left = One - e1 - r1 * 10000
        BY <3>1 DEF KeptBack
      <3> HIDE DEF equity, reserve, left
      <3> QED BY <3>1, <3>2 DEF One
    <2>2. /\ \A s \in Sectors \cup Funds : w[s] = EquityWeights(m, regime, open)[s]
          /\ w["TLT"] = Havens(m, left)["TLT"] /\ w["GLD"] = Havens(m, left)["GLD"]
          /\ w["SHV"] = Havens(m, left)["SHV"] + reserve
      BY <1>3, WeightValues
    <2>3. /\ \A s \in Sectors \cup Funds : EquityWeights(m, regime, open)[s] \in Nat
          /\ Total(EquityWeights(m, regime, open), Sectors \cup Funds) = equity
      BY EquityTotal
    <2> HIDE DEF w, equity, reserve, left
    <2>4. /\ \A s \in Refuges : Havens(m, left)[s] \in Nat
          /\ Havens(m, left)["TLT"] + Havens(m, left)["GLD"] + Havens(m, left)["SHV"] = left
      BY <2>1, HavensSpend
    <2>5. \A s \in Symbols : w[s] \in Nat
      BY <1>0, <2>1, <2>2, <2>3, <2>4 DEF Refuges
    <2>6. Total(w, Sectors \cup Funds) = equity
      <3>1. Total(w, Sectors \cup Funds) = Total(EquityWeights(m, regime, open), Sectors \cup Funds)
        BY <1>1, <2>2, SumsEqual
      <3> QED BY <2>3, <3>1
    <2>7. Total(w, Symbols) = w["TLT"] + w["GLD"] + w["SHV"] + Total(w, Sectors \cup Funds)
      <3>1. Ints(w, Symbols)
        BY <2>5 DEF Ints
      <3> QED BY <3>1, SumOverSymbols
    <2>8. Total(w, Symbols) = One
      <3>1. /\ Havens(m, left)["TLT"] \in Nat /\ Havens(m, left)["GLD"] \in Nat
            /\ Havens(m, left)["SHV"] \in Nat
        BY <2>4 DEF Refuges
      <3>2. left + reserve + equity = One
        BY <2>1 DEF left, One
      <3>3. /\ w["TLT"] \in Nat /\ w["GLD"] \in Nat
            /\ w["TLT"] + w["GLD"] + w["SHV"] = left + reserve
        BY <2>1, <2>2, <2>4, <3>1
      <3>4. w["SHV"] \in Nat
        BY <2>5 DEF Symbols
      <3> QED BY <2>1, <2>6, <2>7, <3>2, <3>3, <3>4
    <2> QED BY <2>5, <2>6, <2>8 DEF w, equity
  <1> QED BY <1>2, <1>3

-----------------------------------------------------------------------------
\* A process starts with the invariant.
LEMMA InitInv == Init => StrategyInv
<1> SUFFICES ASSUME Init PROVE StrategyInv
  OBVIOUS
<1>1. TrackerTypeOK
  <2>1. window \in [1..RecoveryDays -> BOOLEAN]
    BY ClosedWindow DEF Init, FreshTracker
  <2>2. recovery \in 0..RecoveryDays
    BY RecoveryAssumption DEF Init, FreshTracker
  <2> QED
    BY <2>1, <2>2 DEF Init, FreshTracker, TrackerTypeOK, Gates
<1>2. LockoutIffCut /\ CounterSeen /\ MarketKnown /\ NoBullInCut
  BY DEF Init, FreshTracker, LockoutIffCut, CounterSeen, MarketKnown, NoBullInCut
<1> QED
  BY <1>1, <1>2 DEF StrategyInv, TrackerInv

\* A restart, and every step that leaves the tracker alone, keep the tracker's part.
LEMMA ForgetInv == Forget => TrackerTypeOK' /\ LockoutIffCut' /\ CounterSeen'
<1> SUFFICES ASSUME Forget PROVE TrackerTypeOK' /\ LockoutIffCut' /\ CounterSeen'
  OBVIOUS
<1>1. TrackerTypeOK'
  <2>1. window' \in [1..RecoveryDays -> BOOLEAN]
    BY ClosedWindow DEF Forget
  <2>2. recovery' \in 0..RecoveryDays
    BY RecoveryAssumption DEF Forget
  <2> QED
    BY <2>1, <2>2 DEF Forget, TrackerTypeOK, Gates
<1> QED
  BY <1>1 DEF Forget, LockoutIffCut, CounterSeen

LEMMA KeepInv ==
    ASSUME TrackerTypeOK, LockoutIffCut, CounterSeen, UNCHANGED tracker
    PROVE  TrackerTypeOK' /\ LockoutIffCut' /\ CounterSeen'
  BY DEF tracker, TrackerTypeOK, LockoutIffCut, CounterSeen

\* The close of a market is a number and lies above its average or does not.
LEMMA EvaluateUpdates ==
    ASSUME MarketKnown, NEW stale \in BOOLEAN, Evaluate(stale)
    PROVE  \E price \in Nat \ {0}, above \in BOOLEAN : Update(price, above)
<1>1. market \in Markets
  BY DEF Evaluate, MarketKnown
<1>2. Spy(market).price \in Nat \ {0}
  BY <1>1, StrategyAssumption DEF IsMarket, Trends, Spy
<1>3. Above50(Spy(market)) \in BOOLEAN
  BY DEF Above50
<1>4. Update(Spy(market).price, Above50(Spy(market)))
  BY DEF Evaluate
<1> QED
  BY <1>2, <1>3, <1>4

\* An evaluation keeps the whole invariant.
LEMMA EvaluateInv ==
    ASSUME StrategyInv, NEW stale \in BOOLEAN, Evaluate(stale)
    PROVE  StrategyInv'
<1>1. PICK price \in Nat \ {0}, above \in BOOLEAN : Update(price, above)
  BY EvaluateUpdates DEF StrategyInv, TrackerInv
<1>2. TrackerTypeOK'
  BY <1>1, UpdateType DEF StrategyInv, TrackerInv
<1>3. LockoutIffCut'
  BY <1>1, UpdateLockout DEF StrategyInv, TrackerInv
<1>4. CounterSeen'
  BY <1>1, UpdateCounter DEF StrategyInv, TrackerInv
<1>5. MarketKnown'
  BY DEF StrategyInv, TrackerInv, MarketKnown, Evaluate
<1>6. NoBullInCut'
  <2> SUFFICES ASSUME gate' < 100
               PROVE  decision'.regime \notin {"BULL_AGGRESSIVE", "BULL_NORMAL"}
    BY DEF NoBullInCut
  <2>1. lockout' = TRUE
    BY <1>2, <1>3 DEF LockoutIffCut, TrackerTypeOK
  <2>2. decision'.regime = Classify(market, peak', TRUE, stale)
    BY <2>1 DEF Evaluate, Decide
  <2> QED
    BY <2>2, LockedIsFragile
<1> QED
  BY <1>2, <1>3, <1>4, <1>5, <1>6 DEF StrategyInv, TrackerInv

\* Every step keeps the invariant.
LEMMA NextInv == StrategyInv /\ [Next]_vars => StrategyInv'
<1> SUFFICES ASSUME StrategyInv, [Next]_vars PROVE StrategyInv'
  OBVIOUS
<1>1. ASSUME NEW m \in Markets, NewDay(m) PROVE StrategyInv'
  <2>1. TrackerTypeOK' /\ LockoutIffCut' /\ CounterSeen'
    BY <1>1, KeepInv DEF NewDay, StrategyInv, TrackerInv
  <2>2. MarketKnown' /\ NoBullInCut'
    BY <1>1 DEF NewDay, MarketKnown, NoBullInCut
  <2> QED
    BY <2>1, <2>2 DEF StrategyInv, TrackerInv
<1>2. ASSUME NEW stale \in BOOLEAN, Evaluate(stale) PROVE StrategyInv'
  BY <1>2, EvaluateInv
<1>3. ASSUME EndDay PROVE StrategyInv'
  <2>1. TrackerTypeOK' /\ LockoutIffCut' /\ CounterSeen'
    BY <1>3, KeepInv DEF EndDay, StrategyInv, TrackerInv
  <2>2. MarketKnown' /\ NoBullInCut'
    BY <1>3 DEF EndDay, MarketKnown, NoBullInCut
  <2> QED
    BY <2>1, <2>2 DEF StrategyInv, TrackerInv
<1>4. ASSUME Restart PROVE StrategyInv'
  <2>1. TrackerTypeOK' /\ LockoutIffCut' /\ CounterSeen'
    BY <1>4, ForgetInv DEF Restart
  <2>2. MarketKnown' /\ NoBullInCut'
    BY <1>4 DEF Restart, Forget, MarketKnown, NoBullInCut, StrategyInv, TrackerInv
  <2> QED
    BY <2>1, <2>2 DEF StrategyInv, TrackerInv
<1>5. ASSUME UNCHANGED vars PROVE StrategyInv'
  <2>1. TrackerTypeOK' /\ LockoutIffCut' /\ CounterSeen'
    BY <1>5, KeepInv DEF vars, StrategyInv, TrackerInv
  <2>2. MarketKnown' /\ NoBullInCut'
    BY <1>5 DEF vars, tracker, MarketKnown, NoBullInCut, StrategyInv, TrackerInv
  <2> QED
    BY <2>1, <2>2 DEF StrategyInv, TrackerInv
<1> QED
  BY <1>1, <1>2, <1>3, <1>4, <1>5 DEF Next

\* Every step raises the gate only when confirmed or in a new process.
LEMMA NextConfirms ==
    ASSUME StrategyInv, [Next]_vars, gate' > gate
    PROVE  peak' = 0 \/ \A i \in 1..RecoveryDays : window'[i]
<1>1. gate \in Nat
  BY DEF StrategyInv, TrackerInv, TrackerTypeOK, Gates
<1>2. ASSUME UNCHANGED gate PROVE FALSE
  BY <1>1, <1>2
<1>3. ASSUME NEW stale \in BOOLEAN, Evaluate(stale)
      PROVE  \A i \in 1..RecoveryDays : window'[i]
  <2>1. PICK price \in Nat \ {0}, above \in BOOLEAN : Update(price, above)
    BY <1>3, EvaluateUpdates DEF StrategyInv, TrackerInv
  <2> QED
    BY <2>1, UpdateConfirms DEF StrategyInv, TrackerInv
<1>4. ASSUME Restart PROVE peak' = 0
  BY <1>4 DEF Restart, Forget
<1>5. ASSUME NEW m \in Markets, NewDay(m) PROVE UNCHANGED gate
  BY <1>5 DEF NewDay, tracker
<1>6. ASSUME EndDay PROVE UNCHANGED gate
  BY <1>6 DEF EndDay, tracker
<1>7. ASSUME UNCHANGED vars PROVE UNCHANGED gate
  BY <1>7 DEF vars, tracker
<1> QED
  BY <1>2, <1>3, <1>4, <1>5, <1>6, <1>7 DEF Next

-----------------------------------------------------------------------------
\* What was decided stays what the rules gave.
LEMMA DecisionInit == Init => DecisionInv
  BY DEF Init, DecisionInv

LEMMA DecisionNext == StrategyInv /\ StrategyInv' /\ DecisionInv /\ [Next]_vars => DecisionInv'
<1> SUFFICES ASSUME StrategyInv, StrategyInv', DecisionInv, [Next]_vars PROVE DecisionInv'
  OBVIOUS
<1>1. ASSUME NEW m \in Markets, NewDay(m) PROVE DecisionInv'
  BY <1>1 DEF NewDay, DecisionInv
<1>2. ASSUME NEW stale \in BOOLEAN, Evaluate(stale) PROVE DecisionInv'
  <2>1. /\ phase' = "decided" /\ market' = market
        /\ decision' = Decide(market', peak', gate', lockout', stale)
    BY <1>2 DEF Evaluate
  <2>2. gate' \in Gates
    BY DEF StrategyInv, TrackerInv, TrackerTypeOK
  <2>3. Made(peak, gate, lockout, stale)'
    BY <2>1 DEF Made
  <2> QED
    BY <2>1, <2>2, <2>3 DEF DecisionInv
<1>3. ASSUME EndDay PROVE DecisionInv'
  BY <1>3 DEF EndDay, DecisionInv
<1>4. ASSUME Restart PROVE DecisionInv'
  <2>1. gate' = 100 /\ UNCHANGED <<phase, market, decision>>
    BY <1>4 DEF Restart, Forget
  <2>2. ASSUME NEW top, NEW locked, NEW open, NEW stale, Made(top, open, locked, stale)
        PROVE  decision' = Decide(market', top, open, locked, stale) /\ ~ (gate' < 100)
    BY <2>1, <2>2 DEF Made
  <2> QED
    BY <2>1, <2>2 DEF DecisionInv, Made
<1>5. ASSUME UNCHANGED vars PROVE DecisionInv'
  BY <1>5 DEF vars, tracker, DecisionInv, Made
<1> QED
  BY <1>1, <1>2, <1>3, <1>4, <1>5 DEF Next

\* What a decision holds.
LEMMA DecisionHolds ==
    ASSUME StrategyInv, DecisionInv, phase = "decided"
    PROVE  \E open \in Gates :
             /\ gate < 100 => open = gate
             /\ decision.regime \in Regimes
             /\ decision.weights = Weights(market, decision.regime, open)
             /\ IsMarket(market)
<1>1. PICK top, locked : \E open \in Gates, stale \in BOOLEAN : Made(top, open, locked, stale)
  BY DEF DecisionInv
<1>2. PICK open \in Gates, stale \in BOOLEAN : Made(top, open, locked, stale)
  BY <1>1
<1>3. IsMarket(market)
  BY MarketsAre DEF StrategyInv, TrackerInv, MarketKnown
<1>4. Classify(market, top, locked, stale) \in Regimes
  BY DEF Classify, Regimes
<1> QED
  BY <1>2, <1>3, <1>4 DEF Made, Decide

\* A cut regime holds at most a fifth of what the gate lets through.
LEMMA CutIsAFifth ==
    ASSUME NEW m, IsMarket(m), NEW open \in Gates,
           NEW regime \in Regimes, regime \notin {"BULL_AGGRESSIVE", "BULL_NORMAL"}
    PROVE  Percent(m, regime) * Risk(m, open) <= 2000 * open
<1>1. PICK risk : risk = Risk(m, open)
  OBVIOUS
<1>2. risk \in 0..10000 /\ risk <= 100 * open
  BY <1>1, RiskRange DEF RiskBound
<1>3. Percent(m, regime) \in {0, 20}
  BY DEF Percent
<1>4. open \in Nat
  BY DEF Gates
<1>5. CASE Percent(m, regime) = 0
  BY <1>1, <1>2, <1>4, <1>5
<1>6. CASE Percent(m, regime) = 20
  BY <1>1, <1>2, <1>4, <1>6
<1> QED
  BY <1>3, <1>5, <1>6

LEMMA SpendsTheCapital == StrategyInv /\ DecisionInv => WeightsSpendTheCapital
<1> SUFFICES ASSUME StrategyInv, DecisionInv, phase = "decided"
             PROVE  /\ \A s \in Symbols : decision.weights[s] >= 0
                    /\ Total(decision.weights, Symbols) = One
  BY DEF WeightsSpendTheCapital
<1>1. PICK open \in Gates : /\ decision.regime \in Regimes /\ IsMarket(market)
                            /\ decision.weights = Weights(market, decision.regime, open)
  BY DecisionHolds
<1>2. /\ \A s \in Symbols : decision.weights[s] \in Nat
      /\ Total(decision.weights, Symbols) = One
  BY <1>1, DecidedWeights
<1> QED
  BY <1>2

LEMMA HoldsEquityDown == StrategyInv /\ DecisionInv => CutHoldsEquityDown
<1> SUFFICES ASSUME StrategyInv, DecisionInv, phase = "decided", gate < 100
             PROVE  /\ decision.regime \notin {"BULL_AGGRESSIVE", "BULL_NORMAL"}
                    /\ Total(decision.weights, Sectors \cup {"SPY", "QQQ"}) <= 2000 * gate
  BY DEF CutHoldsEquityDown
<1>1. decision.regime \notin {"BULL_AGGRESSIVE", "BULL_NORMAL"}
  BY DEF StrategyInv, NoBullInCut
<1>2. /\ gate \in Gates /\ decision.regime \in Regimes /\ IsMarket(market)
      /\ decision.weights = Weights(market, decision.regime, gate)
  BY DecisionHolds
<1>3. Total(decision.weights, Sectors \cup Funds)
        = Percent(market, decision.regime) * Risk(market, gate)
  BY <1>2, DecidedWeights
<1>4. Percent(market, decision.regime) * Risk(market, gate) <= 2000 * gate
  BY <1>1, <1>2, CutIsAFifth
<1>5. PICK t : t = Percent(market, decision.regime) * Risk(market, gate)
  OBVIOUS
<1>6. t <= 2000 * gate
  BY <1>4, <1>5
<1> QED
  BY <1>1, <1>3, <1>5, <1>6 DEF Funds

LEMMA OneIsNat == One \in Nat
  BY SMT DEF One

\* The types, with every weight between nothing and the whole capital.
LEMMA TypesHold == StrategyInv /\ DecisionInv => TypeOK
<1> SUFFICES ASSUME StrategyInv, DecisionInv PROVE TypeOK
  OBVIOUS
<1>1. /\ TrackerTypeOK /\ phase \in {"night", "day", "decided"}
      /\ market \in Markets \cup {NoMarket}
  BY DEF StrategyInv, TrackerInv, DecisionInv
<1>2. decision.regime \in Regimes /\ decision.weights \in [Symbols -> 0..One]
  <2>1. CASE phase # "decided"
    <3>1. decision = NoDecision
      BY <2>1 DEF DecisionInv
    <3>2. NoDecision.regime = "STALE_DATA_HOLD" /\ NoDecision.weights = [s \in Symbols |-> 0]
      BY DEF NoDecision
    <3>3. "STALE_DATA_HOLD" \in Regimes
      BY DEF Regimes
    <3>4. [s \in Symbols |-> 0] \in [Symbols -> 0..One]
      <4>1. 0 \in 0..One
        BY OneIsNat
      <4> QED BY <4>1, Zenon
    <3> QED BY <3>1, <3>2, <3>3, <3>4
  <2>2. CASE phase = "decided"
    <3>1. PICK open \in Gates : /\ decision.regime \in Regimes /\ IsMarket(market)
                                /\ decision.weights = Weights(market, decision.regime, open)
      BY <2>2, DecisionHolds
    <3>2. /\ \A s \in Symbols : decision.weights[s] \in Nat
          /\ Total(decision.weights, Symbols) = One
      BY <3>1, DecidedWeights
    <3>3. IsFiniteSet(Symbols)
      BY SymbolsFinite
    <3>4. ASSUME NEW s \in Symbols PROVE decision.weights[s] \in 0..One
      <4>1. IsFiniteSet(Symbols \ {s})
        BY <3>3, FS_Subset
      <4>2. /\ Total(decision.weights, Symbols \ {s}) \in Nat
            /\ Total(decision.weights, Symbols)
                 = decision.weights[s] + Total(decision.weights, Symbols \ {s})
        <5>1. Ints(decision.weights, Symbols)
          BY <3>2 DEF Ints
        <5> QED BY <3>2, <3>3, <4>1, <5>1, SumOfNats, SumRemoves
      <4> QED BY <3>2, <4>2, OneIsNat
    <3>5. \E g : decision.weights = [s \in Symbols |-> g[s]]
      BY <3>1, WeightsOfSymbols
    <3> QED BY <3>1, <3>4, <3>5
  <2> QED BY <2>1, <2>2
<1> QED
  BY <1>1, <1>2 DEF TypeOK

-----------------------------------------------------------------------------
(* A worse market.                                                         *)

\* x is a market in which nothing that the defence, the regime or momentum
\* looks at is better than in m.
NoBetter(x, m) ==
    /\ IsMarket(x) /\ IsMarket(m)
    /\ DOMAIN x.index = DOMAIN m.index /\ DOMAIN x.assets = DOMAIN m.assets
    /\ x.atr = m.atr /\ m.vol <= x.vol
    /\ \A i \in DOMAIN m.index :
        /\ x.index[i].price <= m.index[i].price
        /\ x.index[i].sma50 = m.index[i].sma50 /\ x.index[i].sma200 = m.index[i].sma200
    /\ \A s \in DOMAIN m.assets :
        /\ x.assets[s].momentum = m.assets[s].momentum
        /\ x.assets[s].above50 => m.assets[s].above50
        /\ x.assets[s].above200 => m.assets[s].above200

\* A fund whose price is no higher over the same averages.
Trails(a, b) ==
    /\ a \in Trends /\ b \in Trends
    /\ a.price <= b.price /\ a.sma50 = b.sma50 /\ a.sma200 = b.sma200

LEMMA FundsTrail ==
    ASSUME NEW x, NEW m, NoBetter(x, m)
    PROVE  /\ Trails(Spy(x), Spy(m)) /\ Trails(Qqq(x), Qqq(m))
           /\ \A i \in DOMAIN m.index : Trails(x.index[i], m.index[i])
  <1>1. \A i \in DOMAIN m.index : Trails(x.index[i], m.index[i])
    BY DEF NoBetter, IsMarket, Trails
  <1>2. "SPY" \in DOMAIN m.index /\ DOMAIN x.index = DOMAIN m.index
    BY DEF NoBetter, IsMarket
  <1> QED BY <1>1, <1>2 DEF Spy, Qqq

LEMMA TrailingFund ==
    ASSUME NEW a, NEW b, Trails(a, b)
    PROVE  /\ Above50(a) => Above50(b)
           /\ Above200(a) => Above200(b)
           /\ Golden(a) <=> Golden(b)
  BY DEF Trails, Trends, Above50, Above200, Golden

-----------------------------------------------------------------------------
(* The defence in a worse market                                           *)

Top(price) == Greater(peak, price)
Raw(m) == RawGate(Top(Spy(m).price), Spy(m).price)
Confirmed(m) == Counted(Above50(Spy(m))) >= RecoveryDays
GateOf(m) == GateAfter(Raw(m), Confirmed(m))
LockOf(m) == Locked(Raw(m), Confirmed(m))

LEMMA DownIsDown ==
    ASSUME TrackerTypeOK, NEW x, NEW m, NoBetter(x, m), NEW percent \in {5, 10, 15},
           Down(Top(Spy(m).price), Spy(m).price, percent)
    PROVE  Down(Top(Spy(x).price), Spy(x).price, percent)
  <1>1. /\ Spy(x).price \in Nat \ {0} /\ Spy(m).price \in Nat \ {0}
        /\ Spy(x).price <= Spy(m).price
    BY FundsTrail DEF Trails, Trends
  <1>2. peak \in Nat
    BY DEF TrackerTypeOK
  <1> QED BY <1>1, <1>2 DEF Down, Top, Greater

LEMMA RawGateSteps ==
    ASSUME NEW top \in Nat, NEW price \in Nat
    PROVE  RawGate(top, price) =
             IF ~Down(top, price, 5) THEN 100 ELSE IF ~Down(top, price, 10) THEN 50
             ELSE IF ~Down(top, price, 15) THEN 20 ELSE 0
  BY DEF RawGate, Down

LEMMA RawFalls ==
    ASSUME TrackerTypeOK, NEW x, NEW m, NoBetter(x, m)
    PROVE  Raw(x) \in Gates /\ Raw(m) \in Gates /\ Raw(x) <= Raw(m)
  <1> DEFINE down(y, percent) == Down(Top(Spy(y).price), Spy(y).price, percent)
  <1>1. /\ down(m, 5) => down(x, 5)
        /\ down(m, 10) => down(x, 10)
        /\ down(m, 15) => down(x, 15)
    BY DownIsDown
  <1>2. ASSUME NEW y, IsMarket(y)
        PROVE  Raw(y) = IF ~down(y, 5) THEN 100 ELSE IF ~down(y, 10) THEN 50
                        ELSE IF ~down(y, 15) THEN 20 ELSE 0
    <2>1. Top(Spy(y).price) \in Nat /\ Spy(y).price \in Nat
      <3>1. Spy(y).price \in Nat
        BY <1>2 DEF Spy, IsMarket, Trends
      <3> QED BY <3>1 DEF Top, Greater, TrackerTypeOK
    <2> QED BY <2>1, RawGateSteps DEF Raw
  <1>3. IsMarket(x) /\ IsMarket(m)
    BY DEF NoBetter
  <1> HIDE DEF down
  <1> QED BY <1>1, <1>2, <1>3 DEF Gates

LEMMA GateFalls ==
    ASSUME TrackerTypeOK, NEW x, NEW m, NoBetter(x, m)
    PROVE  /\ GateOf(x) \in Gates /\ GateOf(m) \in Gates /\ GateOf(x) <= GateOf(m)
           /\ LockOf(m) => LockOf(x)
  <1>1. Raw(x) \in Gates /\ Raw(m) \in Gates /\ Raw(x) <= Raw(m)
    BY RawFalls
  <1>2. Confirmed(x) => Confirmed(m)
    BY FundsTrail, TrailingFund, RecoveryAssumption DEF Confirmed, Counted, Lesser, TrackerTypeOK
  <1>3. gate \in Gates /\ Confirmed(x) \in BOOLEAN /\ Confirmed(m) \in BOOLEAN
    BY DEF TrackerTypeOK, Confirmed
  <1> QED BY <1>1, <1>2, <1>3 DEF GateOf, LockOf, GateAfter, Locked, Lesser, Gates

-----------------------------------------------------------------------------
(* The regime in a worse market                                            *)

LEMMA BreadthFalls ==
    ASSUME NEW x, NEW m, NoBetter(x, m)
    PROVE  /\ Breadth(x).all = Breadth(m).all /\ Breadth(x).all \in Nat
           /\ Breadth(x).above \in Nat /\ Breadth(m).above \in Nat
           /\ Breadth(x).above <= Breadth(m).above
  <1> DEFINE seen == Sectors \cap DOMAIN m.assets
             all == IF seen # {} THEN seen ELSE DOMAIN m.index
             above(y) == IF seen # {} THEN {s \in seen : y.assets[s].above50}
                         ELSE {i \in DOMAIN m.index : Above50(y.index[i])}
  <1>1. /\ Breadth(m) = [above |-> Cardinality(above(m)), all |-> Cardinality(all)]
        /\ Breadth(x) = [above |-> Cardinality(above(x)), all |-> Cardinality(all)]
    BY DEF Breadth, NoBetter
  <1>2. above(x) \subseteq above(m)
    <2>1. \A i \in DOMAIN m.index : Above50(x.index[i]) => Above50(m.index[i])
      BY FundsTrail, TrailingFund
    <2>2. \A s \in seen : x.assets[s].above50 => m.assets[s].above50
      BY DEF NoBetter
    <2> QED BY <2>1, <2>2
  <1>3. above(m) \subseteq all
    OBVIOUS
  <1>4. IsFiniteSet(all)
    <2>1. IsFiniteSet(seen)
      BY FS_Subset, StrategyAssumption
    <2>2. IsFiniteSet({"SPY"}) /\ IsFiniteSet({"SPY"} \cup {"QQQ"})
      BY FS_Singleton, FS_AddElement
    <2>3. {"SPY"} \cup {"QQQ"} = {"SPY", "QQQ"}
      OBVIOUS
    <2>4. DOMAIN m.index \in {{"SPY"}, {"SPY", "QQQ"}}
      BY DEF NoBetter, IsMarket
    <2> QED BY <2>1, <2>2, <2>3, <2>4
  <1> HIDE DEF all, above
  <1>5. IsFiniteSet(above(m)) /\ IsFiniteSet(above(x))
    BY <1>2, <1>3, <1>4, FS_Subset
  <1>6. /\ Cardinality(above(x)) <= Cardinality(above(m))
        /\ Cardinality(above(x)) \in Nat /\ Cardinality(above(m)) \in Nat
        /\ Cardinality(all) \in Nat
    BY <1>2, <1>4, <1>5, FS_Subset, FS_CardinalityType
  <1> QED BY <1>1, <1>6

LEMMA BroadIsBroad ==
    ASSUME NEW x, NEW m, NoBetter(x, m), NEW percent \in {40, 60}, Broad(x, percent)
    PROVE  Broad(m, percent)
  BY BreadthFalls DEF Broad

LEMMA SignalsWorsen ==
    ASSUME TrackerTypeOK, NEW x, NEW m, NoBetter(x, m)
    PROVE  /\ BandBroken(m) => BandBroken(x)
           /\ Crisis(m, Top(Spy(m).price)) => Crisis(x, Top(Spy(x).price))
           /\ Fragile(m, Top(Spy(m).price), LockOf(m)) => Fragile(x, Top(Spy(x).price), LockOf(x))
           /\ Aggressive(x, Top(Spy(x).price)) => Aggressive(m, Top(Spy(m).price))
  <1>1. m.vol \in Nat /\ x.vol \in Nat /\ m.vol <= x.vol /\ m.atr \in Nat /\ x.atr = m.atr
    BY DEF NoBetter, IsMarket
  <1>2. Trails(Spy(x), Spy(m)) /\ Trails(Qqq(x), Qqq(m))
    BY FundsTrail
  <1>3. /\ Above50(Spy(x)) => Above50(Spy(m))
        /\ Above50(Qqq(x)) => Above50(Qqq(m))
        /\ Above200(Spy(x)) => Above200(Spy(m))
        /\ (Golden(Spy(x)) <=> Golden(Spy(m))) /\ (Golden(Qqq(x)) <=> Golden(Qqq(m)))
    BY <1>2, TrailingFund
  <1>4. BandBroken(m) => BandBroken(x)
    BY <1>1, <1>2 DEF BandBroken, Trails, Trends
  <1>5. /\ Down(Top(Spy(m).price), Spy(m).price, 5) => Down(Top(Spy(x).price), Spy(x).price, 5)
        /\ Down(Top(Spy(m).price), Spy(m).price, 10) => Down(Top(Spy(x).price), Spy(x).price, 10)
    BY DownIsDown
  <1>6. LockOf(m) => LockOf(x)
    BY GateFalls
  <1>7. Broad(x, 40) => Broad(m, 40)
    BY BroadIsBroad
  <1>8. Broad(x, 60) => Broad(m, 60)
    BY BroadIsBroad
  <1>9. Crisis(m, Top(Spy(m).price)) => Crisis(x, Top(Spy(x).price))
    BY <1>1, <1>3, <1>4, <1>5 DEF Crisis
  <1>10. Fragile(m, Top(Spy(m).price), LockOf(m)) => Fragile(x, Top(Spy(x).price), LockOf(x))
    BY <1>1, <1>3, <1>5, <1>6, <1>7 DEF Fragile
  <1>11. Aggressive(x, Top(Spy(x).price)) => Aggressive(m, Top(Spy(m).price))
    BY <1>1, <1>3, <1>5, <1>8 DEF Aggressive
  <1> QED BY <1>4, <1>9, <1>10, <1>11

\* The regime an evaluation of a market would classify it as.
RegimeOf(m) == Classify(m, Top(Spy(m).price), LockOf(m), FALSE)

-----------------------------------------------------------------------------
(* The equity in a worse market                                            *)

Cleared(m) == {s \in Sectors : ClearsHurdle(m, s)}
Two(S) == \E a, b \in S : a # b

\* Momentum picks one or two sectors if that many clear the hurdle.
LEMMA PickedSectors ==
    ASSUME NEW m, IsMarket(m)
    PROVE  /\ Cardinality(TopSectors(m, 1)) = IF Cleared(m) = {} THEN 0 ELSE 1
           /\ Cardinality(TopSectors(m, 2)) = IF Cleared(m) = {} THEN 0
                                              ELSE IF Two(Cleared(m)) THEN 2 ELSE 1
  <1> DEFINE before(s) == {t \in Cleared(m) : RanksBefore(m, t, s)}
  <1>1. /\ \A s : s \in TopSectors(m, 1) <=> s \in Cleared(m) /\ Cardinality(before(s)) < 1
        /\ \A s : s \in TopSectors(m, 2) <=> s \in Cleared(m) /\ Cardinality(before(s)) < 2
        /\ Cleared(m) \subseteq Sectors
    BY DEF TopSectors, Cleared
  <1>2. Cardinality({}) = 0 /\ \A a : Cardinality({a}) = 1
    BY FS_EmptySet, FS_Singleton
  <1>3. CASE Cleared(m) = {}
    BY <1>1, <1>2, <1>3
  <1>4. CASE Cleared(m) # {}
    <2>1. PICK a \in Cleared(m) : \A t \in Cleared(m) \ {a} : RanksBefore(m, a, t)
      BY <1>1, <1>4, SomeRanksFirst
    <2>2. before(a) = {}
      <3>1. \A t \in Cleared(m) : ~ RanksBefore(m, t, a)
        BY <1>1, <2>1, RanksOrder
      <3> QED BY <3>1
    <2> HIDE DEF before
    <2>3. a \in TopSectors(m, 1) /\ a \in TopSectors(m, 2)
      BY <1>1, <1>2, <2>1, <2>2
    <2>4. Cardinality(TopSectors(m, 1)) = 1
      BY <1>2, <2>3, TopOne
    <2>5. CASE Two(Cleared(m))
      <3>1. Cleared(m) \ {a} # {} /\ Cleared(m) \ {a} \subseteq Sectors
        BY <1>1, <2>5 DEF Two
      <3>2. PICK b \in Cleared(m) \ {a} : \A t \in (Cleared(m) \ {a}) \ {b} : RanksBefore(m, b, t)
        BY <3>1, SomeRanksFirst
      <3>3. before(b) = {a}
        <4>1. \A t \in Cleared(m) : RanksBefore(m, t, b) => t = a
          BY <1>1, <3>2, RanksOrder
        <4> QED BY <2>1, <3>2, <4>1 DEF before
      <3>4. b \in TopSectors(m, 2) /\ a # b
        <4>1. Cardinality(before(b)) = 1
          BY <1>2, <3>3
        <4> QED BY <1>1, <3>2, <4>1
      <3>5. PICK p, q \in Sectors : p # q /\ TopSectors(m, 2) = {p, q}
        BY <2>3, <3>4, TopTwo
      <3>6. Cardinality(TopSectors(m, 2)) = 2
        <4>1. Cardinality({p, q}) = 2
          BY <3>5, PairSize
        <4> QED BY <3>5, <4>1
      <3> QED BY <1>4, <2>4, <2>5, <3>6
    <2>6. CASE ~ Two(Cleared(m))
      <3>1. TopSectors(m, 2) = {a}
        BY <1>1, <2>3, <2>6 DEF Two
      <3> QED BY <1>2, <1>4, <2>4, <2>6, <3>1
    <2> QED BY <2>5, <2>6
  <1> QED BY <1>3, <1>4

LEMMA ClearedShrink ==
    ASSUME NEW x, NEW m, NoBetter(x, m)
    PROVE  Cleared(x) \subseteq Cleared(m)
  <1>1. \A s : Momentum(x, s) = Momentum(m, s)
    BY DEF NoBetter, Momentum
  <1> QED BY <1>1 DEF NoBetter, Cleared, ClearsHurdle

LEMMA PercentFalls ==
    ASSUME TrackerTypeOK, NEW x, NEW m, NoBetter(x, m)
    PROVE  /\ RegimeOf(x) \in Regimes /\ RegimeOf(m) \in Regimes
           /\ Percent(x, RegimeOf(x)) \in Nat /\ Percent(m, RegimeOf(m)) \in Nat
           /\ Percent(x, RegimeOf(x)) <= Percent(m, RegimeOf(m))
  <1> DEFINE c(y) == Crisis(y, Top(Spy(y).price))
             f(y) == Fragile(y, Top(Spy(y).price), LockOf(y))
             a(y) == Aggressive(y, Top(Spy(y).price))
             one(y) == Cardinality(TopSectors(y, 1))
             two(y) == Cardinality(TopSectors(y, 2))
  <1>1. (c(m) => c(x)) /\ (f(m) => f(x)) /\ (a(x) => a(m))
    BY SignalsWorsen
  <1>2. /\ one(x) \in 0..1 /\ one(m) \in 0..1 /\ two(x) \in 0..2 /\ two(m) \in 0..2
        /\ one(x) <= one(m) /\ two(x) <= two(m) /\ one(m) <= two(m)
    <2>1. Cleared(x) \subseteq Cleared(m) /\ (Two(Cleared(x)) => Two(Cleared(m)))
      BY ClearedShrink DEF Two
    <2>2. IsMarket(x) /\ IsMarket(m)
      BY DEF NoBetter
    <2> QED BY <2>1, <2>2, PickedSectors
  <1>3. \A y : RegimeOf(y) = IF c(y) THEN "BEAR_CRISIS" ELSE IF f(y) THEN "CORRECTION_FRAGILE"
                             ELSE IF a(y) THEN "BULL_AGGRESSIVE" ELSE "BULL_NORMAL"
    BY DEF RegimeOf, Classify
  <1>4. \A y, r : Percent(y, r) = IF r = "BULL_AGGRESSIVE" THEN 70 + 15 * two(y)
                                  ELSE IF r = "BULL_NORMAL" THEN 60 + 20 * one(y)
                                  ELSE IF r = "CORRECTION_FRAGILE" THEN 20 ELSE 0
    BY DEF Percent
  <1> HIDE DEF c, f, a, one, two
  <1> QED BY <1>1, <1>2, <1>3, <1>4 DEF Regimes

\* Products of smaller factors are smaller.
LEMMA ProductFalls ==
    ASSUME NEW a \in Nat, NEW b \in Nat, NEW c \in Nat, NEW d \in Nat, a <= c, b <= d
    PROVE  a * b \in Nat /\ c * d \in Nat /\ a * b <= c * d
  <1>1. a * b <= c * b
    BY SMT
  <1>2. c * b <= c * d
    BY SMT
  <1> QED BY <1>1, <1>2, SMT

\* Dividing by more gives less.
LEMMA QuotientFalls ==
    ASSUME NEW v \in Nat \ {0}, NEW w \in Nat, v <= w
    PROVE  1200 \div w <= 1200 \div v /\ 1200 \div w \in Nat /\ 1200 \div v \in Nat
  <1>1. PICK q \in Nat : q = 1200 \div w /\ q * w <= 1200
    BY SMT
  <1>2. q * v <= 1200
    <2>1. q * v \in Nat /\ q * w \in Nat /\ q * v <= q * w
      BY ProductFalls
    <2> QED BY <1>1, <2>1
  <1>3. q <= 1200 \div v
    BY <1>2, SMT
  <1>4. 1200 \div v \in Nat
    BY SMT
  <1> QED BY <1>1, <1>3, <1>4

LEMMA VolScaleFalls ==
    ASSUME NEW x, NEW m, NoBetter(x, m)
    PROVE  VolScale(x.vol) <= VolScale(m.vol)
  <1>1. m.vol \in Nat /\ x.vol \in Nat /\ m.vol <= x.vol
    BY DEF NoBetter, IsMarket
  <1>2. /\ Greater(m.vol, 5) \in Nat \ {0} /\ Greater(x.vol, 5) \in Nat
        /\ Greater(m.vol, 5) <= Greater(x.vol, 5)
    BY <1>1 DEF Greater
  <1>3. /\ 1200 \div Greater(x.vol, 5) <= 1200 \div Greater(m.vol, 5)
        /\ 1200 \div Greater(x.vol, 5) \in Nat /\ 1200 \div Greater(m.vol, 5) \in Nat
    BY <1>2, QuotientFalls
  <1> QED BY <1>3 DEF VolScale, Lesser

LEMMA RiskFalls ==
    ASSUME TrackerTypeOK, NEW x, NEW m, NoBetter(x, m)
    PROVE  Risk(x, GateOf(x)) <= Risk(m, GateOf(m))
  <1>1. VolScale(x.vol) <= VolScale(m.vol) /\ VolScale(x.vol) \in Nat /\ VolScale(m.vol) \in Nat
    <2>1. m.vol \in Nat /\ x.vol \in Nat
      BY DEF NoBetter, IsMarket
    <2>2. VolScale(x.vol) \in 0..100 /\ VolScale(m.vol) \in 0..100
      BY <2>1, VolScaleRange
    <2> QED BY <2>2, VolScaleFalls
  <1>2. GateOf(x) \in Nat /\ GateOf(m) \in Nat /\ GateOf(x) <= GateOf(m)
    BY GateFalls DEF Gates
  <1>3. PICK n, k : n = VolScale(x.vol) * GateOf(x) /\ k = VolScale(m.vol) * GateOf(m)
    OBVIOUS
  <1>4. n \in Nat /\ k \in Nat /\ n <= k
    BY <1>1, <1>2, <1>3, ProductFalls
  <1>5. BandBroken(m) => BandBroken(x)
    BY SignalsWorsen
  <1>6. /\ Risk(x, GateOf(x)) = IF BandBroken(x) THEN Lesser(n, 5000) ELSE n
        /\ Risk(m, GateOf(m)) = IF BandBroken(m) THEN Lesser(k, 5000) ELSE k
    BY <1>3 DEF Risk
  <1> QED BY <1>4, <1>5, <1>6 DEF Lesser

\* The equity an evaluation would decide on is a product of two factors.
LEMMA EquityIsProduct ==
    ASSUME TrackerTypeOK, NEW m, IsMarket(m)
    PROVE  /\ EquityOf(m, FALSE) = Percent(m, RegimeOf(m)) * Risk(m, GateOf(m))
           /\ EquityOf(m, TRUE) = 0
           /\ RegimeOf(m) \in Regimes /\ GateOf(m) \in Gates
  <1>0. /\ EquityOf(m, FALSE) = Total(Weights(m, RegimeOf(m), GateOf(m)), Sectors \cup Funds)
        /\ EquityOf(m, TRUE)
             = Total(Weights(m, "STALE_DATA_HOLD", GateOf(m)), Sectors \cup Funds)
    BY DEF EquityOf, RegimeOf, GateOf, LockOf, Raw, Confirmed, Top, Decide, Classify, Funds
  <1>1. NoBetter(m, m)
    BY DEF NoBetter, IsMarket, Trends
  <1>2. RegimeOf(m) \in Regimes /\ GateOf(m) \in Gates /\ "STALE_DATA_HOLD" \in Regimes
    BY <1>1, PercentFalls, GateFalls DEF Regimes
  <1>3. /\ EquityOf(m, FALSE) = Percent(m, RegimeOf(m)) * Risk(m, GateOf(m))
        /\ EquityOf(m, TRUE) = Percent(m, "STALE_DATA_HOLD") * Risk(m, GateOf(m))
    BY <1>0, <1>2, DecidedWeights
  <1>4. Percent(m, "STALE_DATA_HOLD") * Risk(m, GateOf(m)) = 0
    <2>1. PICK r : r = Risk(m, GateOf(m))
      OBVIOUS
    <2>2. r \in Nat
      BY <1>2, <2>1, RiskType
    <2>3. 0 * r = 0 /\ Percent(m, "STALE_DATA_HOLD") = 0
      BY <2>2 DEF Percent
    <2> QED BY <2>1, <2>3
  <1> QED BY <1>2, <1>3, <1>4

\* Nothing better, no more equity: whatever the tracker remembers.
LEMMA EquityFalls ==
    ASSUME TrackerTypeOK, NEW x, NEW m, NoBetter(x, m)
    PROVE  EquityOf(x, FALSE) <= EquityOf(m, FALSE)
  <1>1. IsMarket(x) /\ IsMarket(m)
    BY DEF NoBetter
  <1>2. PICK p, q, r, k : /\ p = Percent(x, RegimeOf(x)) /\ q = Percent(m, RegimeOf(m))
                          /\ r = Risk(x, GateOf(x)) /\ k = Risk(m, GateOf(m))
    OBVIOUS
  <1>3. p \in Nat /\ q \in Nat /\ p <= q
    BY <1>2, PercentFalls
  <1>4. r \in Nat /\ k \in Nat /\ r <= k
    BY <1>1, <1>2, RiskType, GateFalls, RiskFalls
  <1>5. p * r <= q * k
    BY <1>3, <1>4, ProductFalls
  <1> QED BY <1>1, <1>2, <1>5, EquityIsProduct

-----------------------------------------------------------------------------
(* The worsenings of a market                                              *)

\* A fund's price falls.
LEMMA PriceFalls ==
    ASSUME NEW m, IsMarket(m), NEW i \in DOMAIN m.index,
           NEW p \in Nat \ {0}, p <= m.index[i].price,
           NEW x, x = [m EXCEPT !.index[i].price = p]
    PROVE  NoBetter(x, m)
  <1>1. m \in [index : [DOMAIN m.index -> Trends], atr : Nat, vol : Nat,
               assets : [DOMAIN m.assets -> Assets]]
    BY DEF IsMarket
  <1> DEFINE t == [m.index[i] EXCEPT !.price = p]
             moved == [m.index EXCEPT ![i] = t]
  <1>2. /\ x.index = moved /\ x.atr = m.atr /\ x.vol = m.vol /\ x.assets = m.assets
        /\ x = [index |-> moved, atr |-> m.atr, vol |-> m.vol, assets |-> m.assets]
    BY <1>1
  <1>3. /\ t \in Trends /\ t.price = p
        /\ t.sma50 = m.index[i].sma50 /\ t.sma200 = m.index[i].sma200
    BY <1>1 DEF Trends
  <1> HIDE DEF t
  <1>4. /\ moved \in [DOMAIN m.index -> Trends] /\ DOMAIN moved = DOMAIN m.index
        /\ \A j \in DOMAIN m.index : moved[j] = IF j = i THEN t ELSE m.index[j]
    BY <1>1, <1>3
  <1> HIDE DEF moved
  <1>5. IsMarket(x)
    BY <1>1, <1>2, <1>4 DEF IsMarket
  <1>6. \A j \in DOMAIN m.index :
          /\ x.index[j].price <= m.index[j].price
          /\ x.index[j].sma50 = m.index[j].sma50 /\ x.index[j].sma200 = m.index[j].sma200
    BY <1>1, <1>2, <1>3, <1>4 DEF Trends
  <1> QED BY <1>1, <1>2, <1>4, <1>5, <1>6 DEF NoBetter

\* A sector or a haven falls below one of its averages.
LEMMA AssetFalls ==
    ASSUME NEW m, IsMarket(m), NEW s \in DOMAIN m.assets,
           NEW a \in Assets, a.momentum = m.assets[s].momentum,
           a.above50 => m.assets[s].above50, a.above200 => m.assets[s].above200,
           NEW x, x = [m EXCEPT !.assets[s] = a]
    PROVE  NoBetter(x, m)
  <1>1. m \in [index : [DOMAIN m.index -> Trends], atr : Nat, vol : Nat,
               assets : [DOMAIN m.assets -> Assets]]
    BY DEF IsMarket
  <1> DEFINE moved == [m.assets EXCEPT ![s] = a]
  <1>2. /\ x.index = m.index /\ x.atr = m.atr /\ x.vol = m.vol /\ x.assets = moved
        /\ x = [index |-> m.index, atr |-> m.atr, vol |-> m.vol, assets |-> moved]
    BY <1>1
  <1>3. /\ moved \in [DOMAIN m.assets -> Assets] /\ DOMAIN moved = DOMAIN m.assets
        /\ \A j \in DOMAIN m.assets : moved[j] = IF j = s THEN a ELSE m.assets[j]
    BY <1>1
  <1> HIDE DEF moved
  <1>4. IsMarket(x)
    BY <1>1, <1>2, <1>3 DEF IsMarket
  <1>5. \A j \in DOMAIN m.index : m.index[j].price \in Nat
    BY <1>1 DEF Trends
  <1> QED BY <1>1, <1>2, <1>3, <1>4, <1>5 DEF NoBetter

LEMMA WorseningIsNoBetter ==
    ASSUME NEW m \in Markets, NEW x \in Worsenings(m)
    PROVE  NoBetter(x, m)
  <1>1. IsMarket(m) /\ "SPY" \in DOMAIN m.index
    BY MarketsAre DEF IsMarket
  <1>2. ASSUME NEW p \in Prices, p < Spy(m).price, x = [m EXCEPT !.index["SPY"].price = p]
        PROVE  NoBetter(x, m)
    <2>1. p \in Nat \ {0}
      BY StrategyAssumption DEF Prices, Spy, IsMarket, Trends
    <2>2. m.index["SPY"].price \in Nat
      BY <1>1 DEF IsMarket, Trends
    <2>3. p <= m.index["SPY"].price
      BY <1>2, <2>1, <2>2 DEF Spy
    <2> QED BY <1>1, <1>2, <2>1, <2>3, PriceFalls
  <1>3. ASSUME NEW v \in Vols, v > m.vol, x = [m EXCEPT !.vol = v]
        PROVE  NoBetter(x, m)
    <2>1. v \in Nat
      BY StrategyAssumption DEF Vols, IsMarket
    <2>2. m \in [index : [DOMAIN m.index -> Trends], atr : Nat, vol : Nat,
                 assets : [DOMAIN m.assets -> Assets]]
      BY <1>1 DEF IsMarket
    <2>3. /\ x.index = m.index /\ x.atr = m.atr /\ x.vol = v /\ x.assets = m.assets
          /\ x = [index |-> m.index, atr |-> m.atr, vol |-> v, assets |-> m.assets]
      BY <1>3, <2>2
    <2>4. IsMarket(x)
      BY <1>1, <2>1, <2>2, <2>3 DEF IsMarket
    <2>5. \A j \in DOMAIN m.index : m.index[j].price \in Nat
      BY <2>2 DEF Trends
    <2> QED BY <1>1, <1>3, <2>1, <2>2, <2>3, <2>4, <2>5 DEF NoBetter
  <1>4. ASSUME NEW i \in DOMAIN m.index \ {"SPY"}, x = [m EXCEPT !.index[i].price = 1]
        PROVE  NoBetter(x, m)
    <2>1. m.index[i].price \in Nat \ {0}
      BY <1>1 DEF IsMarket, Trends
    <2>2. 1 \in Nat \ {0} /\ 1 <= m.index[i].price
      BY <2>1
    <2> QED BY <1>1, <1>4, <2>2, PriceFalls
  <1>5. ASSUME NEW s \in DOMAIN m.assets, x = [m EXCEPT !.assets[s].above50 = FALSE]
        PROVE  NoBetter(x, m)
    <2> DEFINE a == [m.assets[s] EXCEPT !.above50 = FALSE]
    <2>1. m.assets[s] \in Assets
      BY <1>1 DEF IsMarket
    <2>2. /\ a \in Assets /\ a.momentum = m.assets[s].momentum
          /\ ~ a.above50 /\ a.above200 = m.assets[s].above200
      BY <2>1 DEF Assets
    <2>3. x = [m EXCEPT !.assets[s] = a]
      BY <1>5
    <2> HIDE DEF a
    <2> QED BY <1>1, <2>2, <2>3, AssetFalls
  <1>6. ASSUME NEW s \in DOMAIN m.assets, x = [m EXCEPT !.assets[s].above200 = FALSE]
        PROVE  NoBetter(x, m)
    <2> DEFINE a == [m.assets[s] EXCEPT !.above200 = FALSE]
    <2>1. m.assets[s] \in Assets
      BY <1>1 DEF IsMarket
    <2>2. /\ a \in Assets /\ a.momentum = m.assets[s].momentum
          /\ a.above50 = m.assets[s].above50 /\ ~ a.above200
      BY <2>1 DEF Assets
    <2>3. x = [m EXCEPT !.assets[s] = a]
      BY <1>6
    <2> HIDE DEF a
    <2> QED BY <1>1, <2>2, <2>3, AssetFalls
  <1> QED BY <1>2, <1>3, <1>4, <1>5, <1>6 DEF Worsenings

LEMMA WorseHoldsLess == StrategyInv => WorseIsNeverRiskier
  <1> SUFFICES ASSUME StrategyInv, phase = "day"
               PROVE  /\ EquityOf(market, TRUE) <= EquityOf(market, FALSE)
                      /\ \A worse \in Worsenings(market) :
                           EquityOf(worse, FALSE) <= EquityOf(market, FALSE)
    BY DEF WorseIsNeverRiskier
  <1>1. market \in Markets /\ TrackerTypeOK /\ IsMarket(market)
    BY MarketsAre DEF StrategyInv, TrackerInv, MarketKnown
  <1>2. \A worse \in Worsenings(market) : EquityOf(worse, FALSE) <= EquityOf(market, FALSE)
    BY <1>1, WorseningIsNoBetter, EquityFalls
  <1>3. PICK e : e = Percent(market, RegimeOf(market)) * Risk(market, GateOf(market))
    OBVIOUS
  <1>4. e = EquityOf(market, FALSE) /\ EquityOf(market, TRUE) = 0
    BY <1>1, <1>3, EquityIsProduct
  <1>5. e \in Nat
    <2>1. RegimeOf(market) \in Regimes /\ GateOf(market) \in Gates
      BY <1>1, EquityIsProduct
    <2> QED BY <1>1, <1>3, <2>1, CapitalIsLeft
  <1>6. EquityOf(market, TRUE) <= EquityOf(market, FALSE)
    <2>1. 0 <= e
      BY <1>5
    <2> QED BY <1>4, <2>1, Zenon
  <1> QED BY <1>2, <1>6

-----------------------------------------------------------------------------
\* The invariant holds in every reachable state.
THEOREM StrategyInvariant == Spec => []StrategyInv
  BY InitInv, NextInv, PTL DEF Spec

\* LockoutIffCut: a cut never outlives its lockout nor a lockout its cut,
\* whatever the markets and the number of recovery days.
THEOREM LockoutMatchesGate == Spec => []LockoutIffCut
<1>1. StrategyInv => LockoutIffCut
  BY DEF StrategyInv, TrackerInv
<1> QED
  BY <1>1, StrategyInvariant, PTL

\* ReentryIsConfirmed: equity comes back only after RecoveryDays evaluations
\* in a row above the average, in every behaviour; of days it speaks only where
\* none is evaluated twice.
THEOREM ReentryConfirmed == Spec => ReentryIsConfirmed
<1>1. StrategyInv /\ [Next]_vars =>
        [gate' > gate => peak' = 0 \/ \A i \in 1..RecoveryDays : window'[i]]_vars
  BY NextConfirms
<1> QED
  BY <1>1, StrategyInvariant, PTL DEF Spec, ReentryIsConfirmed

\* While equity is cut, no bull allocation is in force: the tracker, the
\* classifier and the day's decision agree.
THEOREM CutNeverMeetsBull == Spec => []NoBullInCut
<1>1. StrategyInv => NoBullInCut
  BY DEF StrategyInv
<1> QED
  BY <1>1, StrategyInvariant, PTL

\* The decision is what the rules give for the day, in every reachable state.
LEMMA DecisionInvariant == Spec => []WeightsInv
<1>1. Init => WeightsInv
  BY InitInv, DecisionInit DEF WeightsInv
<1>2. WeightsInv /\ [Next]_vars => WeightsInv'
  BY NextInv, DecisionNext DEF WeightsInv
<1> QED
  BY <1>1, <1>2, PTL DEF Spec

\* TypeOK: among the rest, no weight of a decision leaves 0 to the whole capital.
THEOREM StrategyTypeCorrect == Spec => []TypeOK
<1>1. WeightsInv => TypeOK
  BY TypesHold DEF WeightsInv
<1> QED
  BY <1>1, DecisionInvariant, PTL

\* WeightsSpendTheCapital: the weights of every decision are not negative and add
\* up to the capital exactly, for any sectors, momenta, volatility and drawdown.
THEOREM DecisionsSpendTheCapital == Spec => []WeightsSpendTheCapital
<1>1. WeightsInv => WeightsSpendTheCapital
  BY SpendsTheCapital DEF WeightsInv
<1> QED
  BY <1>1, DecisionInvariant, PTL

\* CutHoldsEquityDown: while the defence cuts, a decision holds no bull
\* allocation and at most a fifth of what the gate lets through.
THEOREM CutsHoldEquityDown == Spec => []CutHoldsEquityDown
<1>1. WeightsInv => CutHoldsEquityDown
  BY HoldsEquityDown DEF WeightsInv
<1> QED
  BY <1>1, DecisionInvariant, PTL

\* WorseIsNeverRiskier: whatever the tracker remembers, a day that is worse in one
\* respect, or whose data is stale, makes the evaluation hold no more equity;
\* for any markets, sectors and number of recovery days.
THEOREM WorseHoldsNoMore == Spec => []WorseIsNeverRiskier
<1>1. StrategyInv => WorseIsNeverRiskier
  BY WorseHoldsLess
<1> QED
  BY <1>1, StrategyInvariant, PTL
=============================================================================

--------------------------- MODULE DailyStrategy ---------------------------
(***************************************************************************)
(* What a daily evaluation decides (bot/service.py:437-454): the signals   *)
(* and the drawdown defence, the regime they add up to, and the weights    *)
(* the allocation rules give it.  A day is evaluated at the close and      *)
(* again at every press of the operator, each time with the same bars; it  *)
(* is not evaluated at all when the bot is paused or the feed is down.     *)
(* What is then traded and remembered is StrategyService.                  *)
(*                                                                         *)
(* A day's market holds what the indicators read out of the bars: prices,  *)
(* averages, the average true range, volatility and momentum in percent,   *)
(* of the symbols that have bars.  Weights count millionths.               *)
(***************************************************************************)
EXTENDS DrawdownDefense, FiniteSets, Functions

CONSTANTS Sectors,       \* SECTOR_ETFS
          Defensives,    \* DEFENSIVE_SECTORS
          Alphabetical,  \* the place of a sector's ticker in the alphabet
          Markets        \* the markets a day may bring

\* What the bars say of an index fund and of a sector or haven, and of all
\* that have bars: SPY always does.
Trends == [price : Nat \ {0}, sma50 : Nat, sma200 : Nat]
Assets == [momentum : Int, above50 : BOOLEAN, above200 : BOOLEAN]

IsMarket(m) ==
    /\ m \in [index : [DOMAIN m.index -> Trends], atr : Nat, vol : Nat,
              assets : [DOMAIN m.assets -> Assets]]
    /\ DOMAIN m.index \in {{"SPY"}, {"SPY", "QQQ"}}

ASSUME StrategyAssumption ==
    /\ IsFiniteSet(Sectors) /\ Defensives \subseteq Sectors /\ Defensives # {}
    /\ Sectors \cap {"SPY", "QQQ", "TLT", "GLD", "SHV"} = {}
    /\ Alphabetical \in [Sectors -> Nat]
    /\ \A s, t \in Sectors : Alphabetical[s] = Alphabetical[t] => s = t
    /\ \A m \in Markets : IsMarket(m)

VARIABLES phase,     \* "night", "day" with bars for it, "decided"
          market,    \* the bars of the day
          decision   \* the day's last allocation

vars == <<tracker, phase, market, decision>>

One == 1000000
Symbols == Sectors \cup {"SPY", "QQQ", "TLT", "GLD", "SHV"}
Regimes == {"BULL_AGGRESSIVE", "BULL_NORMAL", "CORRECTION_FRAGILE", "BEAR_CRISIS", "STALE_DATA_HOLD"}
NoMarket == [none |-> TRUE]
NoDecision == [regime |-> "STALE_DATA_HOLD", weights |-> [s \in Symbols |-> 0]]

Total(weights, symbols) == SumFunctionOnSet(weights, symbols)

-----------------------------------------------------------------------------
(* Signals (signals/indicators.py, core/math_utils.py)                     *)

Spy(m) == m.index["SPY"]
Qqq(m) == IF "QQQ" \in DOMAIN m.index THEN m.index["QQQ"] ELSE Spy(m)

Above50(trend) == trend.price > trend.sma50
Above200(trend) == trend.price > trend.sma200
Golden(trend) == trend.sma50 > trend.sma200

\* check_circuit_breaker: the close fell through the lower Keltner band.
BandBroken(m) == Spy(m).price < Spy(m).sma50 - 2 * m.atr

\* volatility_scale_factor, in percent
VolScale(vol) == Lesser(100, 1200 \div Greater(vol, 5))

\* compute_market_breadth, as the counts it divides.  Without a sector that
\* has bars the two index funds stand in.  (The code asks for a sector's key
\* (regime_detector.py:235); a key with no bars makes its breadth 100 %.  The
\* funds' is 100 %, too, unless one is below its average, which alone is fragile.)
Breadth(m) ==
    LET seen == Sectors \cap DOMAIN m.assets
        above == IF seen # {} THEN {s \in seen : m.assets[s].above50}
                 ELSE {i \in DOMAIN m.index : Above50(m.index[i])}
    IN [above |-> Cardinality(above),
        all |-> Cardinality(IF seen # {} THEN seen ELSE DOMAIN m.index)]

Broad(m, percent) == 100 * Breadth(m).above >= percent * Breadth(m).all

-----------------------------------------------------------------------------
(* Regime (signals/regime_detector.py)                                     *)

Crisis(m, top) ==
    \/ BandBroken(m)
    \/ Down(top, Spy(m).price, 10)
    \/ m.vol > 30
    \/ ~Above200(Spy(m)) /\ (~Golden(Spy(m)) \/ m.vol > 22)

\* Mutant: the lockout does not hold the regime down.
FragileUnlocked(m, top, locked) ==
    \/ ~Above50(Spy(m)) \/ ~Above50(Qqq(m))
    \/ m.vol > 22
    \/ Down(top, Spy(m).price, 5)
    \/ ~Broad(m, 40)

Fragile(m, top, locked) ==
    \/ ~Above50(Spy(m)) \/ ~Above50(Qqq(m))
    \/ m.vol > 22
    \/ Down(top, Spy(m).price, 5) \/ locked
    \/ ~Broad(m, 40)

Aggressive(m, top) ==
    /\ \A t \in {Spy(m), Qqq(m)} : Above50(t) /\ Golden(t)
    /\ m.vol <= 14
    /\ Broad(m, 60)
    /\ ~Down(top, Spy(m).price, 5)

\* classify, and the override of a feed on hold
Classify(m, top, locked, stale) ==
    IF stale THEN "STALE_DATA_HOLD"
    ELSE IF Crisis(m, top) THEN "BEAR_CRISIS"
    ELSE IF Fragile(m, top, locked) THEN "CORRECTION_FRAGILE"
    ELSE IF Aggressive(m, top) THEN "BULL_AGGRESSIVE"
    ELSE "BULL_NORMAL"

-----------------------------------------------------------------------------
(* Momentum (signals/momentum.py)                                          *)

Momentum(m, s) == IF s \in DOMAIN m.assets THEN m.assets[s].momentum ELSE 0

\* rank_momentum_candidates: by momentum, ties by ticker.
RanksBefore(m, a, b) ==
    \/ Momentum(m, a) > Momentum(m, b)
    \/ Momentum(m, a) = Momentum(m, b) /\ Alphabetical[a] < Alphabetical[b]

\* evaluate_absolute_momentum
ClearsHurdle(m, s) ==
    s \in DOMAIN m.assets /\ m.assets[s].above200 /\ Momentum(m, s) > Momentum(m, "SHV")

\* Mutant: without a sector that clears the hurdle, all of them are ranked.
TopSectorsDefaulted(m, n) ==
    LET cleared == {s \in Sectors : ClearsHurdle(m, s)}
        pool == IF cleared = {} THEN Sectors ELSE cleared
    IN {s \in pool : Cardinality({t \in pool : RanksBefore(m, t, s)}) < n}

\* select_top_sectors
TopSectors(m, n) ==
    LET cleared == {s \in Sectors : ClearsHurdle(m, s)}
    IN {s \in cleared : Cardinality({t \in cleared : RanksBefore(m, t, s)}) < n}

\* evaluate_safe_haven_qualification
Qualifies(m, s) == s \in DOMAIN m.assets /\ m.assets[s].above200 /\ Momentum(m, s) > 0

BestDefensive(m) ==
    CHOOSE s \in Defensives : \A t \in Defensives \ {s} : RanksBefore(m, s, t)

\* Mutant: a haven that does not qualify leaves its share to the other one.
HavensGreedy(m, capital) ==
    LET share(s) == IF Qualifies(m, s) THEN (2 * capital) \div 5 ELSE 0
    IN [s \in {"TLT", "GLD", "SHV"} |-> IF s = "SHV" THEN capital - share("TLT") ELSE share(s)]

\* compute_safe_haven_weights
Havens(m, capital) ==
    LET share(s) == IF Qualifies(m, s) THEN (2 * capital) \div 5 ELSE 0
    IN [s \in {"TLT", "GLD", "SHV"} |->
          IF s = "SHV" THEN capital - share("TLT") - share("GLD") ELSE share(s)]

-----------------------------------------------------------------------------
(* Allocation (allocator/rules.py)                                         *)

\* The sectors a regime holds, and the equity it holds in percent of the
\* capital before the risk overlays.
Held(m, regime) ==
    CASE regime = "BULL_AGGRESSIVE" -> TopSectors(m, 2)
      [] regime = "BULL_NORMAL" -> TopSectors(m, 1)
      [] regime = "CORRECTION_FRAGILE" -> {BestDefensive(m)}
      [] OTHER -> {}

SectorShare(regime) == IF regime = "BULL_AGGRESSIVE" THEN 15 ELSE 20

Base(m, regime) ==
    [s \in Sectors \cup {"SPY", "QQQ"} |->
       CASE s \in Held(m, regime) -> SectorShare(regime)
         [] s = "QQQ" /\ regime = "BULL_AGGRESSIVE" -> 50
         [] s = "SPY" /\ regime = "BULL_AGGRESSIVE" -> 20
         [] s = "QQQ" /\ regime = "BULL_NORMAL" -> 35
         [] s = "SPY" /\ regime = "BULL_NORMAL" -> 25
         [] OTHER -> 0]

\* The percent of cash a bull regime puts in the place of a missing leader.
Reserve(m, regime) ==
    CASE regime = "BULL_AGGRESSIVE" -> 15 * (2 - Cardinality(TopSectors(m, 2)))
      [] regime = "BULL_NORMAL" -> 20 * (1 - Cardinality(TopSectors(m, 1)))
      [] OTHER -> 0

\* m_risk in ten-thousandths, for a gate that lets open percent through
Risk(m, open) ==
    LET scaled == VolScale(m.vol) * open IN IF BandBroken(m) THEN Lesser(scaled, 5000) ELSE scaled

\* compute_deterministic_allocation before normalisation, which divides by a
\* total of one (WeightsSpendTheCapital) and drops what is zero.
Weights(m, regime, open) ==
    LET equity == [s \in Sectors \cup {"SPY", "QQQ"} |-> Base(m, regime)[s] * Risk(m, open)]
        reserve == Reserve(m, regime) * 10000
        havens == Havens(m, One - Total(equity, DOMAIN equity) - reserve)
    IN IF regime = "STALE_DATA_HOLD" THEN [s \in Symbols |-> IF s = "SHV" THEN One ELSE 0]
       ELSE [s \in Symbols |->
               IF s \in DOMAIN equity THEN equity[s]
               ELSE havens[s] + (IF s = "SHV" THEN reserve ELSE 0)]

\* What an evaluation decides, with the tracker's values after its update.
Decide(m, top, open, locked, stale) ==
    LET regime == Classify(m, top, locked, stale)
    IN [regime |-> regime, weights |-> Weights(m, regime, open)]

-----------------------------------------------------------------------------
TypeOK ==
    /\ TrackerTypeOK
    /\ phase \in {"night", "day", "decided"}
    /\ market \in Markets \cup {NoMarket}
    /\ decision.regime \in Regimes
    /\ decision.weights \in [Symbols -> 0..One]

Init ==
    /\ FreshTracker
    /\ phase = "night" /\ market = NoMarket /\ decision = NoDecision

\* The bars of a new day.
NewDay(m) ==
    /\ phase = "night"
    /\ phase' = "day" /\ market' = m
    /\ UNCHANGED <<tracker, decision>>

\* The close or a press of the operator evaluates the day, a press again.
Evaluate(stale) ==
    /\ phase \in {"day", "decided"}
    /\ Update(Spy(market).price, Above50(Spy(market)))
    /\ phase' = "decided"
    /\ decision' = Decide(market, peak', gate', lockout', stale)
    /\ UNCHANGED market

\* The day ends, evaluated or skipped.
EndDay ==
    /\ phase \in {"day", "decided"}
    /\ phase' = "night" /\ market' = NoMarket /\ decision' = NoDecision
    /\ UNCHANGED tracker

Restart == Forget /\ UNCHANGED <<phase, market, decision>>

Next ==
    \/ \E m \in Markets : NewDay(m)
    \/ \E stale \in BOOLEAN : Evaluate(stale)
    \/ EndDay
    \/ Restart

Spec == Init /\ [][Next]_vars

\* Days go on, and the bot is not paused or cut off for good.
FairSpec ==
    /\ Spec
    /\ WF_vars(\E m \in Markets : NewDay(m))
    /\ WF_vars(EndDay)
    /\ SF_vars(\E stale \in BOOLEAN : Evaluate(stale))

-----------------------------------------------------------------------------
(* Properties                                                              *)

\* The lockout is on exactly while equity is cut: a cut never outlives its
\* lockout, and no lockout is left on behind an open gate.
LockoutIffCut == lockout <=> gate < 100

\* The gate rises only on an evaluation that closes above the 50-day average
\* like the ones before it, as many as the hysteresis asks for, or in a new
\* process (peak 0).  Evaluations are counted, the scheduler's and those that an
\* operator's rebalances make: they are that many days only if no day among them
\* is evaluated twice.  STRATEGY.md:230 and :282 ask for consecutive trading days,
\* which the code does not keep under repeated requests (known, MEMORY.md:73-74).
ReentryIsConfirmed ==
    [][gate' > gate => peak' = 0 \/ \A i \in 1..RecoveryDays : window'[i]]_vars

\* While the drawdown defence is cutting, no bull allocation is in force and
\* the equity held is at most a fifth of what the gate lets through.
CutHoldsEquityDown ==
    phase = "decided" /\ gate < 100 =>
        /\ decision.regime \notin {"BULL_AGGRESSIVE", "BULL_NORMAL"}
        /\ Total(decision.weights, Sectors \cup {"SPY", "QQQ"}) <= 2000 * gate

\* The weights of every decision spend the capital exactly once, so that
\* normalisation has nothing to correct.
WeightsSpendTheCapital ==
    phase = "decided" =>
        /\ \A s \in Symbols : decision.weights[s] >= 0
        /\ Total(decision.weights, Symbols) = One

Prices == {Spy(m).price : m \in Markets}
Vols == {m.vol : m \in Markets}

\* The day's market with one thing worse.
Worsenings(m) ==
    {[m EXCEPT !.index["SPY"].price = p] : p \in {p \in Prices : p < Spy(m).price}}
    \cup {[m EXCEPT !.vol = v] : v \in {v \in Vols : v > m.vol}}
    \cup {[m EXCEPT !.index[i].price = 1] : i \in DOMAIN m.index \ {"SPY"}}
    \cup {[m EXCEPT !.assets[s].above50 = FALSE] : s \in DOMAIN m.assets}
    \cup {[m EXCEPT !.assets[s].above200 = FALSE] : s \in DOMAIN m.assets}

\* The equity an evaluation of m would decide on now.
EquityOf(m, stale) ==
    LET top == Greater(peak, Spy(m).price)
        raw == RawGate(top, Spy(m).price)
        confirmed == Counted(Above50(Spy(m))) >= RecoveryDays
        choice == Decide(m, top, GateAfter(raw, confirmed), Locked(raw, confirmed), stale)
    IN Total(choice.weights, Sectors \cup {"SPY", "QQQ"})

\* Whatever the tracker remembers, a market that is worse in one respect, or
\* data that turned stale, never makes the evaluation hold more equity.
WorseIsNeverRiskier ==
    phase = "day" =>
        LET held == EquityOf(market, FALSE)
        IN /\ EquityOf(market, TRUE) <= held
           /\ \A worse \in Worsenings(market) : EquityOf(worse, FALSE) <= held

\* A day that closes above the average, near the highest price there is.
FavourableDay ==
    /\ Above50(Spy(market))
    /\ \A price \in Prices : ~Down(price, Spy(market).price, 5)

\* If from some day on every day is favourable, the defence is lifted for
\* good, however often the process restarts.
DefenceLifts == <>[](phase # "night" => FavourableDay) => <>[](gate = 100)
=============================================================================

----------------------------- MODULE Rebalancer -----------------------------
(***************************************************************************)
(* A rebalance from end to end (strategy_engine/allocator/rebalancer.py    *)
(* over bot/paper_account.py, tied together in service.py:541-564): the    *)
(* portfolio is valued at the current prices, its uninvested cash counts   *)
(* as the cash proxy SHV, what drifted beyond the band becomes orders, and *)
(* the ledger works them off.                                              *)
(*                                                                         *)
(* Weights count thousandths and are compared as amounts of money times    *)
(* 1000, so nothing is rounded but the number of lots.  The clamps to      *)
(* [0, 1] are left out: cash is never negative, so no weight leaves it.    *)
(* STALE_DATA_HOLD, which gives no orders, is in StrategyService.  The     *)
(* portfolio is read and the batch begun in one step: what the reset's     *)
(* thread may do in between is in StrategyService, too.                    *)
(***************************************************************************)
EXTENDS PaperLedger

CONSTANTS
    Alphabet,     \* the symbols in the order of their names
    Proxy,        \* SHV
    Band,         \* drift_band
    MinOrder,     \* min_order_threshold
    Targets       \* the weights a decision may ask for

\* From nothing to all of the account, in thousandths.
Shares == 0..1000

ASSUME RebalancerAssumption ==
    /\ Alphabet \in Seq(Symbols) /\ Proxy \in Symbols
    /\ \A s \in Symbols : \E i \in DOMAIN Alphabet : Alphabet[i] = s
    /\ \A i, j \in DOMAIN Alphabet : Alphabet[i] = Alphabet[j] => i = j
    /\ Band \in Shares /\ MinOrder \in Shares
    /\ Targets \subseteq [Symbols -> Shares]

VARIABLE goal     \* observation: what the batch under way is for

rebalanceVars == <<vars, goal>>

NoGoal == [none |-> TRUE]

-----------------------------------------------------------------------------
\* get_portfolio_state: the positions at the current prices
Value(s, p) == table[s].lots * p[s]
Nav(p) == acct.cash + SumFunctionOnSet([s \in Symbols |-> Value(s, p)], Symbols)

\* current_weights: uninvested cash counts as the proxy.
Holding(s, p) == IF s = Proxy THEN Value(s, p) + acct.cash ELSE Value(s, p)

\* delta_weight, in thousandths of money
Drift(target, s, p) == target[s] * Nav(p) - 1000 * Holding(s, p)

Magnitude(n) == IF n < 0 THEN 0 - n ELSE n

\* Mutant: the band is meant for overweight symbols only.
NeedsSale(drift, worth) == drift < 0 - Band * worth /\ drift <= 0 - MinOrder * worth

\* is_drift_exceeded and the floor for micro-orders
NeedsOrder(drift, worth) == Magnitude(drift) > Band * worth /\ Magnitude(drift) >= MinOrder * worth

\* delta_shares rounded to a lot, as the ledger rounds them
OrderFor(target, s, p) ==
    [sym |-> s,
     side |-> IF Drift(target, s, p) > 0 THEN "BUY" ELSE "SELL",
     lots |-> (2 * Magnitude(Drift(target, s, p)) + 1000 * p[s]) \div (2000 * p[s])]

\* compute_rebalance_orders; an account worth nothing gives orders without a size.
RebalanceOrders(target, p) ==
    LET drifted == {i \in DOMAIN Alphabet : NeedsOrder(Drift(target, Alphabet[i], p), Nav(p))}
    IN Sequenced(Pick([i \in DOMAIN Alphabet |-> OrderFor(target, Alphabet[i], p)], drifted))

BeginRebalance ==
    \E target \in Targets, p \in [Symbols -> Prices] :
        /\ BeginBatch(RebalanceOrders(target, p), p)
        /\ goal' = [target |-> target, nav |-> Nav(p)]

\* Any other step; a purge takes the ground from under a batch.
Goes ==
    /\ Next
    /\ goal' = IF phase' = "batch" /\ purges' = purges THEN goal ELSE NoGoal

RebalanceInit == Init /\ goal = NoGoal
RebalanceNext == BeginRebalance \/ Goes
RebalanceSpec == RebalanceInit /\ [][RebalanceNext]_rebalanceVars

-----------------------------------------------------------------------------
\* What a symbol may be off its target and get no order, in thousandths of money
Tolerated == AtLeast(Band, MinOrder) * goal.nav

\* Half a lot is what rounding an order can miss.
Over(s) == 1000 * table'[s].lots * px[s] > goal.target[s] * goal.nav + Tolerated + 500 * px[s]

\* A whole lot more: what is left of a position is deleted when it is a lot.
Under(s) ==
    1000 * table'[s].lots * px[s] < goal.target[s] * goal.nav - Tolerated - 1500 * px[s]

\* But for the cash buffer no more is left than a fee and what a clamped BUY must
\* be worth, or two more lots of s.
Spent(s) ==
    1000 * acct'.cash < Buffer * goal.nav
        + 1000 * (MinFee + AtLeast(MinTicket, 2 * (px[s] + Slip + FeePerLot)))

\* A rebalance that commits reaches its target: no symbol is left above it by
\* more than the drift band (or the floor for micro-orders), and none below it
\* unless the money was spent, however the portfolio stood before, whatever was
\* clamped or passed over, and although cash is traded as the proxy
\* (compute_rebalance_orders with execute_rebalance_orders).  The proxy may be
\* left below: each of the others may stay above by the band, and cash counts as
\* the proxy anyway.
RebalanceReachesTarget ==
    [][phase = "batch" /\ phase' = "idle" /\ goal # NoGoal /\ committed' # committed
        /\ purges' = purges =>
        \A s \in Symbols : ~Over(s) /\ (s # Proxy /\ Under(s) => Spent(s))]_rebalanceVars
=============================================================================

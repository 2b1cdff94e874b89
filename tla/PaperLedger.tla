----------------------------- MODULE PaperLedger -----------------------------
(***************************************************************************)
(* bot/paper_account.py: PaperAccountManager, the SQLite ledger of the     *)
(* paper account.  A batch of orders is worked off one order at a time on  *)
(* copies (the code's cash, pos_dict and open transaction) and committed   *)
(* at the end.  The manager's lock keeps the bot's other threads out; only *)
(* the database lock keeps scripts/reset_pristine_for_monday.py out, and   *)
(* only from the first write on: Python's sqlite3 opens no transaction for *)
(* the SELECTs before it.  The account and its positions are read in one   *)
(* step here.                                                              *)
(*                                                                         *)
(* Quantities are integers: a lot is 0.0001 shares, prices are money per   *)
(* lot.  What the code keeps in doubles and rounds down to a lot is exact  *)
(* here, so the loop that corrects a clamped BUY for rounding never turns; *)
(* the cost that stays after a partial sale is rounded down to a unit.     *)
(***************************************************************************)
EXTENDS Integers, Sequences, FiniteSetsExt

CONSTANTS
    Symbols,
    Prices,         \* prices per lot
    Slip,           \* slippage, as an amount per lot
    MinFee,         \* min_fee_per_order
    FeePerLot,      \* fee_per_share
    Buffer,         \* cash_buffer_pct, in thousandths
    MinTicket,      \* the smallest amount a clamped BUY is worth
    InitialCash,
    Batches,        \* the sequences of orders that may be asked for
    MaxBatches,     \* bound: batches begun
    MaxPurges,      \* bound: runs of the purge script on the bot's file
    StorageFaults   \* whether SQLite calls may raise

Orders == [sym : Symbols, side : {"BUY", "SELL"}, lots : Nat]

\* The entries of b at the positions in I, in their order.
InOrder(I) == CHOOSE f \in [1..Cardinality(I) -> I] : \A j, k \in DOMAIN f : j < k => f[j] < f[k]
Pick(b, I) == [k \in 1..Cardinality(I) |-> b[InOrder(I)[k]]]
OfSide(b, side) == Pick(b, {i \in DOMAIN b : b[i].side = side})

\* Mutant: the BUYs go first, before the SELLs that pay for them.
BuysFirst(b) == OfSide(b, "BUY") \o OfSide(b, "SELL")

\* sequenced_orders: the SELLs first
Sequenced(b) == OfSide(b, "SELL") \o OfSide(b, "BUY")

ASSUME LedgerAssumption ==
    /\ IsFiniteSet(Symbols)
    /\ Prices \subseteq Nat /\ Slip \in Nat /\ \A p \in Prices : Slip < p
    /\ MinFee \in Nat /\ FeePerLot \in Nat
    /\ Buffer \in 0..1000 /\ MinTicket \in Nat /\ InitialCash \in Nat
    /\ Batches \subseteq Seq(Orders)
    /\ MaxBatches \in Nat /\ MaxPurges \in Nat /\ StorageFaults \in BOOLEAN

VARIABLES
    acct,       \* paper_account_state, and sums over paper_trades
    table,      \* paper_positions
    nav,        \* the column total_nav
    phase,      \* who holds the manager's lock: "idle", "batch" or "marks"
    todo,       \* sequenced_orders still to be worked off
    px,         \* current_prices; 0 for a symbol they lack
    work,       \* what the method has read and goes on from: cash, sums, pos_dict
    rows,       \* paper_positions as the open transaction sees it
    open,       \* whether a transaction is open: it has written
    batches, purges

vars == <<acct, table, nav, phase, todo, px, work, rows, open, batches, purges>>
committed == <<acct, table, nav>>

NoPosition == [lots |-> 0, cost |-> 0, price |-> 0]
Empty == [s \in Symbols |-> NoPosition]
NoPrices == [s \in Symbols |-> 0]
\* buyFees: the fees of the BUY trades; dust: what the deleted remainders had cost
Pristine == [cash |-> InitialCash, realized |-> 0, buyFees |-> 0, dust |-> 0]
Unused == [acct |-> Pristine, pos |-> Empty]

Positions == [Symbols -> [lots : Nat, cost : Nat, price : Nat]]
Accounts == [cash : Int, realized : Int, buyFees : Nat, dust : Nat]

\* The tables meet their CHECK constraints; what total_nav is says NavMatchesTable.
TypeOK ==
    /\ acct \in Accounts /\ acct.cash >= 0
    /\ table \in Positions
    /\ \A s \in Symbols : table[s].lots > 0 <=> table[s].cost > 0
    /\ phase \in {"idle", "batch", "marks"}
    /\ todo \in Seq(Orders) /\ px \in [Symbols -> Prices \cup {0}]
    /\ work \in [acct : Accounts, pos : Positions] /\ rows \in Positions
    /\ open \in BOOLEAN /\ batches \in 0..MaxBatches /\ purges \in 0..MaxPurges

Init ==
    /\ acct = Pristine /\ table = Empty /\ nav = InitialCash
    /\ phase = "idle" /\ todo = <<>> /\ px = NoPrices
    /\ work = Unused /\ rows = Empty /\ open = FALSE
    /\ batches = 0 /\ purges = 0

Cost(pos) == SumFunctionOnSet([s \in Symbols |-> pos[s].cost], Symbols)
Equity(pos) == SumFunctionOnSet([s \in Symbols |-> pos[s].lots * pos[s].price], Symbols)
AtLeast(a, b) == IF a < b THEN b ELSE a
AtMost(a, b) == IF a < b THEN a ELSE b

\* The method returns or raises: nothing of it stays but what it committed.
Release ==
    /\ phase' = "idle" /\ todo' = <<>> /\ px' = NoPrices
    /\ work' = Unused /\ rows' = Empty /\ open' = FALSE
    /\ UNCHANGED <<batches, purges>>

----------------------------------------------------------------------------
\* execute_rebalance_orders up to the loop: both tables are read.
BeginBatch(b, p) ==
    /\ phase = "idle" /\ batches < MaxBatches
    /\ b # <<>>
    /\ phase' = "batch" /\ todo' = Sequenced(b) /\ px' = p
    /\ work' = [acct |-> acct, pos |-> table]
    /\ batches' = batches + 1
    /\ UNCHANGED <<committed, rows, open, purges>>

Begin == \E b \in Batches, p \in [Symbols -> Prices] : BeginBatch(b, p)

Order == Head(todo)
Held == work.pos[Order.sym]
Working(side) == phase = "batch" /\ todo # <<>> /\ Order.side = side /\ Order.lots > 0
Fee(lots) == AtLeast(MinFee, lots * FeePerLot)
SellPrice == px[Order.sym] - Slip
BuyPrice == px[Order.sym] + Slip

\* What the statements of this transaction read.
Rows == IF open THEN rows ELSE table

\* Mutant: no buffer is set aside.
SpendableToTheLast == AtLeast(0, work.acct.cash)

\* cash * (1 - cash_buffer_pct), and what is left of it for a clamped BUY
Spendable == AtLeast(0, (work.acct.cash * (1000 - Buffer)) \div 1000)
Affordable == AtLeast(0, Spendable - MinFee)
Clamped == Affordable \div (BuyPrice + FeePerLot)
TooDear == Order.lots * BuyPrice + Fee(Order.lots) > Spendable
Unaffordable == TooDear /\ (Affordable < MinTicket \/ Clamped <= 1)
Bought == IF TooDear THEN Clamped ELSE Order.lots

\* Counted as rejected, or as filled for a cash proxy nobody holds: no row changes.
PassOver ==
    /\ phase = "batch" /\ todo # <<>>
    /\ \/ Order.lots = 0
       \/ Order.side = "SELL" /\ Held.lots = 0
       \/ Order.side = "BUY" /\ Unaffordable
    /\ todo' = Tail(todo)
    /\ UNCHANGED <<committed, phase, px, work, rows, open, batches, purges>>

\* UPDATE or DELETE ... WHERE symbol = ?
SoldRows(now) ==
    IF Rows[Order.sym].lots = 0 THEN Rows ELSE [Rows EXCEPT ![Order.sym] = now]

\* A SELL sells at most what is held; the cost of the lots sold goes with them.
Sold == AtMost(Order.lots, Held.lots)
Left == Held.lots - Sold
Kept == (Held.cost * Left) \div Held.lots
Proceeds == Sold * SellPrice - Fee(Sold)
Remainder(closed) ==
    IF closed THEN NoPosition ELSE [lots |-> Left, cost |-> Kept, price |-> SellPrice]

\* One lot that is left is 0.0001 shares give or take a double's last digit.
Sell ==
    /\ Working("SELL") /\ Held.lots > 0
    /\ \E closed \in BOOLEAN :
        /\ closed => Left <= 1
        /\ Left = 0 => closed
        /\ work' = [acct |-> [work.acct EXCEPT
                                !.cash = @ + Proceeds,
                                !.realized = @ + Proceeds - (Held.cost - Kept),
                                !.dust = @ + Kept - Remainder(closed).cost],
                    pos |-> [work.pos EXCEPT ![Order.sym] = Remainder(closed)]]
        /\ rows' = SoldRows(Remainder(closed))
    /\ open' = TRUE /\ todo' = Tail(todo)
    /\ UNCHANGED <<committed, phase, px, batches, purges>>

Add(p, lots) == [lots |-> p.lots + lots, cost |-> p.cost + lots * BuyPrice,
                 price |-> BuyPrice]

Outflow == Bought * BuyPrice + Fee(Bought)

Buy ==
    /\ Working("BUY") /\ ~Unaffordable
    /\ work' = [acct |-> [work.acct EXCEPT !.cash = AtLeast(0, @ - Outflow),
                                           !.buyFees = @ + Fee(Bought)],
                pos |-> [work.pos EXCEPT ![Order.sym] = Add(@, Bought)]]
    /\ rows' = [Rows EXCEPT ![Order.sym] = Add(@, Bought)]
    /\ open' = TRUE /\ todo' = Tail(todo)
    /\ UNCHANGED <<committed, phase, px, batches, purges>>

\* Mutant: the account row has no CHECK.
CommitUnchecked ==
    /\ phase = "batch" /\ todo = <<>>
    /\ acct' = work.acct /\ table' = Rows
    /\ nav' = work.acct.cash + Equity(work.pos)
    /\ Release

\* The UPDATE of the account row, which CHECK (cash >= 0.0) may refuse, and commit().
Commit ==
    /\ phase = "batch" /\ todo = <<>> /\ work.acct.cash >= 0
    /\ acct' = work.acct /\ table' = Rows
    /\ nav' = work.acct.cash + Equity(work.pos)
    /\ Release

\* Mutant: each statement commits on its own, what a failed batch wrote stays.
AbortKeepingRows ==
    /\ phase # "idle"
    /\ StorageFaults \/ (phase = "batch" /\ todo = <<>> /\ work.acct.cash < 0)
    /\ table' = Rows
    /\ Release /\ UNCHANGED <<acct, nav>>

\* A constraint or SQLite raises, or the process dies: rollback().
Abort ==
    /\ phase # "idle"
    /\ StorageFaults \/ (phase = "batch" /\ todo = <<>> /\ work.acct.cash < 0)
    /\ Release /\ UNCHANGED committed

----------------------------------------------------------------------------
\* update_market_prices: a reading (get_portfolio_state), then a transaction.
ReadMarks ==
    /\ phase = "idle"
    /\ \E p \in [Symbols -> Prices \cup {0}] :
        /\ px' = p
        /\ work' = [acct |-> acct,
                    pos |-> [s \in Symbols |->
                        IF table[s].lots > 0 /\ p[s] > 0 THEN [table[s] EXCEPT !.price = p[s]]
                                                         ELSE table[s]]]
    /\ phase' = "marks"
    /\ UNCHANGED <<committed, todo, rows, open, batches, purges>>

\* Mutant: the marks are written with INSERT OR REPLACE.
MarkedRowsReplaced == work.pos

MarkedRows ==
    [s \in Symbols |-> IF table[s].lots > 0 /\ work.pos[s].lots > 0
                         THEN [table[s] EXCEPT !.price = work.pos[s].price] ELSE table[s]]

\* Mutant: the marks go to the positions only.
WriteMarksWithoutNav ==
    /\ phase = "marks" /\ table' = MarkedRows
    /\ Release /\ UNCHANGED <<acct, nav>>

WriteMarks ==
    /\ phase = "marks" /\ table' = MarkedRows
    /\ nav' = work.acct.cash + Equity(work.pos)
    /\ Release /\ UNCHANGED acct

Wipe == acct' = Pristine /\ table' = Empty /\ nav' = InitialCash

ResetToPristine ==
    /\ phase = "idle" /\ Wipe
    /\ UNCHANGED <<phase, todo, px, work, rows, open, batches, purges>>

\* scripts/reset_pristine_for_monday.py, in a process of its own: it waits for
\* the database lock, not for the manager's.
Purge ==
    /\ ~open /\ purges < MaxPurges /\ Wipe
    /\ purges' = purges + 1
    /\ UNCHANGED <<phase, todo, px, work, rows, open, batches>>

Next ==
    \/ Begin \/ PassOver \/ Sell \/ Buy \/ Commit \/ Abort
    \/ ReadMarks \/ WriteMarks \/ ResetToPristine \/ Purge

Spec == Init /\ [][Next]_vars

----------------------------------------------------------------------------
Balanced ==
    acct.cash + Cost(table) + acct.dust = InitialCash + acct.realized - acct.buyFees

\* Money is neither made nor lost: in the committed tables cash and what the
\* positions (and the deleted remainders) have cost add up to the initial
\* cash, the realised result and the fees of the BUYs, whatever batch was
\* clamped, passed over, rolled back or interrupted on the way
\* (execute_rebalance_orders, reset_to_pristine; for the purge see below).
BooksBalance == purges = 0 => Balanced

\* The total_nav column is the cash and the positions at the prices stored
\* beside them, after every batch, marking and reset: nobody who reads the
\* tables between two of them sees a NAV that mixes two moments.
NavMatchesTable == purges = 0 => nav = acct.cash + Equity(table)

\* A BUY, clamped or not, leaves the cash buffer in the account: after it at
\* least Buffer thousandths of the cash before it remain, so the floor
\* max(0.0, cash - total_outflow) never hides an overdraft.
BuyKeepsBuffer ==
    [][Working("BUY") /\ phase' = "batch" /\ work' # work =>
        1000 * work'.acct.cash >= Buffer * work.acct.cash]_vars

\* What a batch is about to commit is never more than the batch believes to
\* hold: a SELL that closes a position in pos_dict closes the row too, and the
\* UPDATE of a row that was purged under the batch brings none back.
RowsWithinWork ==
    phase = "batch" => \A s \in Symbols : Rows[s].lots <= work.pos[s].lots

\* Marking to market (update_market_prices) never brings back a position that
\* was purged after the marks were read, nor changes how much is held.
MarksMoveNoPosition ==
    [][phase = "marks" /\ purges' = purges =>
        \A s \in Symbols : /\ table'[s].lots = table[s].lots
                           /\ table'[s].cost = table[s].cost]_vars
=============================================================================

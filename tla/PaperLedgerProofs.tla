-------------------------- MODULE PaperLedgerProofs --------------------------
(***************************************************************************)
(* What PaperLedger promises for every set of symbols, prices and batches, *)
(* every slippage, fee and buffer, and any number of purges and faults,    *)
(* and what Rebalancer promises on top of it for every target and band.    *)
(***************************************************************************)
EXTENDS Rebalancer, SequenceTheorems, FiniteSetTheorems, TLAPS

\* A lot never costs less than one unit, so a row has a cost exactly when it
\* has lots, also after a partial sale has rounded the cost down.
Sound(pos) ==
    \A s \in Symbols : /\ pos[s].lots <= pos[s].cost
                       /\ pos[s].lots = 0 => pos[s].cost = 0

LedgerInv ==
    /\ TypeOK
    /\ Sound(table) /\ Sound(work.pos) /\ Sound(rows)
    /\ RowsWithinWork
    /\ phase = "batch" => px \in [Symbols -> Prices]
    /\ phase = "idle" => ~open

-----------------------------------------------------------------------------
(* Arithmetic.                                                             *)

LEMMA QuotientBounds ==
    ASSUME NEW a \in Nat, NEW b \in Nat \ {0}
    PROVE  a \div b \in Nat /\ (a \div b) * b <= a
  BY SMT

LEMMA ProductSign == \A a \in Int, b \in Nat : a * b \in Int /\ (a <= 0 => a * b <= 0)
  BY SMT

LEMMA ThousandthSign == \A a \in Int : a \div 1000 \in Int /\ (a <= 0 => a \div 1000 <= 0)
  BY SMT

\* The cost that stays with the lots that are not sold.
LEMMA KeptCost ==
    ASSUME NEW cost \in Nat, NEW held \in Nat \ {0}, NEW left \in 0..held, held <= cost
    PROVE  /\ (cost * left) \div held \in Nat
           /\ left <= (cost * left) \div held
           /\ left = 0 => (cost * left) \div held = 0
  <1>1. cost * left \in Nat /\ cost * left >= left * held
    BY SMT
  <1>2. ASSUME NEW a \in Nat, a >= left * held
        PROVE  a \div held \in Nat /\ left <= a \div held
    BY <1>2, SMT
  <1>3. left = 0 => cost * left = 0
    BY SMT
  <1>4. 0 \div held = 0
    BY SMT
  <1> QED BY <1>1, <1>2, <1>3, <1>4

\* The arithmetic of cash_buffer_pct: out may be spent from cash c, and out leaves
\* the buffer of c.
MaySpend(c, out) == out <= AtLeast(0, (c * (1000 - Buffer)) \div 1000)
LeavesBuffer(c, out) == 1000 * AtLeast(0, c - out) >= Buffer * c

LEMMA BufferLeft == \A c, out \in Nat : MaySpend(c, out) => LeavesBuffer(c, out)
  <1> TAKE c, out \in Nat
  <1> HAVE MaySpend(c, out)
  <1>1. /\ c * (1000 - Buffer) \in Nat /\ Buffer * c \in Nat
        /\ c * (1000 - Buffer) = 1000 * c - Buffer * c
    BY LedgerAssumption, SMT
  <1>2. ASSUME NEW a \in Nat PROVE a \div 1000 \in Nat /\ 1000 * (a \div 1000) <= a
    BY SMT
  <1> DEFINE d == (c * (1000 - Buffer)) \div 1000
  <1>3. d \in Nat /\ 1000 * d <= 1000 * c - Buffer * c
    BY <1>1, <1>2
  <1>4. out <= d
    BY <1>3 DEF AtLeast, MaySpend
  <1> HIDE DEF d
  <1>5. 1000 * out <= 1000 * c - Buffer * c /\ out <= c
    BY <1>1, <1>3, <1>4
  <1> QED BY <1>1, <1>5 DEF AtLeast, LeavesBuffer

-----------------------------------------------------------------------------
(* The operators of a batch.                                               *)

LEMMA FeeType == ASSUME NEW n \in Nat PROVE Fee(n) \in Nat
  BY LedgerAssumption, SMT DEF Fee, AtLeast

LEMMA OrderType ==
    ASSUME LedgerInv, phase = "batch", todo # <<>>
    PROVE  /\ Order \in Orders /\ Tail(todo) \in Seq(Orders)
           /\ Order.sym \in Symbols /\ Order.lots \in Nat
           /\ px[Order.sym] \in Prices
           /\ SellPrice \in Nat /\ BuyPrice \in Nat \ {0}
  <1>1. Order \in Orders /\ Tail(todo) \in Seq(Orders)
    BY HeadTailProperties DEF LedgerInv, TypeOK, Order
  <1>2. Order.sym \in Symbols /\ Order.lots \in Nat
    BY <1>1 DEF Orders
  <1>3. px[Order.sym] \in Prices
    BY <1>2 DEF LedgerInv
  <1>4. \A p \in Prices : p - Slip \in Nat /\ p + Slip \in Nat \ {0}
    BY LedgerAssumption
  <1> QED BY <1>1, <1>2, <1>3, <1>4 DEF SellPrice, BuyPrice

LEMMA RowsType == ASSUME LedgerInv PROVE Rows \in Positions /\ Sound(Rows)
  BY DEF LedgerInv, TypeOK, Rows

\* What a BUY takes from the account is within what may be spent.
LEMMA WithinSpendable ==
    ASSUME LedgerInv, Working("BUY"), ~Unaffordable
    PROVE  /\ Bought \in Nat \ {0}
           /\ Outflow \in Nat /\ Outflow <= Spendable
           /\ Spendable \in Nat /\ work.acct.cash > 0
  <1>1. Order.lots \in Nat \ {0} /\ BuyPrice \in Nat \ {0} /\ work.acct.cash \in Int
    BY OrderType DEF Working, LedgerInv, TypeOK, Accounts
  <1>2. Spendable \in Nat /\ (work.acct.cash <= 0 => Spendable = 0)
    <2>1. PICK c \in Int, k \in Nat : c = work.acct.cash /\ k = 1000 - Buffer
      BY <1>1, LedgerAssumption
    <2>2. PICK x \in Int : x = c * k /\ (c <= 0 => x <= 0)
      BY ProductSign
    <2>3. x \div 1000 \in Int /\ (x <= 0 => x \div 1000 <= 0)
      BY ThousandthSign
    <2> QED BY <2>1, <2>2, <2>3 DEF Spendable, AtLeast
  <1>3. Affordable \in Nat /\ Affordable <= AtLeast(0, Spendable - MinFee)
    BY <1>2, LedgerAssumption, SMT DEF Affordable, AtLeast
  <1>4. CASE ~TooDear
    <2>1. Bought = Order.lots
      BY <1>4 DEF Bought
    <2>2. Order.lots * BuyPrice + Fee(Order.lots) \in Nat
          /\ Order.lots * BuyPrice + Fee(Order.lots) > 0
      BY <1>1, FeeType, SMT
    <2>3. Order.lots * BuyPrice + Fee(Order.lots) <= Spendable
      BY <1>2, <1>4, <2>2 DEF TooDear
    <2> QED BY <1>1, <1>2, <2>1, <2>2, <2>3 DEF Outflow
  <1>5. CASE TooDear
    <2> DEFINE each == BuyPrice + FeePerLot
    <2>1. Bought = Clamped /\ Clamped > 1
      <3>1. Clamped \in Nat
        BY <1>1, <1>3, LedgerAssumption, SMT DEF Clamped
      <3> QED BY <1>5, <3>1 DEF Bought, Unaffordable
    <2>2. Clamped \in Nat \ {0} /\ Clamped * each <= Affordable
      <3>1. each \in Nat \ {0}
        BY <1>1, LedgerAssumption
      <3> QED BY <1>3, <2>1, <3>1, QuotientBounds DEF Clamped
    <2>3. Affordable + MinFee <= Spendable
      <3>1. Affordable > 0
        BY <1>1, <1>3, <2>2, LedgerAssumption, SMT
      <3> QED BY <1>2, <1>3, <3>1, LedgerAssumption, SMT DEF AtLeast
    <2>4. Clamped * each = Clamped * BuyPrice + Clamped * FeePerLot
      BY <1>1, <2>2, LedgerAssumption, SMT
    <2>5. Clamped * BuyPrice \in Nat /\ Clamped * FeePerLot \in Nat
      BY <1>1, <2>2, LedgerAssumption, SMT
    <2>6. Clamped * BuyPrice + Fee(Clamped) <= Affordable + MinFee
      BY <1>3, <2>2, <2>4, <2>5, LedgerAssumption, SMT DEF Fee, AtLeast
    <2>7. Fee(Clamped) \in Nat
      BY <2>2, FeeType
    <2>8. Spendable > 0
      BY <1>1, <1>2, <1>3, <2>2, <2>3, LedgerAssumption, SMT
    <2> QED BY <1>1, <1>2, <1>3, <2>1, <2>2, <2>3, <2>5, <2>6, <2>7, <2>8,
               LedgerAssumption, SMT DEF Outflow
  <1> QED BY <1>4, <1>5

LEMMA AccountFields ==
    ASSUME NEW a \in Accounts, NEW cash \in Int, NEW n \in Nat
    PROVE  [a EXCEPT !.cash = cash, !.buyFees = n] \in Accounts
  BY DEF Accounts

LEMMA SellStep == ASSUME LedgerInv, Sell PROVE LedgerInv'
  <1>1. PICK closed \in BOOLEAN :
          /\ closed => Left <= 1
          /\ Left = 0 => closed
          /\ work' = [acct |-> [work.acct EXCEPT
                                  !.cash = @ + Proceeds,
                                  !.realized = @ + Proceeds - (Held.cost - Kept),
                                  !.dust = @ + Kept - Remainder(closed).cost],
                      pos |-> [work.pos EXCEPT ![Order.sym] = Remainder(closed)]]
          /\ rows' = SoldRows(Remainder(closed))
    BY DEF Sell
  <1>2. /\ Order.sym \in Symbols /\ Order.lots \in Nat \ {0} /\ SellPrice \in Nat
        /\ Tail(todo) \in Seq(Orders)
    BY OrderType DEF Sell, Working
  <1>3. /\ Held \in [lots : Nat, cost : Nat, price : Nat] /\ Held.lots # 0
        /\ Held.lots <= Held.cost
    BY <1>2 DEF Sell, Held, LedgerInv, TypeOK, Positions, Sound
  <1>4. Sold \in Nat /\ Left \in 0..Held.lots
    BY <1>2, <1>3 DEF AtMost, Sold, Left
  <1>5. Kept \in Nat /\ Left <= Kept /\ (Left = 0 => Kept = 0)
    BY <1>3, <1>4, KeptCost DEF Kept
  <1>6. Proceeds \in Int
    <2>1. Sold * SellPrice \in Nat
      BY <1>2, <1>4, SMT
    <2> QED BY <1>4, <2>1, FeeType DEF Proceeds
  <1>7. /\ Remainder(closed) \in [lots : Nat, cost : Nat, price : Nat]
        /\ Remainder(closed).lots <= Remainder(closed).cost
        /\ Remainder(closed).lots = 0 => Remainder(closed).cost = 0
        /\ Kept - Remainder(closed).cost \in Nat
    BY <1>1, <1>2, <1>4, <1>5 DEF NoPosition, Remainder
  <1>8. work'.acct \in Accounts
    <2>1. work.acct \in Accounts /\ Held.cost \in Nat
      BY <1>3 DEF LedgerInv, TypeOK
    <2>2. work'.acct = [work.acct EXCEPT
                          !.cash = @ + Proceeds,
                          !.realized = @ + Proceeds - (Held.cost - Kept),
                          !.dust = @ + Kept - Remainder(closed).cost]
      BY <1>1
    <2>3. /\ work.acct.cash + Proceeds \in Int
          /\ work.acct.realized + Proceeds - (Held.cost - Kept) \in Int
      BY <1>5, <1>6, <2>1 DEF Accounts
    <2>4. work.acct.dust + Kept - Remainder(closed).cost \in Nat
      BY <1>5, <1>7, <2>1 DEF Accounts
    <2> DEFINE c == work.acct.cash + Proceeds
               r == work.acct.realized + Proceeds - (Held.cost - Kept)
               n == work.acct.dust + Kept - Remainder(closed).cost
    <2>5. work'.acct = [work.acct EXCEPT !.cash = c, !.realized = r, !.dust = n]
      BY <2>2
    <2> HIDE DEF c, r, n
    <2>6. c \in Int /\ r \in Int /\ n \in Nat
      BY <2>3, <2>4 DEF c, r, n
    <2> QED BY <2>1, <2>5, <2>6 DEF Accounts
  <1>9. work'.pos \in Positions /\ Sound(work'.pos)
    BY <1>1, <1>2, <1>7 DEF LedgerInv, TypeOK, Positions, Sound
  <1>10. rows' \in Positions /\ Sound(rows')
    BY <1>1, <1>2, <1>7, RowsType DEF SoldRows, Positions, Sound
  <1>11. \A s \in Symbols : rows'[s].lots <= work'.pos[s].lots
    <2>1. TAKE s \in Symbols
    <2>2. Rows[s].lots <= work.pos[s].lots /\ Rows \in Positions /\ work.pos \in Positions
      BY RowsType DEF Sell, Working, LedgerInv, RowsWithinWork, TypeOK
    <2>3. CASE s = Order.sym
      BY <1>1, <1>2, <1>7, <2>2, <2>3 DEF SoldRows, Positions
    <2>4. CASE s # Order.sym
      BY <1>1, <1>2, <2>2, <2>4 DEF SoldRows, Positions
    <2> QED BY <2>3, <2>4
  <1>12. open' /\ todo' = Tail(todo) /\ UNCHANGED <<acct, table, phase, px, batches, purges>>
    BY DEF Sell, committed
  <1>13. work' \in [acct : Accounts, pos : Positions]
    BY <1>1, <1>8, <1>9
  <1>14. TypeOK'
    BY <1>2, <1>10, <1>12, <1>13 DEF LedgerInv, TypeOK, Sell
  <1>15. RowsWithinWork'
    BY <1>11, <1>12 DEF RowsWithinWork, Rows
  <1> QED BY <1>9, <1>10, <1>12, <1>14, <1>15 DEF LedgerInv, Sound, Sell, Working

LEMMA AddType ==
    ASSUME BuyPrice \in Nat \ {0}, NEW n \in Nat \ {0},
           NEW p \in [lots : Nat, cost : Nat, price : Nat], p.lots <= p.cost
    PROVE  /\ Add(p, n) \in [lots : Nat, cost : Nat, price : Nat]
           /\ Add(p, n).lots = p.lots + n
           /\ Add(p, n).lots <= Add(p, n).cost /\ Add(p, n).lots # 0
  <1>1. n * BuyPrice \in Nat /\ n <= n * BuyPrice
    BY SMT
  <1> QED BY <1>1 DEF Add

LEMMA BuyStep == ASSUME LedgerInv, Buy PROVE LedgerInv'
  <1>1. /\ Order.sym \in Symbols /\ BuyPrice \in Nat \ {0} /\ Bought \in Nat \ {0}
        /\ Tail(todo) \in Seq(Orders) /\ Fee(Bought) \in Nat
        /\ Outflow \in Nat
    BY OrderType, WithinSpendable, FeeType DEF Buy, Working
  <1>2. work' = [acct |-> [work.acct EXCEPT
                             !.cash = AtLeast(0, @ - Outflow),
                             !.buyFees = @ + Fee(Bought)],
                 pos |-> [work.pos EXCEPT ![Order.sym] = Add(@, Bought)]]
    BY DEF Buy
  <1>3. /\ rows' = [Rows EXCEPT ![Order.sym] = Add(@, Bought)] /\ open'
        /\ todo' = Tail(todo) /\ UNCHANGED <<acct, table, phase, px, batches, purges>>
    BY DEF Buy, committed
  <1>4. work'.acct \in Accounts
    <2>1. work.acct \in Accounts
      BY DEF LedgerInv, TypeOK
    <2>2. AtLeast(0, work.acct.cash - Outflow) \in Int
      BY <1>1, <2>1 DEF AtLeast, Accounts
    <2>3. work.acct.buyFees + Fee(Bought) \in Nat
      BY <1>1, <2>1 DEF Accounts
    <2> QED BY <1>2, <2>1, <2>2, <2>3, AccountFields
  <1>5. /\ work.pos \in Positions /\ Sound(work.pos) /\ Rows \in Positions /\ Sound(Rows)
    BY RowsType DEF LedgerInv, TypeOK
  <1>6. work'.pos \in Positions /\ Sound(work'.pos)
    BY <1>1, <1>2, <1>5, AddType DEF Positions, Sound
  <1>7. rows' \in Positions /\ Sound(rows')
    BY <1>1, <1>3, <1>5, AddType DEF Positions, Sound
  <1>8. \A s \in Symbols : rows'[s].lots <= work'.pos[s].lots
    <2>1. TAKE s \in Symbols
    <2>2. Rows[s].lots <= work.pos[s].lots
      BY DEF Buy, Working, LedgerInv, RowsWithinWork
    <2>3. CASE s = Order.sym
      <3>1. /\ Rows[s] \in [lots : Nat, cost : Nat, price : Nat]
            /\ work.pos[s] \in [lots : Nat, cost : Nat, price : Nat]
            /\ Rows[s].lots <= Rows[s].cost /\ work.pos[s].lots <= work.pos[s].cost
        BY <1>5 DEF Positions, Sound
      <3>2. /\ Add(Rows[s], Bought).lots = Rows[s].lots + Bought
            /\ Add(work.pos[s], Bought).lots = work.pos[s].lots + Bought
        BY <1>1, <3>1, AddType
      <3>3. /\ rows'[s] = Add(Rows[s], Bought)
            /\ work'.pos[s] = Add(work.pos[s], Bought)
        BY <1>1, <1>2, <1>3, <1>5, <2>3 DEF Positions
      <3> QED BY <1>1, <2>2, <3>1, <3>2, <3>3
    <2>4. CASE s # Order.sym
      BY <1>1, <1>2, <1>3, <1>5, <2>2, <2>4 DEF Positions
    <2> QED BY <2>3, <2>4
  <1>9. work' \in [acct : Accounts, pos : Positions]
    BY <1>2, <1>4, <1>6
  <1>10. TypeOK'
    BY <1>1, <1>3, <1>7, <1>9 DEF LedgerInv, TypeOK, Buy
  <1>11. RowsWithinWork'
    BY <1>3, <1>8 DEF RowsWithinWork, Rows
  <1> QED BY <1>3, <1>6, <1>7, <1>10, <1>11 DEF LedgerInv, Sound, Buy, Working

-----------------------------------------------------------------------------
(* Batches in order.                                                       *)

\* Finite sets are well-founded under inclusion, so an induction over them takes a
\* smallest counterexample.
LEMMA SmallestSubset ==
    ASSUME NEW S, IsFiniteSet(S), NEW T, T \subseteq SUBSET S, T # {}
    PROVE  \E x \in T : \A y \in T : ~ (y \subseteq x /\ y # x)
  <1>1. \A x \in SUBSET S : IsFiniteSet(x)
    BY FS_Subset
  <1>2. T \subseteq FiniteSubsetsOf(S)
    BY <1>1 DEF FiniteSubsetsOf
  <1>3. \E x \in T : \A y \in T : <<y, x>> \notin StrictSubsetOrdering(S)
    BY <1>2, WFMin, FS_StrictSubsetOrderingWellFounded
  <1> QED BY <1>3 DEF StrictSubsetOrdering

\* f goes through I upwards.
Ascends(f, I) ==
    f \in [1..Cardinality(I) -> I] /\ \A j, k \in DOMAIN f : j < k => f[j] < f[k]

LEMMA IntervalIsFinite == \A n \in Nat : IsFiniteSet(1..n) /\ Cardinality(1..n) = n
  <1> TAKE n \in Nat
  <1>1. 1 \in Int /\ n \in Int
    OBVIOUS
  <1>2. IsFiniteSet(1..n) /\ Cardinality(1..n) = IF 1 > n THEN 0 ELSE n - 1 + 1
    BY <1>1, FS_Interval
  <1> QED BY <1>2

LEMMA PartOfInterval ==
    ASSUME NEW n \in Nat, NEW I \in SUBSET (1..n)
    PROVE  IsFiniteSet(I) /\ Cardinality(I) \in Nat
  BY IntervalIsFinite, FS_Subset, FS_CardinalityType

LEMMA SmallestOf ==
    ASSUME NEW n \in Nat, NEW I \in SUBSET (1..n), I # {}
    PROVE  \E m \in I : \A k \in I : m <= k
  <1> DEFINE T == {1..k : k \in I}
             S == 1..n
  <1>1. T \subseteq SUBSET S /\ T # {} /\ IsFiniteSet(S)
    <2>1. ASSUME NEW k \in I PROVE 1..k \subseteq S
      OBVIOUS
    <2> QED BY <2>1, IntervalIsFinite
  <1>2. PICK x \in T : \A y \in T : ~ (y \subseteq x /\ y # x)
    <2> HIDE DEF T, S
    <2> QED BY <1>1, SmallestSubset
  <1>3. PICK m \in I : x = 1..m
    OBVIOUS
  <1>4. ASSUME NEW k \in I, k < m PROVE FALSE
    <2>1. 1..k \subseteq x /\ 1..k # x /\ 1..k \in T
      <3>1. m \in 1..m /\ m \notin 1..k
        BY <1>4
      <3> QED BY <1>3, <1>4, <3>1
    <2> QED BY <1>2, <2>1
  <1> QED BY <1>4

LEMMA AscendsOne ==
    ASSUME NEW n \in Nat, NEW I \in SUBSET (1..n), I # {}, NEW m \in I, \A k \in I : m <= k,
           NEW f, Ascends(f, I \ {m})
    PROVE  \E g : Ascends(g, I)
  <1>1. IsFiniteSet(I) /\ Cardinality(I) \in Nat /\ Cardinality(I \ {m}) = Cardinality(I) - 1
    BY PartOfInterval, FS_RemoveElement
  <1> DEFINE c == Cardinality(I)
             g == [k \in 1..c |-> IF k = 1 THEN m ELSE f[k - 1]]
  <1>2. c \in Nat /\ f \in [1..(c - 1) -> I \ {m}]
        /\ \A j, k \in 1..(c - 1) : j < k => f[j] < f[k]
    BY <1>1 DEF Ascends
  <1> HIDE DEF c
  <1>3. ASSUME NEW k \in 1..c, k # 1 PROVE k - 1 \in 1..(c - 1)
    BY <1>2, <1>3
  <1>4. g \in [1..c -> I]
    BY <1>2, <1>3
  <1>5. ASSUME NEW j \in 1..c, NEW k \in 1..c, j < k PROVE g[j] < g[k]
    <2>1. k # 1 /\ k - 1 \in 1..(c - 1) /\ g[k] = f[k - 1] /\ f[k - 1] \in I \ {m}
      BY <1>2, <1>3, <1>5
    <2>2. CASE j = 1
      <3>1. g[j] = m
        BY <2>2
      <3>2. PICK v : v = f[k - 1]
        OBVIOUS
      <3>3. v \in I /\ v # m /\ m <= v
        BY <2>1, <3>2
      <3>4. v \in 1..n /\ m \in 1..n
        BY <3>3
      <3>5. m < v
        BY <3>3, <3>4
      <3> QED BY <2>1, <3>1, <3>2, <3>5
    <2>3. CASE j # 1
      <3>1. j - 1 \in 1..(c - 1) /\ g[j] = f[j - 1] /\ j - 1 < k - 1
        BY <1>2, <1>3, <1>5, <2>3
      <3> QED BY <1>2, <2>1, <3>1
    <2> QED BY <2>2, <2>3
  <1>6. Ascends(g, I)
    BY <1>4, <1>5 DEF Ascends, c
  <1> QED BY <1>6

LEMMA AscentExists ==
    ASSUME NEW n \in Nat, NEW I \in SUBSET (1..n)
    PROVE  \E f : Ascends(f, I)
  <1> DEFINE D == {x \in SUBSET (1..n) : ~ \E f : Ascends(f, x)}
  <1> SUFFICES ASSUME D # {} PROVE FALSE
    OBVIOUS
  <1>1. PICK x \in D : \A y \in D : ~ (y \subseteq x /\ y # x)
    <2> DEFINE S == 1..n
    <2>1. D \subseteq SUBSET S /\ IsFiniteSet(S)
      BY IntervalIsFinite
    <2> HIDE DEF D, S
    <2> QED BY <2>1, SmallestSubset
  <1>2. x \in SUBSET (1..n) /\ ~ \E f : Ascends(f, x)
    OBVIOUS
  <1>3. x # {}
    <2>1. Ascends([k \in 1..0 |-> 0], {})
      BY FS_EmptySet DEF Ascends
    <2> QED BY <1>2, <2>1
  <1>4. PICK m \in x : \A k \in x : m <= k
    BY <1>2, <1>3, SmallestOf
  <1>5. \E f : Ascends(f, x \ {m})
    BY <1>1, <1>2, <1>4
  <1> QED BY <1>2, <1>3, <1>4, <1>5, AscendsOne

\* InOrder goes through all of I, once and upwards.
LEMMA InOrderIsAscent ==
    ASSUME NEW n \in Nat, NEW I \in SUBSET (1..n)
    PROVE  /\ Cardinality(I) \in Nat
           /\ InOrder(I) \in [1..Cardinality(I) -> I]
           /\ \A j, k \in 1..Cardinality(I) : j < k => InOrder(I)[j] < InOrder(I)[k]
           /\ \A i \in I : \E k \in 1..Cardinality(I) : InOrder(I)[k] = i
  <1> DEFINE c == Cardinality(I)
             f == InOrder(I)
  <1>1. IsFiniteSet(I) /\ c \in Nat
    BY PartOfInterval
  <1>2. Ascends(f, I)
    <2>1. \E g \in [1..c -> I] : \A j, k \in DOMAIN g : j < k => g[j] < g[k]
      BY AscentExists DEF Ascends
    <2> QED BY <2>1 DEF InOrder, Ascends
  <1>3. f \in [1..c -> I] /\ \A j, k \in 1..c : j < k => f[j] < f[k]
    BY <1>2 DEF Ascends
  <1> HIDE DEF f, c
  <1>4. ASSUME NEW j \in 1..c, NEW k \in 1..c, f[j] = f[k] PROVE j = k
    <2>1. f[j] \in I /\ f[j] \in 1..n
      BY <1>3
    <2>2. ~ j < k /\ ~ k < j
      BY <1>3, <1>4, <2>1
    <2> QED BY <1>1, <2>2
  <1>5. f \in Injection(1..c, I)
    BY <1>3, <1>4 DEF Injection, IsInjective
  <1>6. Cardinality(1..c) = c /\ c = Cardinality(I)
    BY <1>1, IntervalIsFinite DEF c
  <1>7. f \in Surjection(1..c, I)
    BY <1>1, <1>5, <1>6, FS_Injection
  <1>8. \A i \in I : \E k \in 1..c : f[k] = i
    BY <1>7 DEF Surjection
  <1> QED BY <1>1, <1>3, <1>8 DEF f, c

\* The orders still to be worked off name each symbol once, the SELLs first.
Distinct(q) == \A j, k \in DOMAIN q : q[j].sym = q[k].sym => j = k
SalesFirst(q) == \A j, k \in DOMAIN q : j < k /\ q[k].side = "SELL" => q[j].side = "SELL"

LEMMA FunctionIsSeq ==
    ASSUME NEW S, NEW n \in Nat, NEW q \in [1..n -> S]
    PROVE  q \in Seq(S) /\ Len(q) = n /\ DOMAIN q = 1..n
  <1>1. q \in Seq(S)
    BY SeqDef
  <1>2. Len(q) \in Nat /\ DOMAIN q = 1..Len(q)
    BY <1>1, LenProperties
  <1> QED BY <1>1, <1>2

\* The entries of b at the positions in I, each once and in the order of b.
LEMMA PickIsInOrder ==
    ASSUME NEW S, NEW b \in Seq(S), NEW I \in SUBSET (DOMAIN b)
    PROVE  /\ Pick(b, I) \in Seq(S)
           /\ Cardinality(I) \in Nat
           /\ Len(Pick(b, I)) = Cardinality(I) /\ DOMAIN Pick(b, I) = 1..Cardinality(I)
           /\ \A k \in 1..Cardinality(I) : /\ Pick(b, I)[k] = b[InOrder(I)[k]]
                                           /\ InOrder(I)[k] \in I
           /\ \A j, k \in 1..Cardinality(I) : InOrder(I)[j] = InOrder(I)[k] => j = k
           /\ \A i \in I : \E k \in 1..Cardinality(I) : InOrder(I)[k] = i
  <1> DEFINE c == Cardinality(I)
             f == InOrder(I)
             n == Len(b)
  <1>1. n \in Nat /\ b \in [1..n -> S] /\ DOMAIN b = 1..n
    BY LenProperties
  <1>2. I \in SUBSET (1..n)
    BY <1>1
  <1>3. /\ c \in Nat /\ f \in [1..c -> I]
        /\ \A j, k \in 1..c : j < k => f[j] < f[k]
        /\ \A i \in I : \E k \in 1..c : f[k] = i
    BY <1>1, <1>2, InOrderIsAscent
  <1>4. Pick(b, I) = [k \in 1..c |-> b[f[k]]]
    BY DEF Pick
  <1> HIDE DEF c, f, n
  <1>5. Pick(b, I) \in [1..c -> S]
    BY <1>1, <1>2, <1>3, <1>4
  <1>6. Pick(b, I) \in Seq(S) /\ Len(Pick(b, I)) = c /\ DOMAIN Pick(b, I) = 1..c
    BY <1>3, <1>5, FunctionIsSeq
  <1>7. ASSUME NEW j \in 1..c, NEW k \in 1..c, f[j] = f[k] PROVE j = k
    <2>1. f[j] \in I
      BY <1>3
    <2>2. f[j] \in Int
      BY <1>2, <2>1
    <2>3. ~ j < k /\ ~ k < j
      BY <1>3, <1>7, <2>2
    <2> QED BY <1>3, <2>3
  <1> QED BY <1>3, <1>4, <1>6, <1>7 DEF c, f

\* Sequenced(b) has the orders of b, each once, the SELLs first.
LEMMA SequencedIsInOrder ==
    ASSUME NEW b \in Seq(Orders)
    PROVE  /\ Sequenced(b) \in Seq(Orders)
           /\ SalesFirst(Sequenced(b))
           /\ \A k \in DOMAIN Sequenced(b) : \E i \in DOMAIN b : Sequenced(b)[k] = b[i]
           /\ \A i \in DOMAIN b : \E k \in DOMAIN Sequenced(b) : Sequenced(b)[k] = b[i]
           /\ Distinct(b) => Distinct(Sequenced(b))
  <1> DEFINE I == {i \in DOMAIN b : b[i].side = "SELL"}
             J == {i \in DOMAIN b : b[i].side = "BUY"}
             q == Sequenced(b)
             m == Cardinality(I)
             n == Cardinality(J)
             s == Pick(b, I)
             t == Pick(b, J)
             f == InOrder(I)
             g == InOrder(J)
  <1>1. \A i \in DOMAIN b : /\ b[i] \in Orders
                            /\ i \in I <=> b[i].side = "SELL"
                            /\ i \in J <=> b[i].side = "BUY"
                            /\ i \in I \/ i \in J
    <2>1. \A i \in DOMAIN b : b[i] \in Orders
      BY LenProperties
    <2> QED BY <2>1 DEF Orders
  <1>2. I \in SUBSET (DOMAIN b) /\ J \in SUBSET (DOMAIN b)
    OBVIOUS
  <1>3. q = s \o t
    BY DEF Sequenced, OfSide
  <1>4. /\ s \in Seq(Orders) /\ m \in Nat /\ Len(s) = m
        /\ \A k \in 1..m : s[k] = b[f[k]] /\ f[k] \in I
        /\ \A j, k \in 1..m : f[j] = f[k] => j = k
        /\ \A i \in I : \E k \in 1..m : f[k] = i
    <2> HIDE DEF I
    <2> QED BY <1>2, PickIsInOrder
  <1>5. /\ t \in Seq(Orders) /\ n \in Nat /\ Len(t) = n
        /\ \A k \in 1..n : t[k] = b[g[k]] /\ g[k] \in J
        /\ \A j, k \in 1..n : g[j] = g[k] => j = k
        /\ \A i \in J : \E k \in 1..n : g[k] = i
    <2> HIDE DEF J
    <2> QED BY <1>2, PickIsInOrder
  <1> HIDE DEF I, J, q, m, n, s, t, f, g
  <1>6. /\ q \in Seq(Orders) /\ Len(q) = m + n
        /\ \A k \in 1..(m + n) : q[k] = IF k <= m THEN s[k] ELSE t[k - m]
    BY <1>3, <1>4, <1>5, ConcatProperties
  <1>7. DOMAIN q = 1..(m + n)
    BY <1>6, LenProperties
  <1>8. ASSUME NEW k \in 1..(m + n), k <= m
        PROVE  k \in 1..m /\ q[k] = b[f[k]] /\ f[k] \in I /\ f[k] \in DOMAIN b
    <2>1. k \in 1..m
      BY <1>4, <1>5, <1>8
    <2> QED BY <1>2, <1>4, <1>6, <1>8, <2>1
  <1>9. ASSUME NEW k \in 1..(m + n), ~ k <= m
        PROVE  k - m \in 1..n /\ q[k] = b[g[k - m]] /\ g[k - m] \in J /\ g[k - m] \in DOMAIN b
    <2>1. k - m \in 1..n
      BY <1>4, <1>5, <1>9
    <2> QED BY <1>2, <1>5, <1>6, <1>9, <2>1
  <1>10. SalesFirst(q)
    <2>1. ASSUME NEW j \in 1..(m + n), NEW k \in 1..(m + n), j < k, q[k].side = "SELL"
          PROVE  q[j].side = "SELL"
      <3>1. k <= m
        BY <1>1, <1>9, <2>1
      <3>2. j <= m
        BY <1>4, <1>5, <2>1, <3>1
      <3> QED BY <1>1, <1>8, <3>2
    <2> QED BY <1>7, <2>1 DEF SalesFirst
  <1>11. \A k \in DOMAIN q : \E i \in DOMAIN b : q[k] = b[i]
    <2>1. TAKE k \in DOMAIN q
    <2>2. k \in 1..(m + n)
      BY <1>7
    <2> QED BY <1>8, <1>9, <2>2
  <1>12. \A i \in DOMAIN b : \E k \in DOMAIN q : q[k] = b[i]
    <2>1. TAKE i \in DOMAIN b
    <2>2. CASE i \in I
      <3>1. PICK k \in 1..m : f[k] = i
        BY <1>4, <2>2
      <3>2. k \in 1..(m + n) /\ k <= m
        BY <1>4, <1>5
      <3> QED BY <1>7, <1>8, <3>1, <3>2
    <2>3. CASE i \in J
      <3>1. PICK k \in 1..n : g[k] = i
        BY <1>5, <2>3
      <3>2. PICK l : l = k + m
        OBVIOUS
      <3>3. l \in 1..(m + n) /\ ~ l <= m /\ l - m = k
        BY <1>4, <1>5, <3>2
      <3> QED BY <1>7, <1>9, <3>1, <3>3
    <2> QED BY <1>1, <2>2, <2>3
  <1>13. Distinct(b) => Distinct(q)
    <2> HAVE Distinct(b)
    <2>1. ASSUME NEW j \in 1..(m + n), NEW k \in 1..(m + n), q[j].sym = q[k].sym
          PROVE  j = k
      <3>1. CASE j <= m /\ k <= m
        BY <1>4, <1>8, <2>1, <3>1 DEF Distinct
      <3>2. CASE ~ j <= m /\ ~ k <= m
        <4>1. g[j - m] = g[k - m] /\ j - m \in 1..n /\ k - m \in 1..n
          BY <1>9, <2>1, <3>2 DEF Distinct
        <4>2. j - m = k - m
          BY <1>5, <4>1
        <4> QED BY <1>4, <1>5, <4>2
      <3>3. CASE j <= m /\ ~ k <= m
        <4>1. f[j] = g[k - m]
          BY <1>8, <1>9, <2>1, <3>3 DEF Distinct
        <4> QED BY <1>1, <1>8, <1>9, <3>3, <4>1
      <3>4. CASE ~ j <= m /\ k <= m
        <4>1. f[k] = g[j - m]
          BY <1>8, <1>9, <2>1, <3>4 DEF Distinct
        <4> QED BY <1>1, <1>8, <1>9, <3>4, <4>1
      <3> QED BY <3>1, <3>2, <3>3, <3>4
    <2> QED BY <1>7, <2>1 DEF Distinct
  <1> QED BY <1>6, <1>10, <1>11, <1>12, <1>13 DEF q

-----------------------------------------------------------------------------

LEMMA LedgerInit == Init => LedgerInv
  <1>1. NoPosition \in [lots : Nat, cost : Nat, price : Nat]
    BY DEF NoPosition
  <1>2. Empty \in Positions /\ Sound(Empty) /\ Pristine \in Accounts
    BY <1>1, LedgerAssumption DEF Empty, Positions, Sound, NoPosition, Pristine, Accounts
  <1>3. InitialCash >= 0 /\ 0 \in 0..MaxBatches /\ 0 \in 0..MaxPurges
    BY LedgerAssumption
  <1>4. NoPrices \in [Symbols -> Prices \cup {0}] /\ <<>> \in Seq(Orders)
    BY DEF NoPrices
  <1>5. Unused \in [acct : Accounts, pos : Positions] /\ Unused.pos = Empty
    BY <1>2 DEF Unused
  <1>6. Pristine.cash = InitialCash /\ \A s \in Symbols : Empty[s].lots = 0 /\ Empty[s].cost = 0
    BY DEF Pristine, Empty, NoPosition
  <1> SUFFICES ASSUME Init PROVE LedgerInv
    OBVIOUS
  <1>7. TypeOK
    BY <1>2, <1>3, <1>4, <1>5, <1>6 DEF Init, TypeOK
  <1> QED BY <1>2, <1>5, <1>7 DEF Init, LedgerInv, RowsWithinWork

\* When the method ends, whatever it has committed.
LEMMA ReleaseStep ==
    ASSUME LedgerInv, Release, acct' \in Accounts, acct'.cash >= 0,
           table' \in Positions, Sound(table)'
    PROVE  LedgerInv'
  <1>1. /\ Empty \in Positions /\ Sound(Empty) /\ Pristine \in Accounts
        /\ NoPrices \in [Symbols -> Prices \cup {0}]
    BY LedgerAssumption DEF Empty, Positions, Sound, NoPosition, Pristine, Accounts, NoPrices
  <1>2. TypeOK'
    <2>1. work' \in [acct : Accounts, pos : Positions] /\ rows' \in Positions
      BY <1>1 DEF Release, Unused
    <2>2. \A s \in Symbols : table'[s].lots > 0 <=> table'[s].cost > 0
      BY DEF Sound, Positions
    <2>3. todo' \in Seq(Orders) /\ px' \in [Symbols -> Prices \cup {0}]
      BY <1>1 DEF Release
    <2> QED BY <2>1, <2>2, <2>3 DEF LedgerInv, TypeOK, Release
  <1>3. Sound(work'.pos) /\ Sound(rows')
    BY <1>1 DEF Release, Unused
  <1> QED BY <1>2, <1>3 DEF LedgerInv, Release, RowsWithinWork, Sound

\* The ledger with any batch, wherever its orders are from: it covers the batches
\* PaperLedger is given and those a rebalance computes.
BeginAny == \E b \in Seq(Orders), p \in [Symbols -> Prices] : BeginBatch(b, p)
AnyNext == BeginAny \/ Next

LEMMA NextIsAny == [Next]_vars => [AnyNext]_vars
  BY DEF AnyNext

LEMMA BeginIsAny == Begin => BeginAny
  BY LedgerAssumption DEF Begin, BeginAny

LEMMA BeginStep ==
  ASSUME LedgerInv, NEW b \in Seq(Orders), NEW p \in [Symbols -> Prices], BeginBatch(b, p)
  PROVE  LedgerInv'
  <1>0. Sequenced(b) \in Seq(Orders)
    BY SequencedIsInOrder
  <1>1. px' \in [Symbols -> Prices \cup {0}]
    BY DEF BeginBatch
  <1>2. batches' \in 0..MaxBatches
    BY LedgerAssumption DEF BeginBatch, LedgerInv, TypeOK
  <1>3. work' \in [acct : Accounts, pos : Positions]
    BY DEF BeginBatch, LedgerInv, TypeOK
  <1>4. TypeOK'
    BY <1>0, <1>1, <1>2, <1>3 DEF BeginBatch, committed, LedgerInv, TypeOK
  <1>5. /\ phase' = "batch" /\ px' \in [Symbols -> Prices]
        /\ table' = table /\ rows' = rows /\ work'.pos = table /\ ~open /\ ~open'
    BY DEF BeginBatch, committed, LedgerInv
  <1>6. Sound(table)' /\ Sound(work.pos)' /\ Sound(rows)'
    BY <1>5 DEF LedgerInv, Sound
  <1>7. RowsWithinWork'
    BY <1>4, <1>5 DEF TypeOK, Positions, RowsWithinWork, Rows
  <1> QED BY <1>4, <1>5, <1>6, <1>7 DEF LedgerInv

LEMMA LedgerStep == LedgerInv /\ [AnyNext]_vars => LedgerInv'
  <1> SUFFICES ASSUME LedgerInv, [AnyNext]_vars PROVE LedgerInv'
    OBVIOUS
  <1>1. CASE BeginAny
    <2>1. PICK b \in Seq(Orders), p \in [Symbols -> Prices] : BeginBatch(b, p)
      BY <1>1 DEF BeginAny
    <2> QED
      BY <2>1, BeginStep
  <1>2. CASE PassOver
    <2>1. todo' \in Seq(Orders)
      BY <1>2, OrderType DEF PassOver
    <2> QED BY <1>2, <2>1 DEF PassOver, committed, LedgerInv, TypeOK, Sound, RowsWithinWork, Rows
  <1>3. CASE Sell
    BY <1>3, SellStep
  <1>4. CASE Buy
    BY <1>4, BuyStep
  <1>5. CASE Commit
    <2>1. acct' \in Accounts /\ acct'.cash >= 0 /\ table' \in Positions /\ Sound(table)'
      BY <1>5, RowsType DEF Commit, LedgerInv, TypeOK, Sound
    <2> QED BY <1>5, <2>1, ReleaseStep DEF Commit
  <1>6. CASE Abort
    <2>1. acct' \in Accounts /\ acct'.cash >= 0 /\ table' \in Positions /\ Sound(table)'
      BY <1>6 DEF Abort, committed, LedgerInv, TypeOK, Sound
    <2> QED BY <1>6, <2>1, ReleaseStep DEF Abort
  <1>7. CASE ReadMarks
    <2>1. PICK p \in [Symbols -> Prices \cup {0}] :
            /\ px' = p
            /\ work' = [acct |-> acct,
                        pos |-> [s \in Symbols |->
                            IF table[s].lots > 0 /\ p[s] > 0
                              THEN [table[s] EXCEPT !.price = p[s]] ELSE table[s]]]
      BY <1>7 DEF ReadMarks
    <2>2. \A s \in Symbols : p[s] \in Nat /\ table[s] \in [lots : Nat, cost : Nat, price : Nat]
      <3>1. Prices \cup {0} \subseteq Nat
        BY LedgerAssumption
      <3> QED BY <3>1 DEF LedgerInv, TypeOK, Positions
    <2>3. work'.pos \in Positions /\ Sound(work'.pos)
      BY <2>1, <2>2 DEF LedgerInv, Positions, Sound
    <2>4. work' \in [acct : Accounts, pos : Positions]
      BY <2>1, <2>3 DEF LedgerInv, TypeOK
    <2> QED BY <1>7, <2>1, <2>3, <2>4
            DEF ReadMarks, committed, LedgerInv, TypeOK, Sound, RowsWithinWork
  <1>8. CASE WriteMarks
    <2>1. MarkedRows \in Positions /\ Sound(MarkedRows)
      BY DEF MarkedRows, LedgerInv, TypeOK, Positions, Sound
    <2>2. acct' \in Accounts /\ acct'.cash >= 0 /\ table' \in Positions /\ Sound(table)'
      BY <1>8, <2>1 DEF WriteMarks, LedgerInv, TypeOK, Sound
    <2> QED BY <1>8, <2>2, ReleaseStep DEF WriteMarks
  <1>9. Wipe => /\ acct' \in Accounts /\ acct'.cash >= 0
                /\ table' \in Positions /\ Sound(table)'
                /\ \A s \in Symbols : table'[s].lots = 0 /\ table'[s].cost = 0
    BY LedgerAssumption DEF Wipe, Pristine, Accounts, Empty, NoPosition, Positions, Sound
  <1>10. CASE ResetToPristine
    BY <1>9, <1>10 DEF ResetToPristine, LedgerInv, TypeOK, Sound, RowsWithinWork
  <1>11. CASE Purge
    <2>1. RowsWithinWork'
      BY <1>9, <1>11 DEF Purge, LedgerInv, TypeOK, Positions, RowsWithinWork, Rows
    <2>2. TypeOK'
      <3>1. purges' \in 0..MaxPurges
        BY <1>11, LedgerAssumption DEF Purge, LedgerInv, TypeOK
      <3> QED BY <1>9, <1>11, <3>1 DEF Purge, LedgerInv, TypeOK
    <2> QED BY <1>9, <1>11, <2>1, <2>2 DEF Purge, LedgerInv, Sound
  <1>12. CASE UNCHANGED vars
    BY <1>12 DEF vars, LedgerInv, TypeOK, Sound, RowsWithinWork, Rows
  <1> QED BY <1>1, <1>2, <1>3, <1>4, <1>5, <1>6, <1>7, <1>8, <1>10, <1>11, <1>12, BeginIsAny
          DEF AnyNext, Next

\* The tables meet their CHECK constraints and every variable has its type,
\* for any symbols, prices, fees, batches, faults and purges.
THEOREM LedgerTypeCorrect == Spec => []TypeOK
  <1>1. LedgerInv => TypeOK
    BY DEF LedgerInv
  <1> QED BY <1>1, LedgerInit, LedgerStep, NextIsAny, PTL DEF Spec

\* A batch never commits more of a symbol than it believes to hold.
THEOREM RowsStayWithin == Spec => []RowsWithinWork
  <1>1. LedgerInv => RowsWithinWork
    BY DEF LedgerInv
  <1> QED BY <1>1, LedgerInit, LedgerStep, NextIsAny, PTL DEF Spec

LEMMA BufferStep ==
    ASSUME LedgerInv, AnyNext, Working("BUY"), phase' = "batch", work' # work
    PROVE  1000 * work'.acct.cash >= Buffer * work.acct.cash
  <1>1. CASE Buy
    <2>1. PICK c : c = work.acct.cash
      OBVIOUS
    <2>2. c \in Nat /\ Outflow \in Nat /\ Outflow <= Spendable
      BY <1>1, <2>1, WithinSpendable DEF Buy, LedgerInv, TypeOK, Accounts
    <2>3. MaySpend(c, Outflow)
      BY <2>1, <2>2 DEF Spendable, MaySpend
    <2>4. LeavesBuffer(c, Outflow)
      BY <2>2, <2>3, BufferLeft
    <2>5. work'.acct.cash = AtLeast(0, c - Outflow)
      BY <1>1, <2>1 DEF Buy, LedgerInv, TypeOK, Accounts
    <2> QED BY <2>1, <2>4, <2>5 DEF LeavesBuffer
  <1>2. CASE ~Buy
    <2>1. phase = "batch" /\ todo # <<>> /\ Order.side = "BUY"
      BY DEF Working
    <2>2. /\ ~BeginAny /\ ~Begin /\ ~PassOver /\ ~Sell /\ ~Commit /\ ~Abort
          /\ ~ReadMarks /\ ~WriteMarks /\ ~ResetToPristine /\ ~Purge
      BY <2>1 DEF Working, BeginAny, Begin, BeginBatch, PassOver, Sell, Commit, Abort, Release,
                  ReadMarks, WriteMarks, ResetToPristine, Purge
    <2> QED BY <1>2, <2>2 DEF AnyNext, Next
  <1> QED BY <1>1, <1>2

LEMMA MarksStep ==
    ASSUME LedgerInv, AnyNext, phase = "marks", purges' = purges
    PROVE  \A s \in Symbols : /\ table'[s].lots = table[s].lots
                              /\ table'[s].cost = table[s].cost
  <1>1. CASE WriteMarks
    BY <1>1 DEF WriteMarks, MarkedRows, LedgerInv, TypeOK, Positions
  <1>2. CASE Abort
    BY <1>2 DEF Abort, committed
  <1>3. ~Purge
    BY DEF Purge, LedgerInv, TypeOK
  <1> QED BY <1>1, <1>2, <1>3
          DEF AnyNext, Next, Working, BeginAny, Begin, BeginBatch, PassOver, Sell, Buy, Commit,
              ReadMarks, ResetToPristine

\* Whatever the slippage, the fees and the order, a BUY that is filled leaves
\* the cash buffer in the account.
THEOREM BufferIsKept == Spec => BuyKeepsBuffer
  <1>1. LedgerInv /\ [AnyNext]_vars =>
          [Working("BUY") /\ phase' = "batch" /\ work' # work =>
              1000 * work'.acct.cash >= Buffer * work.acct.cash]_vars
    BY BufferStep
  <1> QED BY <1>1, LedgerInit, LedgerStep, NextIsAny, PTL DEF Spec, BuyKeepsBuffer

\* Marking to market moves no position, whatever was purged since the reading.
THEOREM MarksKeepPositions == Spec => MarksMoveNoPosition
  <1>1. LedgerInv /\ [AnyNext]_vars =>
          [phase = "marks" /\ purges' = purges =>
              \A s \in Symbols : /\ table'[s].lots = table[s].lots
                                 /\ table'[s].cost = table[s].cost]_vars
    BY MarksStep
  <1> QED BY <1>1, LedgerInit, LedgerStep, NextIsAny, PTL DEF Spec, MarksMoveNoPosition

\* What CHECK (cash >= 0.0) will be asked about when the batch commits.
Solvent == work.acct.cash >= 0

\* With fees that every lot sold earns back (the configuration the service runs
\* with charges none) the CHECK on cash never rolls a batch back, whatever the
\* orders, the slippage and the purges under it.
THEOREM NoFeesNoRollback ==
    ASSUME MinFee = 0, \A p \in Prices : FeePerLot <= p - Slip
    PROVE  Spec => []Solvent
  <1>1. Init => Solvent
    BY LedgerAssumption DEF Init, Solvent, Unused, Pristine
  <1>2. LedgerInv /\ Solvent /\ [Next]_vars => Solvent'
    <2> SUFFICES ASSUME LedgerInv, Solvent, [Next]_vars PROVE Solvent'
      OBVIOUS
    <2>1. CASE Sell
      <3>1. /\ Order.sym \in Symbols /\ Order.lots \in Nat /\ SellPrice \in Nat
            /\ px[Order.sym] \in Prices /\ Held.lots \in Nat /\ work.acct \in Accounts
        BY <2>1, OrderType DEF Sell, Working, Held, LedgerInv, TypeOK, Positions
      <3>2. Sold \in Nat
        BY <3>1 DEF Sold, AtMost
      <3>3. FeePerLot \in Nat /\ FeePerLot <= SellPrice
        BY <3>1, LedgerAssumption DEF SellPrice
      <3>4. Fee(Sold) = Sold * FeePerLot
        <4>1. Sold * FeePerLot \in Nat
          BY <3>2, <3>3, SMT
        <4> QED BY <4>1 DEF Fee, AtLeast
      <3>5. Sold * SellPrice - Sold * FeePerLot \in Nat
        BY <3>1, <3>2, <3>3, SMT
      <3>6. Proceeds \in Nat
        BY <3>4, <3>5 DEF Proceeds
      <3>7. work'.acct.cash = work.acct.cash + Proceeds
        <4>1. PICK closed \in BOOLEAN :
                work' = [acct |-> [work.acct EXCEPT
                                     !.cash = @ + Proceeds,
                                     !.realized = @ + Proceeds - (Held.cost - Kept),
                                     !.dust = @ + Kept - Remainder(closed).cost],
                         pos |-> [work.pos EXCEPT ![Order.sym] = Remainder(closed)]]
          BY <2>1 DEF Sell
        <4> QED BY <3>1, <4>1 DEF Accounts
      <3> QED BY <3>1, <3>6, <3>7 DEF Solvent, Accounts
    <2>2. CASE Buy
      <3>1. work.acct \in Accounts /\ Outflow \in Nat
        BY <2>2, WithinSpendable DEF Buy, LedgerInv, TypeOK
      <3>2. work'.acct.cash = AtLeast(0, work.acct.cash - Outflow)
        BY <2>2, <3>1 DEF Buy, Accounts
      <3> QED BY <3>1, <3>2 DEF AtLeast, Solvent, Accounts
    <2>3. CASE Begin \/ ReadMarks
      BY <2>3 DEF Begin, BeginBatch, ReadMarks, LedgerInv, TypeOK, Solvent
    <2>4. ASSUME Release PROVE Solvent'
      BY <2>4, LedgerAssumption DEF Release, Unused, Pristine, Solvent
    <2>5. CASE Commit \/ Abort \/ WriteMarks
      BY <2>4, <2>5 DEF Commit, Abort, WriteMarks
    <2>6. CASE PassOver \/ ResetToPristine \/ Purge \/ UNCHANGED vars
      BY <2>6 DEF PassOver, ResetToPristine, Purge, vars, Solvent
    <2> QED BY <2>1, <2>2, <2>3, <2>5, <2>6 DEF Next
  <1> QED BY <1>1, <1>2, LedgerInit, LedgerStep, NextIsAny, PTL DEF Spec

-----------------------------------------------------------------------------
(* Sums.                                                                   *)

Sum(f, S) == SumFunctionOnSet(f, S)
First(S) == CHOOSE x \in S : TRUE
Rest(S) == S \ {First(S)}

\* g holds the partial sums that the fold over S goes through.
Partial(f, S, g) ==
    g = [x \in SUBSET S |-> IF x = {} THEN 0 ELSE f[First(x)] + g[Rest(x)]]

LEMMA SumIsPartial == ASSUME NEW f, NEW S PROVE Sum(f, S) = (CHOOSE g : Partial(f, S, g))[S]
  BY DEF Sum, SumFunctionOnSet, FoldFunctionOnSet, MapThenFoldSet, Partial, First, Rest

LEMMA RestIsLess ==
    ASSUME NEW x, x # {}
    PROVE  /\ First(x) \in x /\ First(x) \notin Rest(x) /\ Rest(x) \subseteq x /\ Rest(x) # x
           /\ x = Rest(x) \cup {First(x)}
  BY DEF First, Rest

\* What the equation of a partial sum says of one set.
LEMMA PartialAt ==
    ASSUME NEW f, NEW S, NEW g, Partial(f, S, g), NEW x \in SUBSET S
    PROVE  g[x] = IF x = {} THEN 0 ELSE f[First(x)] + g[Rest(x)]
  BY DEF Partial

LEMMA PartialsAgree ==
    ASSUME NEW S, IsFiniteSet(S), NEW T \in SUBSET S, NEW f, NEW g, NEW h,
           Partial(f, S, g), Partial(f, T, h)
    PROVE  g[T] = h[T]
  <1> DEFINE D == {x \in SUBSET T : g[x] # h[x]}
  <1> SUFFICES ASSUME D # {} PROVE FALSE
    OBVIOUS
  <1>1. PICK x \in D : \A y \in D : ~ (y \subseteq x /\ y # x)
    <2>1. D \subseteq SUBSET S
      OBVIOUS
    <2> HIDE DEF D
    <2> QED BY <2>1, SmallestSubset
  <1>2. x \in SUBSET T /\ x \in SUBSET S /\ g[x] # h[x]
    OBVIOUS
  <1>3. x # {}
    BY <1>2, PartialAt
  <1>4. Rest(x) \in SUBSET T /\ g[Rest(x)] = h[Rest(x)]
    BY <1>1, <1>2, <1>3, RestIsLess
  <1>5. g[x] = f[First(x)] + g[Rest(x)] /\ h[x] = f[First(x)] + h[Rest(x)]
    BY <1>2, <1>3, PartialAt
  <1> QED BY <1>2, <1>4, <1>5

LEMMA PartialExists ==
    ASSUME NEW S, IsFiniteSet(S), NEW f
    PROVE  \E g : Partial(f, S, g)
  <1> DEFINE D == {x \in SUBSET S : ~ \E g : Partial(f, x, g)}
  <1> SUFFICES ASSUME D # {} PROVE FALSE
    OBVIOUS
  <1>1. PICK x \in D : \A y \in D : ~ (y \subseteq x /\ y # x)
    <2>1. D \subseteq SUBSET S
      OBVIOUS
    <2> HIDE DEF D
    <2> QED BY <2>1, SmallestSubset
  <1>2. x \in SUBSET S /\ ~ \E g : Partial(f, x, g)
    OBVIOUS
  <1>3. \A y \in SUBSET x : y # x => \E g : Partial(f, y, g)
    BY <1>1, <1>2
  <1>4. \A y \in SUBSET x : y # x =>
          Partial(f, y, CHOOSE g : Partial(f, y, g)) /\ IsFiniteSet(y)
    BY <1>2, <1>3, FS_Subset
  <1> DEFINE value(z) == IF z = {} THEN 0 ELSE f[First(z)] + Sum(f, Rest(z))
             G == [z \in SUBSET x |-> value(z)]
  <1>5. ASSUME NEW y \in SUBSET x, y # x PROVE Sum(f, y) = value(y)
    <2>1. PICK g : g = CHOOSE h : Partial(f, y, h)
      OBVIOUS
    <2>2. Partial(f, y, g) /\ Sum(f, y) = g[y]
      BY <1>4, <1>5, <2>1, SumIsPartial
    <2>3. CASE y = {}
      BY <2>2, <2>3, PartialAt
    <2>4. CASE y # {}
      <3>1. Rest(y) \in SUBSET y /\ Rest(y) \in SUBSET x /\ Rest(y) # x
        BY <1>5, <2>4, RestIsLess
      <3>2. g[Rest(y)] = Sum(f, Rest(y))
        <4>1. PICK h : h = CHOOSE k : Partial(f, Rest(y), k)
          OBVIOUS
        <4>2. Partial(f, Rest(y), h) /\ Sum(f, Rest(y)) = h[Rest(y)]
          BY <1>4, <3>1, <4>1, SumIsPartial
        <4>3. IsFiniteSet(y)
          BY <1>4, <1>5
        <4> QED BY <2>2, <3>1, <4>2, <4>3, PartialsAgree
      <3> QED BY <2>2, <2>4, <3>2, PartialAt
    <2> QED BY <2>3, <2>4
  <1>6. ASSUME NEW z \in SUBSET x, z # {} PROVE G[Rest(z)] = Sum(f, Rest(z))
    <2>1. Rest(z) \in SUBSET x /\ Rest(z) # x
      BY <1>6, RestIsLess
    <2> QED BY <1>5, <2>1
  <1>7. Partial(f, x, G)
    <2>1. ASSUME NEW z \in SUBSET x
          PROVE  value(z) = IF z = {} THEN 0 ELSE f[First(z)] + G[Rest(z)]
      BY <1>6
    <2>2. G = [z \in SUBSET x |-> IF z = {} THEN 0 ELSE f[First(z)] + G[Rest(z)]]
      <3> HIDE DEF value
      <3> QED BY <2>1
    <2> HIDE DEF G, value
    <2> QED BY <2>2 DEF Partial
  <1> QED BY <1>2, <1>7

\* How the fold takes a sum apart.
LEMMA SumUnfolds ==
    ASSUME NEW S, IsFiniteSet(S), NEW f
    PROVE  Sum(f, S) = IF S = {} THEN 0 ELSE f[First(S)] + Sum(f, Rest(S))
  <1>1. PICK g : g = CHOOSE h : Partial(f, S, h)
    OBVIOUS
  <1>2. Partial(f, S, g) /\ Sum(f, S) = g[S]
    BY <1>1, PartialExists, SumIsPartial
  <1>3. S # {} => g[Rest(S)] = Sum(f, Rest(S))
    <2> HAVE S # {}
    <2>1. Rest(S) \in SUBSET S /\ IsFiniteSet(Rest(S))
      BY RestIsLess, FS_Subset
    <2>2. PICK h : h = CHOOSE k : Partial(f, Rest(S), k)
      OBVIOUS
    <2>3. Partial(f, Rest(S), h) /\ Sum(f, Rest(S)) = h[Rest(S)]
      BY <2>1, <2>2, PartialExists, SumIsPartial
    <2> QED BY <1>2, <2>1, <2>3, PartialsAgree
  <1> QED BY <1>2, <1>3, PartialAt

Ints(f, S) == \A x \in S : f[x] \in Int

LEMMA SumType ==
    ASSUME NEW S, IsFiniteSet(S), NEW f, Ints(f, S)
    PROVE  Sum(f, S) \in Int
  <1> DEFINE D == {x \in SUBSET S : Sum(f, x) \notin Int}
  <1> SUFFICES ASSUME D # {} PROVE FALSE
    OBVIOUS
  <1>1. PICK x \in D : \A y \in D : ~ (y \subseteq x /\ y # x)
    <2>1. D \subseteq SUBSET S
      OBVIOUS
    <2> HIDE DEF D
    <2> QED BY <2>1, SmallestSubset
  <1>2. x \in SUBSET S /\ IsFiniteSet(x) /\ Sum(f, x) \notin Int
    BY FS_Subset
  <1>3. x # {}
    BY <1>2, SumUnfolds
  <1>4. Sum(f, Rest(x)) \in Int /\ f[First(x)] \in Int
    BY <1>1, <1>2, <1>3, RestIsLess DEF Ints
  <1> QED BY <1>2, <1>3, <1>4, SumUnfolds

\* Any element may be taken out first.
LEMMA SumRemoves ==
    ASSUME NEW S, IsFiniteSet(S), NEW f, Ints(f, S), NEW s \in S
    PROVE  Sum(f, S) = f[s] + Sum(f, S \ {s})
  <1> DEFINE D == {x \in SUBSET S : \E e \in x : Sum(f, x) # f[e] + Sum(f, x \ {e})}
  <1> SUFFICES ASSUME D # {} PROVE FALSE
    OBVIOUS
  <1>1. PICK x \in D : \A y \in D : ~ (y \subseteq x /\ y # x)
    <2>1. D \subseteq SUBSET S
      OBVIOUS
    <2> HIDE DEF D
    <2> QED BY <2>1, SmallestSubset
  <1>2. x \in SUBSET S /\ IsFiniteSet(x) /\ x # {}
    BY FS_Subset
  <1>3. PICK e \in x : Sum(f, x) # f[e] + Sum(f, x \ {e})
    BY <1>1
  <1> DEFINE c == First(x)
  <1>4. c \in x /\ Sum(f, x) = f[c] + Sum(f, x \ {c})
    BY <1>2, SumUnfolds, RestIsLess DEF Rest
  <1> HIDE DEF c
  <1>5. c # e
    BY <1>3, <1>4
  <1>6. /\ Sum(f, x \ {c}) = f[e] + Sum(f, (x \ {c}) \ {e})
        /\ Sum(f, x \ {e}) = f[c] + Sum(f, (x \ {e}) \ {c})
    <2>1. x \ {c} \notin D /\ x \ {e} \notin D
      <3> HIDE DEF D
      <3> QED BY <1>1, <1>4
    <2> QED BY <1>2, <1>4, <1>5, <2>1
  <1>7. (x \ {c}) \ {e} = (x \ {e}) \ {c}
    OBVIOUS
  <1>8. f[c] \in Int /\ f[e] \in Int /\ Sum(f, (x \ {c}) \ {e}) \in Int
    <2>1. (x \ {c}) \ {e} \in SUBSET S
      BY <1>2
    <2>2. IsFiniteSet((x \ {c}) \ {e}) /\ Ints(f, (x \ {c}) \ {e})
      BY <2>1, FS_Subset DEF Ints
    <2> QED BY <1>2, <1>4, <2>2, SumType DEF Ints
  <1> QED BY <1>3, <1>4, <1>6, <1>7, <1>8

\* The sum depends on the values only.
LEMMA SumsEqual ==
    ASSUME NEW S, IsFiniteSet(S), NEW f, NEW h, \A x \in S : f[x] = h[x]
    PROVE  Sum(f, S) = Sum(h, S)
  <1> DEFINE D == {x \in SUBSET S : Sum(f, x) # Sum(h, x)}
  <1> SUFFICES ASSUME D # {} PROVE FALSE
    OBVIOUS
  <1>1. PICK x \in D : \A y \in D : ~ (y \subseteq x /\ y # x)
    <2>1. D \subseteq SUBSET S
      OBVIOUS
    <2> HIDE DEF D
    <2> QED BY <2>1, SmallestSubset
  <1>2. x \in SUBSET S /\ IsFiniteSet(x) /\ Sum(f, x) # Sum(h, x)
    BY FS_Subset
  <1>3. x # {}
    BY <1>2, SumUnfolds
  <1>4. Sum(f, Rest(x)) = Sum(h, Rest(x)) /\ f[First(x)] = h[First(x)]
    BY <1>1, <1>2, <1>3, RestIsLess
  <1> QED BY <1>2, <1>3, <1>4, SumUnfolds

\* A value that changes changes the sum by as much.
LEMMA SumChanges ==
    ASSUME NEW S, IsFiniteSet(S), NEW f, Ints(f, S), NEW g, Ints(g, S), NEW s \in S,
           \A t \in S : t # s => f[t] = g[t]
    PROVE  Sum(f, S) \in Int /\ Sum(g, S) = Sum(f, S) - f[s] + g[s]
  <1>1. /\ Sum(f, S) = f[s] + Sum(f, S \ {s})
        /\ Sum(g, S) = g[s] + Sum(g, S \ {s})
    BY SumRemoves
  <1>2. IsFiniteSet(S \ {s}) /\ Ints(f, S \ {s})
    BY FS_Subset DEF Ints
  <1>3. /\ Sum(f, S \ {s}) = Sum(g, S \ {s})
        /\ Sum(f, S \ {s}) \in Int
    BY <1>2, SumsEqual, SumType
  <1>4. f[s] \in Int /\ g[s] \in Int /\ Sum(f, S) \in Int
    BY SumType DEF Ints
  <1> QED BY <1>1, <1>3, <1>4

LEMMA SumOfZeros ==
    ASSUME NEW S, IsFiniteSet(S), NEW f, \A x \in S : f[x] = 0
    PROVE  Sum(f, S) = 0
  <1> DEFINE D == {x \in SUBSET S : Sum(f, x) # 0}
  <1> SUFFICES ASSUME D # {} PROVE FALSE
    OBVIOUS
  <1>1. PICK x \in D : \A y \in D : ~ (y \subseteq x /\ y # x)
    <2>1. D \subseteq SUBSET S
      OBVIOUS
    <2> HIDE DEF D
    <2> QED BY <2>1, SmallestSubset
  <1>2. x \in SUBSET S /\ IsFiniteSet(x) /\ Sum(f, x) # 0
    BY FS_Subset
  <1>3. x # {}
    BY <1>2, SumUnfolds
  <1>4. Sum(f, Rest(x)) = 0 /\ f[First(x)] = 0
    BY <1>1, <1>2, <1>3, RestIsLess
  <1> QED BY <1>2, <1>3, <1>4, SumUnfolds

-----------------------------------------------------------------------------
(* Money.                                                                  *)

\* What Balanced says of the tables, said of an account and its positions.
Square(a, pos) == a.cash + Cost(pos) + a.dust = InitialCash + a.realized - a.buyFees

\* As long as the script has not purged the file: the books balance in the tables
\* and in the middle of a batch, a batch works on what its transaction sees, and
\* marks waiting to be written are those of the positions in the table.
MoneyInv ==
    purges = 0 =>
        /\ Square(acct, table) /\ nav = acct.cash + Equity(table)
        /\ phase = "batch" => Rows = work.pos /\ Square(work.acct, work.pos)
        /\ phase = "marks" =>
              /\ work.acct = acct
              /\ \A s \in Symbols : /\ work.pos[s].lots = table[s].lots
                                    /\ work.pos[s].cost = table[s].cost
                                    /\ table[s].lots = 0 => work.pos[s] = table[s]

LEMMA CostType == ASSUME NEW pos \in Positions PROVE Cost(pos) \in Int
  <1> DEFINE cost == [s \in Symbols |-> pos[s].cost]
  <1>1. Ints(cost, Symbols)
    BY DEF Ints, Positions
  <1>2. Cost(pos) = Sum(cost, Symbols)
    BY DEF Cost, Sum
  <1> HIDE DEF cost
  <1> QED BY <1>1, <1>2, SumType, LedgerAssumption

\* A trade changes the cost of all positions by what it changes that of its own.
LEMMA CostChanges ==
    ASSUME NEW pos \in Positions, NEW s \in Symbols, NEW p \in [lots : Nat, cost : Nat, price : Nat]
    PROVE  Cost([pos EXCEPT ![s] = p]) = Cost(pos) - pos[s].cost + p.cost
  <1> DEFINE new == [pos EXCEPT ![s] = p]
             before == [t \in Symbols |-> pos[t].cost]
             after == [t \in Symbols |-> new[t].cost]
  <1>1. Cost(pos) = Sum(before, Symbols) /\ Cost(new) = Sum(after, Symbols)
    BY DEF Cost, Sum
  <1>2. /\ Ints(before, Symbols) /\ Ints(after, Symbols)
        /\ before[s] = pos[s].cost /\ after[s] = p.cost
        /\ \A t \in Symbols : t # s => before[t] = after[t]
    BY DEF Ints, Positions
  <1> HIDE DEF before, after, new
  <1>3. Cost(new) = Cost(pos) - pos[s].cost + p.cost
    BY <1>1, <1>2, SumChanges, LedgerAssumption
  <1> QED BY <1>3 DEF new

LEMMA EmptyIsFree == Cost(Empty) = 0 /\ Equity(Empty) = 0
  <1> DEFINE cost == [s \in Symbols |-> Empty[s].cost]
             value == [s \in Symbols |-> Empty[s].lots * Empty[s].price]
  <1>1. Cost(Empty) = Sum(cost, Symbols) /\ Equity(Empty) = Sum(value, Symbols)
    BY DEF Cost, Equity, Sum
  <1>2. \A s \in Symbols : cost[s] = 0 /\ value[s] = 0
    BY DEF Empty, NoPosition
  <1> HIDE DEF cost, value
  <1> QED BY <1>1, <1>2, SumOfZeros, LedgerAssumption

LEMMA PristineIsSquare == Square(Pristine, Empty) /\ InitialCash = Pristine.cash + Equity(Empty)
  BY EmptyIsFree, LedgerAssumption DEF Square, Pristine

\* What a batch writes is what it goes on from.
LEMMA SellKeepsRows == ASSUME LedgerInv, Sell, Rows = work.pos PROVE Rows' = work'.pos
  <1>1. PICK closed \in BOOLEAN :
          /\ work'.pos = [work.pos EXCEPT ![Order.sym] = Remainder(closed)]
          /\ rows' = SoldRows(Remainder(closed))
    BY DEF Sell
  <1>2. Rows' = SoldRows(Remainder(closed))
    BY <1>1 DEF Rows, Sell
  <1>3. Order.sym \in Symbols /\ Held.lots # 0
    <2>1. phase = "batch" /\ todo # <<>> /\ Held.lots > 0
      BY DEF Sell, Working
    <2>2. Order.sym \in Symbols
      BY <2>1, OrderType
    <2> QED BY <2>1, <2>2
  <1>4. SoldRows(Remainder(closed)) = [Rows EXCEPT ![Order.sym] = Remainder(closed)]
    BY <1>3 DEF SoldRows, Held
  <1> QED BY <1>1, <1>2, <1>4

LEMMA BuyKeepsRows == ASSUME LedgerInv, Buy, Rows = work.pos PROVE Rows' = work'.pos
  BY DEF Rows, Buy

\* A BUY that is filled takes no more than the cash there is.
LEMMA BuyIsCovered == ASSUME LedgerInv, Buy PROVE Outflow <= work.acct.cash
  <1>1. PICK c \in Nat : c = work.acct.cash
    BY WithinSpendable DEF Buy, LedgerInv, TypeOK, Accounts
  <1>2. PICK n \in Nat : n = c * (1000 - Buffer) /\ n <= 1000 * c
    BY LedgerAssumption, SMT
  <1>3. n \div 1000 \in Nat /\ n \div 1000 <= c
    BY <1>2, SMT
  <1>4. Spendable = AtLeast(0, n \div 1000)
    BY <1>1, <1>2 DEF Spendable
  <1>5. Outflow \in Nat /\ Outflow <= Spendable
    BY WithinSpendable DEF Buy
  <1> QED BY <1>1, <1>3, <1>4, <1>5 DEF AtLeast

LEMMA SaleBalances ==
    ASSUME NEW c \in Int, NEW k \in Int, NEW d \in Int, NEW i \in Int, NEW r \in Int,
           NEW b \in Int, NEW h \in Int, NEW e \in Int, NEW q \in Int, NEW p \in Int,
           c + k + d = i + r - b
    PROVE  (c + p) + (k - h + e) + (d + q - e) = i + (r + p - (h - q)) - b
  OBVIOUS

LEMMA SellIsSquare ==
    ASSUME LedgerInv, Sell, Square(work.acct, work.pos), Rows = work.pos
    PROVE  Square(work'.acct, work'.pos) /\ Rows' = work'.pos
  <1>1. PICK closed \in BOOLEAN :
          /\ Left = 0 => closed
          /\ work' = [acct |-> [work.acct EXCEPT
                                  !.cash = @ + Proceeds,
                                  !.realized = @ + Proceeds - (Held.cost - Kept),
                                  !.dust = @ + Kept - Remainder(closed).cost],
                      pos |-> [work.pos EXCEPT ![Order.sym] = Remainder(closed)]]
          /\ rows' = SoldRows(Remainder(closed))
    BY DEF Sell
  <1>2. /\ Order.sym \in Symbols /\ Order.lots \in Nat \ {0} /\ SellPrice \in Nat
        /\ Held \in [lots : Nat, cost : Nat, price : Nat] /\ Held.lots # 0
        /\ Held.lots <= Held.cost
    <2>1. Order.sym \in Symbols /\ Order.lots \in Nat \ {0} /\ SellPrice \in Nat
      BY OrderType DEF Sell, Working
    <2> QED BY <2>1 DEF Sell, Held, LedgerInv, TypeOK, Positions, Sound
  <1>3. Sold \in Nat /\ Left \in 0..Held.lots
    BY <1>2 DEF AtMost, Sold, Left
  <1>4. Kept \in Nat
    BY <1>2, <1>3, KeptCost DEF Kept
  <1>5. Proceeds \in Int
    <2>1. Sold * SellPrice \in Nat
      BY <1>2, <1>3, SMT
    <2> QED BY <1>3, <2>1, FeeType DEF Proceeds
  <1>6. Remainder(closed) \in [lots : Nat, cost : Nat, price : Nat]
    BY <1>2, <1>3, <1>4 DEF Remainder, NoPosition
  <1>7. work.acct \in Accounts /\ work.pos \in Positions /\ Cost(work.pos) \in Int
    BY CostType DEF LedgerInv, TypeOK
  <1>8. Cost(work'.pos) = Cost(work.pos) - Held.cost + Remainder(closed).cost
    BY <1>1, <1>2, <1>6, <1>7, CostChanges DEF Held
  <1>9. /\ work'.acct.cash = work.acct.cash + Proceeds
        /\ work'.acct.realized = work.acct.realized + Proceeds - (Held.cost - Kept)
        /\ work'.acct.dust = work.acct.dust + Kept - Remainder(closed).cost
        /\ work'.acct.buyFees = work.acct.buyFees
    BY <1>1, <1>7 DEF Accounts
  <1>10. Square(work'.acct, work'.pos)
    <2>1. /\ work.acct.cash \in Int /\ work.acct.realized \in Int /\ work.acct.dust \in Nat
          /\ work.acct.buyFees \in Nat /\ Held.cost \in Nat /\ Remainder(closed).cost \in Nat
          /\ InitialCash \in Nat
      BY <1>2, <1>6, <1>7, LedgerAssumption DEF Accounts
    <2>2. work.acct.cash + Cost(work.pos) + work.acct.dust
            = InitialCash + work.acct.realized - work.acct.buyFees
      BY DEF Square
    <2>3. (work.acct.cash + Proceeds) + (Cost(work.pos) - Held.cost + Remainder(closed).cost)
            + (work.acct.dust + Kept - Remainder(closed).cost)
            = InitialCash + (work.acct.realized + Proceeds - (Held.cost - Kept))
              - work.acct.buyFees
      <3>1. /\ work.acct.dust \in Int /\ work.acct.buyFees \in Int /\ Held.cost \in Int
            /\ Remainder(closed).cost \in Int /\ InitialCash \in Int /\ Kept \in Int
        BY <1>4, <2>1
      <3>2. /\ work.acct.cash \in Int /\ work.acct.realized \in Int
            /\ Cost(work.pos) \in Int /\ Proceeds \in Int
        BY <1>5, <1>7, <2>1
      <3> QED BY <2>2, <3>1, <3>2, SaleBalances
    <2> QED BY <1>8, <1>9, <2>3 DEF Square
  <1> QED BY <1>10, SellKeepsRows

LEMMA BuyIsSquare ==
    ASSUME LedgerInv, Buy, Square(work.acct, work.pos), Rows = work.pos
    PROVE  Square(work'.acct, work'.pos) /\ Rows' = work'.pos
  <1>1. work' = [acct |-> [work.acct EXCEPT
                             !.cash = AtLeast(0, @ - Outflow),
                             !.buyFees = @ + Fee(Bought)],
                 pos |-> [work.pos EXCEPT ![Order.sym] = Add(@, Bought)]]
    BY DEF Buy
  <1>2. /\ Order.sym \in Symbols /\ BuyPrice \in Nat \ {0} /\ Bought \in Nat \ {0}
        /\ Fee(Bought) \in Nat /\ Outflow \in Nat /\ Outflow <= Spendable
        /\ work.acct \in Accounts /\ work.acct.cash \in Nat
    <2>1. Working("BUY") /\ ~Unaffordable /\ phase = "batch" /\ todo # <<>>
      BY DEF Buy, Working
    <2>2. Order.sym \in Symbols /\ BuyPrice \in Nat \ {0}
      BY <2>1, OrderType
    <2>3. /\ Bought \in Nat \ {0} /\ Outflow \in Nat /\ Outflow <= Spendable
          /\ work.acct.cash > 0
      BY <2>1, WithinSpendable
    <2>4. Fee(Bought) \in Nat
      BY <2>3, FeeType
    <2>5. work.acct \in Accounts /\ work.acct.cash \in Int
      BY DEF LedgerInv, TypeOK, Accounts
    <2> QED BY <2>2, <2>3, <2>4, <2>5
  <1>3. Outflow <= work.acct.cash
    BY BuyIsCovered
  <1>4. Held \in [lots : Nat, cost : Nat, price : Nat] /\ Held.lots <= Held.cost
        /\ work.pos \in Positions /\ Cost(work.pos) \in Int
    BY <1>2, CostType DEF Held, LedgerInv, TypeOK, Positions, Sound
  <1>5. Bought * BuyPrice \in Nat
    BY <1>2, SMT
  <1>6. Add(Held, Bought) \in [lots : Nat, cost : Nat, price : Nat]
        /\ Add(Held, Bought).cost = Held.cost + Bought * BuyPrice
    BY <1>2, <1>4, <1>5 DEF Add
  <1>7. work'.pos = [work.pos EXCEPT ![Order.sym] = Add(Held, Bought)]
    BY <1>1 DEF Held
  <1>8. Cost(work'.pos) = Cost(work.pos) + Bought * BuyPrice
    <2>1. Cost(work'.pos) = Cost(work.pos) - Held.cost + Add(Held, Bought).cost
      BY <1>2, <1>4, <1>6, <1>7, CostChanges DEF Held
    <2> QED BY <1>4, <1>5, <1>6, <2>1
  <1>9. /\ work'.acct.cash = work.acct.cash - Outflow
        /\ work'.acct.buyFees = work.acct.buyFees + Fee(Bought)
        /\ work'.acct.realized = work.acct.realized /\ work'.acct.dust = work.acct.dust
    <2>1. AtLeast(0, work.acct.cash - Outflow) = work.acct.cash - Outflow
      BY <1>2, <1>3 DEF AtLeast
    <2>2. work'.acct = [work.acct EXCEPT !.cash = AtLeast(0, @ - Outflow),
                                         !.buyFees = @ + Fee(Bought)]
      BY <1>1
    <2> QED BY <1>2, <2>1, <2>2 DEF Accounts
  <1>10. Square(work'.acct, work'.pos)
    <2>1. /\ work.acct.realized \in Int /\ work.acct.dust \in Nat
          /\ work.acct.buyFees \in Nat /\ InitialCash \in Nat
      BY <1>2, LedgerAssumption DEF Accounts
    <2> QED BY <1>2, <1>4, <1>5, <1>8, <1>9, <2>1 DEF Square, Outflow
  <1> QED BY <1>10, BuyKeepsRows

\* The marks that are written are those the new NAV was computed from.
LEMMA MarksAreWritten ==
    ASSUME LedgerInv,
           \A s \in Symbols : /\ work.pos[s].lots = table[s].lots
                              /\ work.pos[s].cost = table[s].cost
                              /\ table[s].lots = 0 => work.pos[s] = table[s]
    PROVE  MarkedRows = work.pos /\ Cost(MarkedRows) = Cost(table)
  <1>1. /\ table \in Positions /\ work.pos \in Positions
    BY DEF LedgerInv, TypeOK
  <1>2. ASSUME NEW s \in Symbols PROVE MarkedRows[s] = work.pos[s]
    <2>1. table[s] \in [lots : Nat, cost : Nat, price : Nat]
          /\ work.pos[s] \in [lots : Nat, cost : Nat, price : Nat]
      BY <1>1 DEF Positions
    <2>2. CASE table[s].lots = 0
      BY <2>2 DEF MarkedRows
    <2>3. CASE table[s].lots # 0
      <3>1. MarkedRows[s] = [table[s] EXCEPT !.price = work.pos[s].price]
        BY <2>1, <2>3 DEF MarkedRows
      <3> QED BY <2>1, <3>1
    <2> QED BY <2>2, <2>3
  <1>3. MarkedRows = work.pos
    BY <1>1, <1>2 DEF MarkedRows, Positions
  <1>4. [s \in Symbols |-> work.pos[s].cost] = [s \in Symbols |-> table[s].cost]
    OBVIOUS
  <1> QED BY <1>3, <1>4 DEF Cost

LEMMA MoneyInit == Init => MoneyInv
  BY PristineIsSquare DEF Init, MoneyInv

LEMMA MoneyStep == LedgerInv /\ MoneyInv /\ [AnyNext]_vars => MoneyInv'
  <1> SUFFICES ASSUME LedgerInv, MoneyInv, [AnyNext]_vars, purges' = 0 PROVE MoneyInv'
    BY DEF MoneyInv
  <1>1. ~ Purge /\ purges = 0
    <2>1. ~ Purge
      BY DEF Purge, LedgerInv, TypeOK
    <2>2. [AnyNext]_vars /\ ~ Purge => purges' = purges
      BY Zenon DEF AnyNext, Next, vars, BeginAny, Begin, BeginBatch, PassOver, Sell, Buy, Commit, Abort, Release,
                   ReadMarks, WriteMarks, ResetToPristine
    <2> QED BY <2>1, <2>2
  <1>2. /\ Square(acct, table) /\ nav = acct.cash + Equity(table)
        /\ phase = "batch" => Rows = work.pos /\ Square(work.acct, work.pos)
    BY <1>1 DEF MoneyInv
  <1>3. ASSUME phase' = "idle", Square(acct, table)', (nav = acct.cash + Equity(table))'
        PROVE  MoneyInv'
    BY <1>3 DEF MoneyInv
  <1>4. CASE BeginAny
    BY <1>1, <1>2, <1>4 DEF BeginAny, BeginBatch, committed, MoneyInv, Rows, LedgerInv
  <1>5. CASE PassOver
    BY <1>1, <1>2, <1>5 DEF PassOver, committed, MoneyInv, Rows
  <1>6. CASE Sell
    BY <1>1, <1>2, <1>6, SellIsSquare DEF Sell, Working, committed, MoneyInv
  <1>7. CASE Buy
    BY <1>1, <1>2, <1>7, BuyIsSquare DEF Buy, Working, committed, MoneyInv
  <1>8. CASE Commit
    BY <1>2, <1>3, <1>8 DEF Commit, Release
  <1>9. CASE Abort
    BY <1>2, <1>3, <1>9 DEF Abort, committed, Release
  <1>10. CASE ReadMarks
    <2>1. PICK p \in [Symbols -> Prices \cup {0}] :
            work' = [acct |-> acct,
                     pos |-> [s \in Symbols |->
                         IF table[s].lots > 0 /\ p[s] > 0
                           THEN [table[s] EXCEPT !.price = p[s]] ELSE table[s]]]
      BY <1>10 DEF ReadMarks
    <2>2. \A s \in Symbols : /\ work'.pos[s].lots = table[s].lots
                             /\ work'.pos[s].cost = table[s].cost
                             /\ table[s].lots = 0 => work'.pos[s] = table[s]
      BY <2>1 DEF LedgerInv, TypeOK, Positions
    <2> QED BY <1>2, <1>10, <2>1, <2>2 DEF ReadMarks, committed, MoneyInv
  <1>11. CASE WriteMarks
    <2>1. /\ work.acct = acct /\ MarkedRows = work.pos /\ Cost(MarkedRows) = Cost(table)
      BY <1>1, <1>11, MarksAreWritten DEF WriteMarks, MoneyInv
    <2> QED BY <1>2, <1>3, <1>11, <2>1 DEF WriteMarks, Release, Square
  <1>12. CASE ResetToPristine
    BY <1>3, <1>12, PristineIsSquare DEF ResetToPristine, Wipe
  <1>13. CASE UNCHANGED vars
    BY <1>1, <1>2, <1>13 DEF vars, MoneyInv, Rows
  <1> QED BY <1>1, <1>4, <1>5, <1>6, <1>7, <1>8, <1>9, <1>10, <1>11, <1>12, <1>13,
             BeginIsAny DEF AnyNext, Next

\* Money is neither made nor lost, for any symbols, prices, slippage, fees and
\* orders, through clamps, partial sales, rollbacks, marks and resets, until the
\* script purges the file under the bot.
THEOREM BooksAlwaysBalance == Spec => []BooksBalance
  <1>1. MoneyInv => BooksBalance
    BY DEF MoneyInv, Square, BooksBalance, Balanced
  <1> QED BY <1>1, LedgerInit, LedgerStep, MoneyInit, MoneyStep, NextIsAny, PTL DEF Spec

\* The stored NAV is the cash and the positions at the prices stored beside them,
\* for any symbols, prices and batches, until the script purges the file.
THEOREM NavAlwaysMatches == Spec => []NavMatchesTable
  <1>1. MoneyInv => NavMatchesTable
    BY DEF MoneyInv, NavMatchesTable
  <1> QED BY <1>1, LedgerInit, LedgerStep, MoneyInit, MoneyStep, NextIsAny, PTL DEF Spec

-----------------------------------------------------------------------------
(* A rebalance under way.                                                  *)

\* What the goal asks of a symbol and what n lots of it are worth, in thousandths of
\* money.
Aim(s) == goal.target[s] * goal.nav
Level(s, n) == 1000 * (n * px[s])

\* The account of the batch at its prices.
Worth == work.acct.cash + Sum([s \in Symbols |-> work.pos[s].lots * px[s]], Symbols)

\* Where an order leads when it is filled in full: half a lot off the aim at most.
Leads(o, n) ==
    /\ Level(o.sym, n) <= Aim(o.sym) + 500 * px[o.sym]
    /\ o.sym # Proxy => Level(o.sym, n) >= Aim(o.sym) - 500 * px[o.sym]
OnTheWay(o) ==
    IF o.side = "SELL" THEN Leads(o, work.pos[o.sym].lots - o.lots)
                       ELSE Leads(o, work.pos[o.sym].lots + o.lots)

\* Too little is left for the BUY of a symbol, now and, once the SELLs are done, later.
Poor(s, c) ==
    1000 * c < Buffer * goal.nav
        + 1000 * (MinFee + AtLeast(MinTicket, 2 * (px[s] + Slip + FeePerLot)))

\* What holds of a symbol that no order is left for.
Settled(s) ==
    LET n == work.pos[s].lots IN
    /\ Level(s, n) <= Aim(s) + Tolerated + 500 * px[s]
    /\ s # Proxy =>
          \/ Level(s, n) >= Aim(s) - Tolerated - 1500 * px[s]
          \/ Poor(s, work.acct.cash) /\ \A k \in DOMAIN todo : todo[k].side = "BUY"

\* A rebalance under way: the orders left lead to the goal, every other symbol has
\* reached it, and the account is worth no more than when the batch was computed.
UnderWay ==
    /\ goal.target \in [Symbols -> Shares] /\ goal.nav \in Nat
    /\ Rows = work.pos
    /\ Distinct(todo) /\ SalesFirst(todo)
    /\ Worth <= goal.nav
    /\ \A k \in DOMAIN todo : OnTheWay(todo[k])
    /\ \A s \in Symbols : (\A k \in DOMAIN todo : todo[k].sym # s) => Settled(s)

GoalInv == goal # NoGoal => phase = "batch" /\ UnderWay

-----------------------------------------------------------------------------
(* The orders of a rebalance.                                              *)

LEMMA SumIsNat ==
    ASSUME NEW S, IsFiniteSet(S), NEW f, \A x \in S : f[x] \in Nat
    PROVE  Sum(f, S) \in Nat
  <1> DEFINE D == {x \in SUBSET S : Sum(f, x) \notin Nat}
  <1> SUFFICES ASSUME D # {} PROVE FALSE
    OBVIOUS
  <1>1. PICK x \in D : \A y \in D : ~ (y \subseteq x /\ y # x)
    <2>1. D \subseteq SUBSET S
      OBVIOUS
    <2> HIDE DEF D
    <2> QED BY <2>1, SmallestSubset
  <1>2. x \in SUBSET S /\ IsFiniteSet(x) /\ Sum(f, x) \notin Nat
    BY FS_Subset
  <1>3. x # {}
    BY <1>2, SumUnfolds
  <1>4. Sum(f, Rest(x)) \in Nat /\ f[First(x)] \in Nat
    BY <1>1, <1>2, <1>3, RestIsLess
  <1> QED BY <1>2, <1>3, <1>4, SumUnfolds

LEMMA ProductIsNat == \A a, b \in Nat : a * b \in Nat
  BY SMT

LEMMA SumTimes ==
    \A a, b, c \in Int : (a + b) * c = a * c + b * c /\ (a - b) * c = a * c - b * c
  BY SMT

LEMMA MagnitudeIsNat == \A n \in Int : Magnitude(n) \in Nat
  BY DEF Magnitude

LEMMA QuotientIsClose ==
    ASSUME NEW a \in Nat, NEW b \in Nat \ {0}
    PROVE  a \div b \in Nat /\ (a \div b) * b <= a /\ a < (a \div b) * b + b
  BY SMT

Rounds(n, d, p) ==
    n * (2000 * p) <= 2 * d + 1000 * p /\ 2 * d + 1000 * p < n * (2000 * p) + 2000 * p
Nears(n, d, p) == 1000 * (n * p) <= d + 500 * p /\ 1000 * (n * p) >= d - 500 * p

LEMMA HalfALot == \A d, p, n \in Nat : Rounds(n, d, p) => Nears(n, d, p)
  <1> TAKE d, p, n \in Nat
  <1>1. PICK v \in Nat : v = n * p
    BY ProductIsNat
  <1>2. n * (2000 * p) = 2000 * (n * p)
    BY SMT
  <1> QED BY <1>1, <1>2 DEF Rounds, Nears

\* Rounded to a lot, an order is half a lot off its drift d at most.
LEMMA RoundedToALot ==
    ASSUME NEW d \in Nat, NEW p \in Nat \ {0}, NEW n, n = (2 * d + 1000 * p) \div (2000 * p)
    PROVE  n \in Nat /\ Nears(n, d, p)
  <1>1. PICK a \in Nat : a = 2 * d + 1000 * p
    OBVIOUS
  <1>2. PICK b \in Nat \ {0} : b = 2000 * p
    OBVIOUS
  <1>3. n = a \div b
    BY <1>1, <1>2
  <1>4. n \in Nat /\ n * b <= a /\ a < n * b + b
    BY <1>3, QuotientIsClose
  <1>5. n \in Nat /\ p \in Nat /\ Rounds(n, d, p)
    BY <1>1, <1>2, <1>4 DEF Rounds
  <1> QED BY <1>5, HalfALot

LEMMA PricesArePositive == ASSUME NEW p \in Prices PROVE p \in Nat \ {0} /\ p - Slip \in Nat
  BY LedgerAssumption

LEMMA SharesAreNat == \A n \in Shares : n \in Nat
  BY DEF Shares

LEMMA TargetType == \A t \in Targets : t \in [Symbols -> Shares]
  BY RebalancerAssumption

LEMMA WeightIsNat == \A t \in [Symbols -> Shares], s \in Symbols : t[s] \in Nat
  BY SharesAreNat

LEMMA BandType == Band \in Nat /\ MinOrder \in Nat
  BY RebalancerAssumption, SharesAreNat

LEMMA PortfolioType ==
    ASSUME LedgerInv, NEW p \in [Symbols -> Prices]
    PROVE  /\ Nav(p) \in Nat
           /\ \A s \in Symbols : /\ Value(s, p) \in Nat /\ Holding(s, p) \in Nat
                                 /\ Value(s, p) = table[s].lots * p[s]
                                 /\ Value(s, p) <= Holding(s, p)
                                 /\ s # Proxy => Holding(s, p) = Value(s, p)
  <1>1. acct.cash \in Nat /\ \A s \in Symbols : table[s].lots \in Nat /\ p[s] \in Nat
    BY PricesArePositive DEF LedgerInv, TypeOK, Accounts, Positions
  <1>2. \A s \in Symbols : Value(s, p) \in Nat /\ Value(s, p) = table[s].lots * p[s]
    BY <1>1, ProductIsNat DEF Value
  <1>3. Nav(p) \in Nat
    <2> DEFINE f == [s \in Symbols |-> Value(s, p)]
    <2>1. Nav(p) = acct.cash + Sum(f, Symbols)
      BY DEF Nav, Sum
    <2>2. \A s \in Symbols : f[s] \in Nat
      BY <1>2
    <2> HIDE DEF f
    <2>3. Sum(f, Symbols) \in Nat
      BY <2>2, SumIsNat, LedgerAssumption
    <2> QED BY <1>1, <2>1, <2>3
  <1> QED BY <1>1, <1>2, <1>3 DEF Holding

\* An order, filled in full, takes its symbol to the target.
LEMMA OrdersLead ==
    ASSUME LedgerInv, NEW t \in [Symbols -> Shares], NEW p \in [Symbols -> Prices],
           NEW s \in Symbols, NEW o, o = OrderFor(t, s, p),
           NEW n, n = IF o.side = "SELL" THEN table[s].lots - o.lots
                                         ELSE table[s].lots + o.lots
    PROVE  /\ o \in Orders /\ o.sym = s
           /\ 1000 * (n * p[s]) <= t[s] * Nav(p) + 500 * p[s]
           /\ s # Proxy => 1000 * (n * p[s]) >= t[s] * Nav(p) - 500 * p[s]
  <1>1. p[s] \in Nat \ {0} /\ table[s].lots \in Nat /\ t[s] \in Nat
    <2>1. p[s] \in Nat \ {0}
      BY PricesArePositive
    <2>2. table[s].lots \in Nat
      BY DEF LedgerInv, TypeOK, Positions
    <2> QED BY <2>1, <2>2, WeightIsNat
  <1>2. PICK a \in Nat : a = t[s] * Nav(p)
    BY <1>1, PortfolioType, ProductIsNat
  <1>3. PICK v \in Nat : v = Value(s, p) /\ v = table[s].lots * p[s]
    BY PortfolioType
  <1>4. PICK h \in Nat : h = Holding(s, p) /\ v <= h /\ (s # Proxy => h = v)
    BY <1>3, PortfolioType
  <1>5. Drift(t, s, p) = a - 1000 * h
    BY <1>2, <1>4 DEF Drift
  <1>6. PICK d \in Nat : d = Magnitude(a - 1000 * h)
    BY MagnitudeIsNat
  <1>7. /\ o.sym = s /\ o.side = IF a - 1000 * h > 0 THEN "BUY" ELSE "SELL"
        /\ o.lots = (2 * d + 1000 * p[s]) \div (2000 * p[s])
        /\ o = [sym |-> s, side |-> o.side, lots |-> o.lots]
    BY <1>5, <1>6 DEF OrderFor
  <1>8. /\ o.lots \in Nat /\ 1000 * (o.lots * p[s]) <= d + 500 * p[s]
        /\ 1000 * (o.lots * p[s]) >= d - 500 * p[s]
    BY <1>1, <1>7, RoundedToALot DEF Nears
  <1>9. PICK w \in Nat : w = o.lots * p[s]
    BY <1>1, <1>8, ProductIsNat
  <1>10. o \in Orders
    BY <1>7, <1>8 DEF Orders
  <1>11. /\ (table[s].lots + o.lots) * p[s] = table[s].lots * p[s] + o.lots * p[s]
         /\ (table[s].lots - o.lots) * p[s] = table[s].lots * p[s] - o.lots * p[s]
    <2>1. table[s].lots \in Int /\ o.lots \in Int /\ p[s] \in Int
      BY <1>1, <1>8
    <2>2. PICK x \in Int, y \in Int, z \in Int :
            x = table[s].lots /\ y = o.lots /\ z = p[s]
      BY <2>1
    <2>3. (x + y) * z = x * z + y * z /\ (x - y) * z = x * z - y * z
      BY SumTimes
    <2> QED BY <2>2, <2>3
  <1>12. CASE a - 1000 * h > 0
    <2>1. n = table[s].lots + o.lots /\ d = a - 1000 * h
      BY <1>6, <1>7, <1>12 DEF Magnitude
    <2>2. n * p[s] = v + w
      BY <1>1, <1>3, <1>9, <1>11, <2>1
    <2> QED BY <1>1, <1>2, <1>4, <1>7, <1>8, <1>9, <1>10, <2>1, <2>2
  <1>13. CASE ~ (a - 1000 * h > 0)
    <2>1. n = table[s].lots - o.lots /\ d = 1000 * h - a
      BY <1>6, <1>7, <1>13 DEF Magnitude
    <2>2. n * p[s] = v - w
      BY <1>1, <1>3, <1>9, <1>11, <2>1
    <2> QED BY <1>1, <1>2, <1>4, <1>7, <1>8, <1>9, <1>10, <2>1, <2>2
  <1> QED BY <1>12, <1>13

\* What gets no order is off its target by no more than is tolerated.
LEMMA UnorderedIsClose ==
    ASSUME LedgerInv, NEW t \in [Symbols -> Shares], NEW p \in [Symbols -> Prices],
           NEW s \in Symbols, ~ NeedsOrder(Drift(t, s, p), Nav(p))
    PROVE  /\ 1000 * (table[s].lots * p[s]) <= t[s] * Nav(p) + AtLeast(Band, MinOrder) * Nav(p)
           /\ s # Proxy => 1000 * (table[s].lots * p[s])
                             >= t[s] * Nav(p) - AtLeast(Band, MinOrder) * Nav(p)
  <1>1. t[s] \in Nat /\ Band \in Nat /\ MinOrder \in Nat
    BY WeightIsNat, BandType
  <1>2. PICK w \in Nat : w = Nav(p)
    BY PortfolioType
  <1>3. PICK a \in Nat : a = t[s] * w
    BY <1>1, ProductIsNat
  <1>4. PICK v \in Nat : v = Value(s, p) /\ v = table[s].lots * p[s]
    BY PortfolioType
  <1>5. PICK h \in Nat : h = Holding(s, p) /\ v <= h /\ (s # Proxy => h = v)
    BY <1>4, PortfolioType
  <1>6. Drift(t, s, p) = a - 1000 * h
    BY <1>2, <1>3, <1>5 DEF Drift
  <1>7. PICK d \in Nat : d = Magnitude(a - 1000 * h)
    BY MagnitudeIsNat
  <1>8. d <= Band * w \/ d < MinOrder * w
    <2>1. Band * w \in Nat /\ MinOrder * w \in Nat
      BY <1>1, ProductIsNat
    <2> QED BY <1>2, <1>6, <1>7, <2>1 DEF NeedsOrder
  <1>9. PICK m \in Nat : m = AtLeast(Band, MinOrder) /\ Band <= m /\ MinOrder <= m
    BY <1>1 DEF AtLeast
  <1>10. Band * w <= m * w /\ MinOrder * w <= m * w /\ m * w \in Nat
         /\ Band * w \in Nat /\ MinOrder * w \in Nat
    BY <1>1, <1>9, SMT
  <1>11. d <= m * w
    BY <1>8, <1>10
  <1>12. 1000 * h <= a + d /\ 1000 * h >= a - d
    BY <1>7 DEF Magnitude
  <1> QED BY <1>2, <1>3, <1>4, <1>5, <1>9, <1>10, <1>11, <1>12

\* q is a batch for the target t at the prices p.
BatchFor(q, t, p) ==
    /\ q \in Seq(Orders) /\ SalesFirst(q) /\ Distinct(q)
    /\ \A k \in DOMAIN q : \E s \in Symbols : q[k] = OrderFor(t, s, p)
    /\ \A s \in Symbols : NeedsOrder(Drift(t, s, p), Nav(p)) =>
           \E k \in DOMAIN q : q[k].sym = s

LEMMA OrdersOfARebalance ==
    ASSUME LedgerInv, NEW t \in [Symbols -> Shares], NEW p \in [Symbols -> Prices]
    PROVE  /\ RebalanceOrders(t, p) \in Seq(Orders)
           /\ BatchFor(Sequenced(RebalanceOrders(t, p)), t, p)
  <1> DEFINE n == Len(Alphabet)
             of == [i \in DOMAIN Alphabet |-> OrderFor(t, Alphabet[i], p)]
             I == {i \in DOMAIN Alphabet : NeedsOrder(Drift(t, Alphabet[i], p), Nav(p))}
             c == Pick(of, I)
             m == Cardinality(I)
             b == RebalanceOrders(t, p)
             q == Sequenced(b)
  <1>1. n \in Nat /\ Alphabet \in [1..n -> Symbols] /\ DOMAIN Alphabet = 1..n
    BY RebalancerAssumption, LenProperties
  <1>2. \A s \in Symbols : OrderFor(t, s, p) \in Orders /\ OrderFor(t, s, p).sym = s
    BY OrdersLead
  <1>3. of \in [1..n -> Orders] /\ \A i \in 1..n : of[i] = OrderFor(t, Alphabet[i], p)
    BY <1>1, <1>2
  <1>4. I \in SUBSET (1..n)
        /\ \A i \in 1..n : i \in I <=> NeedsOrder(Drift(t, Alphabet[i], p), Nav(p))
    BY <1>1
  <1>5. b = Sequenced(c)
    BY DEF RebalanceOrders
  <1> HIDE DEF n, of, I
  <1>6. of \in Seq(Orders) /\ DOMAIN of = 1..n
    BY <1>1, <1>3, FunctionIsSeq
  <1>7. /\ c \in Seq(Orders) /\ DOMAIN c = 1..m
        /\ \A k \in 1..m : c[k] = of[InOrder(I)[k]] /\ InOrder(I)[k] \in I
        /\ \A j, k \in 1..m : InOrder(I)[j] = InOrder(I)[k] => j = k
        /\ \A i \in I : \E k \in 1..m : InOrder(I)[k] = i
    <2>1. I \in SUBSET (DOMAIN of)
      BY <1>4, <1>6
    <2>2. PICK l \in Seq(Orders) : l = of
      BY <1>6
    <2>3. PICK x \in SUBSET (DOMAIN l) : x = I
      BY <2>1, <2>2
    <2>4. /\ Pick(l, x) \in Seq(Orders) /\ DOMAIN Pick(l, x) = 1..Cardinality(x)
          /\ \A k \in 1..Cardinality(x) :
                Pick(l, x)[k] = l[InOrder(x)[k]] /\ InOrder(x)[k] \in x
          /\ \A j, k \in 1..Cardinality(x) : InOrder(x)[j] = InOrder(x)[k] => j = k
          /\ \A i \in x : \E k \in 1..Cardinality(x) : InOrder(x)[k] = i
      BY PickIsInOrder, SMTT(60)
    <2> QED BY <2>2, <2>3, <2>4
  <1> HIDE DEF c, m, b
  <1>8. Distinct(c)
    <2>1. ASSUME NEW j \in 1..m, NEW k \in 1..m, c[j].sym = c[k].sym PROVE j = k
      <3> DEFINE x == InOrder(I)[j]
                 y == InOrder(I)[k]
      <3>1. x \in 1..n /\ y \in 1..n /\ c[j] = of[x] /\ c[k] = of[y]
        BY <1>4, <1>7
      <3>2. x = y => j = k
        BY <1>7
      <3> HIDE DEF x, y
      <3>3. Alphabet[x] \in Symbols /\ Alphabet[y] \in Symbols
        BY <1>1, <3>1
      <3>4. Alphabet[x] = Alphabet[y]
        BY <1>2, <1>3, <2>1, <3>1, <3>3
      <3> QED BY <1>1, <3>1, <3>2, <3>4, RebalancerAssumption
    <2> QED BY <1>7, <2>1 DEF Distinct
  <1>9. /\ b \in Seq(Orders) /\ Distinct(b)
        /\ \A k \in DOMAIN b : \E i \in DOMAIN c : b[k] = c[i]
        /\ \A i \in DOMAIN c : \E k \in DOMAIN b : b[k] = c[i]
    <2>1. /\ Sequenced(c) \in Seq(Orders) /\ Distinct(Sequenced(c))
          /\ \A k \in DOMAIN Sequenced(c) : \E i \in DOMAIN c : Sequenced(c)[k] = c[i]
          /\ \A i \in DOMAIN c : \E k \in DOMAIN Sequenced(c) : Sequenced(c)[k] = c[i]
      BY <1>7, <1>8, SequencedIsInOrder
    <2> QED BY <1>5, <2>1
  <1>10. /\ q \in Seq(Orders) /\ Distinct(q) /\ SalesFirst(q)
         /\ \A k \in DOMAIN q : \E i \in DOMAIN b : q[k] = b[i]
         /\ \A i \in DOMAIN b : \E k \in DOMAIN q : q[k] = b[i]
    BY <1>9, SequencedIsInOrder
  <1> HIDE DEF q
  <1>11. \A k \in DOMAIN q : \E s \in Symbols : q[k] = OrderFor(t, s, p)
    <2>1. TAKE k \in DOMAIN q
    <2>2. PICK i \in DOMAIN c : q[k] = c[i]
      BY <1>9, <1>10
    <2>3. PICK x \in 1..n : c[i] = of[x]
      BY <1>4, <1>7
    <2> QED BY <1>1, <1>3, <2>2, <2>3
  <1>12. ASSUME NEW s \in Symbols, NeedsOrder(Drift(t, s, p), Nav(p))
         PROVE  \E k \in DOMAIN q : q[k].sym = s
    <2>1. PICK x \in 1..n : Alphabet[x] = s
      BY <1>1, RebalancerAssumption
    <2>2. x \in I
      BY <1>4, <1>12, <2>1
    <2>3. PICK i \in DOMAIN c : c[i] = of[x]
      BY <1>7, <2>2
    <2>4. PICK k \in DOMAIN q : q[k] = c[i]
      BY <1>9, <1>10
    <2> QED BY <1>2, <1>3, <2>1, <2>3, <2>4
  <1>13. BatchFor(q, t, p)
    BY <1>10, <1>11, <1>12 DEF BatchFor
  <1> QED BY <1>9, <1>13 DEF q, b

LEMMA RebalanceBegins ==
    ASSUME LedgerInv, NEW t \in [Symbols -> Shares], NEW p \in [Symbols -> Prices],
           BeginBatch(RebalanceOrders(t, p), p), goal' = [target |-> t, nav |-> Nav(p)]
    PROVE  phase' = "batch" /\ UnderWay'
  <1>0. PICK q : q = Sequenced(RebalanceOrders(t, p))
    OBVIOUS
  <1>1. /\ q \in Seq(Orders) /\ SalesFirst(q) /\ Distinct(q)
        /\ \A k \in DOMAIN q : \E s \in Symbols : q[k] = OrderFor(t, s, p)
        /\ \A s \in Symbols : NeedsOrder(Drift(t, s, p), Nav(p)) =>
               \E k \in DOMAIN q : q[k].sym = s
    <2>1. BatchFor(q, t, p)
      BY <1>0, OrdersOfARebalance
    <2> QED BY <2>1, Zenon DEF BatchFor
  <1>2. PICK w \in Nat : w = Nav(p)
    BY PortfolioType
  <1>3. /\ phase' = "batch" /\ todo' = q /\ px' = p
        /\ work'.acct = acct /\ work'.pos = table
        /\ goal'.target = t /\ goal'.nav = w
        /\ ~open' /\ table' = table
    BY <1>0, <1>2 DEF BeginBatch, committed, LedgerInv
  <1>4. Rows' = work'.pos
    BY <1>3 DEF Rows
  <1>5. Worth' <= goal'.nav
    <2>1. Worth' = work'.acct.cash + Sum([s \in Symbols |-> work'.pos[s].lots * px'[s]], Symbols)
      BY DEF Worth
    <2>2. Nav(p) = acct.cash + Sum([s \in Symbols |-> table[s].lots * p[s]], Symbols)
      BY DEF Nav, Value, Sum
    <2> QED BY <1>2, <1>3, <2>1, <2>2
  <1>6. ASSUME NEW k \in DOMAIN q PROVE OnTheWay(q[k])'
    <2>1. PICK s \in Symbols : q[k] = OrderFor(t, s, p)
      BY <1>1
    <2>2. PICK o : o = q[k]
      OBVIOUS
    <2>3. PICK n : n = IF o.side = "SELL" THEN table[s].lots - o.lots
                                          ELSE table[s].lots + o.lots
      OBVIOUS
    <2>4. /\ o.sym = s
          /\ 1000 * (n * p[s]) <= t[s] * w + 500 * p[s]
          /\ s # Proxy => 1000 * (n * p[s]) >= t[s] * w - 500 * p[s]
      BY <1>2, <2>1, <2>2, <2>3, OrdersLead
    <2>5. Leads(o, n)'
      BY <1>3, <2>4 DEF Leads, Level, Aim
    <2>6. n = IF o.side = "SELL" THEN work'.pos[o.sym].lots - o.lots
                                 ELSE work'.pos[o.sym].lots + o.lots
      BY <1>3, <2>3, <2>4
    <2>7. o.side = "SELL" => Leads(o, work.pos[o.sym].lots - o.lots)'
      BY <2>5, <2>6
    <2>8. o.side # "SELL" => Leads(o, work.pos[o.sym].lots + o.lots)'
      BY <2>5, <2>6
    <2> QED BY <2>2, <2>7, <2>8 DEF OnTheWay
  <1>7. ASSUME NEW s \in Symbols, \A k \in DOMAIN q : q[k].sym # s PROVE Settled(s)'
    <2>1. ~ NeedsOrder(Drift(t, s, p), Nav(p))
      BY <1>1, <1>7
    <2>2. /\ 1000 * (table[s].lots * p[s]) <= t[s] * w + AtLeast(Band, MinOrder) * w
          /\ s # Proxy => 1000 * (table[s].lots * p[s]) >= t[s] * w - AtLeast(Band, MinOrder) * w
      BY <1>2, <2>1, UnorderedIsClose
    <2>3. p[s] \in Nat /\ t[s] \in Nat /\ table[s].lots \in Nat /\ AtLeast(Band, MinOrder) \in Nat
      <3>1. p[s] \in Nat
        BY PricesArePositive
      <3>2. t[s] \in Nat
        BY WeightIsNat
      <3>3. Band \in Nat /\ MinOrder \in Nat
        BY BandType
      <3>4. table[s].lots \in Nat
        BY DEF LedgerInv, TypeOK, Positions
      <3> QED BY <3>1, <3>2, <3>3, <3>4 DEF AtLeast
    <2>4. /\ Level(s, table[s].lots)' = 1000 * (table[s].lots * p[s])
          /\ Aim(s)' = t[s] * w /\ Tolerated' = AtLeast(Band, MinOrder) * w
      BY <1>3 DEF Level, Aim, Tolerated
    <2>5. PICK x \in Nat, a \in Nat, d \in Nat :
            /\ x = table[s].lots * p[s] /\ a = t[s] * w /\ d = AtLeast(Band, MinOrder) * w
      BY <1>2, <2>3, ProductIsNat
    <2>6. 1000 * x <= a + d + 500 * p[s] /\ (s # Proxy => 1000 * x >= a - d - 1500 * p[s])
      BY <2>2, <2>3, <2>5
    <2> QED BY <1>3, <2>4, <2>5, <2>6 DEF Settled
  <1>8. (\A k \in DOMAIN todo : OnTheWay(todo[k]))'
    BY <1>3, <1>6
  <1>9. (\A s \in Symbols : (\A k \in DOMAIN todo : todo[k].sym # s) => Settled(s))'
    BY <1>3, <1>7
  <1>10. Distinct(todo)' /\ SalesFirst(todo)'
    BY <1>1, <1>3 DEF Distinct, SalesFirst
  <1> QED BY <1>2, <1>3, <1>4, <1>5, <1>8, <1>9, <1>10 DEF UnderWay

-----------------------------------------------------------------------------
(* An order is worked off.                                                 *)

\* What is known of the orders q that follow the first one.
Follows(q) ==
    /\ Distinct(q) /\ SalesFirst(q)
    /\ 1 \in DOMAIN todo /\ Order = todo[1]
    /\ \A k \in DOMAIN q : /\ k + 1 \in DOMAIN todo /\ q[k] = todo[k + 1]
                           /\ q[k].sym # Order.sym
    /\ \A s : s # Order.sym /\ (\A k \in DOMAIN q : q[k].sym # s) =>
                  \A k \in DOMAIN todo : todo[k].sym # s
    /\ Order.side = "BUY" => \A k \in DOMAIN q : q[k].side = "BUY"

LEMMA TailOfBatch ==
    ASSUME LedgerInv, phase = "batch", todo # <<>>, Distinct(todo), SalesFirst(todo)
    PROVE  Follows(Tail(todo))
  <1>0. PICK q : q = Tail(todo)
    OBVIOUS
  <1>1. todo \in Seq(Orders) /\ q \in Seq(Orders)
    BY <1>0, OrderType DEF LedgerInv, TypeOK
  <1>2. PICK n \in Nat : n = Len(q) /\ DOMAIN q = 1..n
    BY <1>1, LenProperties
  <1>3. /\ DOMAIN todo = 1..(n + 1) /\ \A k \in 1..(n + 1) : todo[k] \in Orders
        /\ \A k \in 1..n : q[k] = todo[k + 1]
    <2>1. Len(todo) \in Nat /\ DOMAIN todo = 1..Len(todo)
          /\ \A k \in 1..Len(todo) : todo[k] \in Orders
      BY <1>1, LenProperties
    <2>2. n = Len(todo) - 1 /\ \A k \in 1..n : q[k] = todo[k + 1]
      BY <1>0, <1>1, <1>2, HeadTailProperties
    <2> QED BY <2>1, <2>2
  <1>4. 1 \in 1..(n + 1) /\ \A k \in 1..n : k + 1 \in 1..(n + 1) /\ 1 < k + 1
    OBVIOUS
  <1>5. Order = todo[1]
    BY <1>1 DEF Order
  <1>6. ASSUME NEW k \in 1..n PROVE q[k].sym # Order.sym
    <2>1. todo[k + 1].sym # todo[1].sym
      BY <1>3, <1>4 DEF Distinct
    <2> QED BY <1>3, <1>5, <2>1
  <1>7. Distinct(q)
    <2>1. ASSUME NEW j \in 1..n, NEW k \in 1..n, q[j].sym = q[k].sym PROVE j = k
      <3>1. j + 1 \in DOMAIN todo /\ k + 1 \in DOMAIN todo
        BY <1>3, <1>4
      <3>2. todo[j + 1].sym = todo[k + 1].sym
        BY <1>3, <2>1
      <3>3. j + 1 = k + 1
        BY <3>1, <3>2, Zenon DEF Distinct
      <3> QED BY <3>3
    <2> QED BY <1>2, <2>1 DEF Distinct
  <1>8. SalesFirst(q)
    <2>1. ASSUME NEW j \in 1..n, NEW k \in 1..n, j < k, q[k].side = "SELL"
          PROVE  q[j].side = "SELL"
      <3>1. j + 1 < k + 1
        BY <2>1
      <3> QED BY <1>3, <1>4, <2>1, <3>1 DEF SalesFirst
    <2> QED BY <1>2, <2>1 DEF SalesFirst
  <1>9. ASSUME NEW s, s # Order.sym, \A k \in DOMAIN q : q[k].sym # s
        PROVE  \A k \in DOMAIN todo : todo[k].sym # s
    <2>1. TAKE k \in DOMAIN todo
    <2>2. CASE k = 1
      BY <1>5, <1>9, <2>2
    <2>3. CASE k # 1
      <3>1. PICK j : j = k - 1
        OBVIOUS
      <3>2. j \in 1..n /\ k = j + 1
        BY <1>3, <2>3, <3>1
      <3> QED BY <1>2, <1>3, <1>9, <3>2
    <2> QED BY <2>2, <2>3
  <1>10. ASSUME Order.side = "BUY", NEW k \in 1..n PROVE q[k].side = "BUY"
    <2>1. todo[k + 1].side # "SELL"
      BY <1>3, <1>4, <1>5, <1>10 DEF SalesFirst
    <2>2. todo[k + 1].side \in {"BUY", "SELL"}
      BY <1>3, <1>4 DEF Orders
    <2> QED BY <1>3, <2>1, <2>2
  <1>11. Follows(q)
    BY <1>2, <1>3, <1>4, <1>5, <1>6, <1>7, <1>8, <1>9, <1>10 DEF Follows
  <1> QED BY <1>0, <1>11

LEMMA GoalType ==
    ASSUME LedgerInv, UnderWay, phase = "batch", NEW s \in Symbols
    PROVE  /\ px[s] \in Nat \ {0} /\ Aim(s) \in Nat /\ Tolerated \in Nat
           /\ Buffer * goal.nav \in Nat /\ work.pos[s].lots \in Nat
           /\ work.acct.cash \in Int
           /\ \A n \in Int : n * px[s] \in Int
  <1>1. px[s] \in Prices /\ goal.target \in [Symbols -> Shares] /\ goal.nav \in Nat
    BY DEF LedgerInv, UnderWay
  <1>2. px[s] \in Nat \ {0}
    BY <1>1, PricesArePositive
  <1>3. AtLeast(Band, MinOrder) \in Nat /\ Buffer \in Nat /\ goal.target[s] \in Nat
    <2>1. Band \in Nat /\ MinOrder \in Nat
      BY BandType
    <2>2. Buffer \in Nat
      BY LedgerAssumption
    <2>3. goal.target[s] \in Nat
      BY <1>1, WeightIsNat
    <2> QED BY <2>1, <2>2, <2>3 DEF AtLeast
  <1>4. Aim(s) \in Nat /\ Tolerated \in Nat /\ Buffer * goal.nav \in Nat
    BY <1>1, <1>3, ProductIsNat DEF Aim, Tolerated
  <1>5. work.pos[s].lots \in Nat /\ work.acct.cash \in Int
    BY DEF LedgerInv, TypeOK, Positions, Accounts
  <1>6. \A n \in Int : n * px[s] \in Int
    BY <1>2, SMT
  <1> QED BY <1>2, <1>4, <1>5, <1>6

\* What is left to spend for a symbol, and what counts as too little.
Margin(s) == MinFee + AtLeast(MinTicket, 2 * (px[s] + Slip + FeePerLot))

LEMMA MarginType ==
    ASSUME LedgerInv, UnderWay, phase = "batch", NEW s \in Symbols
    PROVE  /\ Margin(s) \in Nat
           /\ \A c : Poor(s, c) <=> 1000 * c < Buffer * goal.nav + 1000 * Margin(s)
  <1>1. Margin(s) \in Nat
    <2>1. px[s] \in Nat
      BY GoalType
    <2>2. Slip \in Nat /\ FeePerLot \in Nat /\ MinFee \in Nat /\ MinTicket \in Nat
      BY LedgerAssumption
    <2> QED BY <2>1, <2>2 DEF Margin, AtLeast
  <1> QED BY <1>1 DEF Poor, Margin

\* If the order taken off the list settles its symbol, the rebalance is under way still.
LEMMA WorkedOff ==
    ASSUME LedgerInv, LedgerInv', UnderWay, phase = "batch", phase' = "batch", todo # <<>>,
           todo' = Tail(todo), px' = px, goal' = goal,
           \A s \in Symbols : s # Order.sym => work'.pos[s] = work.pos[s],
           Order.side = "BUY" => work'.acct.cash <= work.acct.cash,
           Rows' = work'.pos, Worth' <= goal.nav,
           \A s \in Symbols : s = Order.sym => Settled(s)'
    PROVE  UnderWay'
  <1>1. PICK q : q = Tail(todo)
    OBVIOUS
  <1>2. Follows(q)
    <2>1. Distinct(todo) /\ SalesFirst(todo)
      BY DEF UnderWay
    <2> QED BY <1>1, <2>1, TailOfBatch
  <1>3. todo' = q /\ px' = px /\ goal' = goal
    BY <1>1
  <1>4. ASSUME NEW k \in DOMAIN q PROVE OnTheWay(q[k])'
    <2>1. PICK o : o = q[k]
      OBVIOUS
    <2>2. o = todo[k + 1] /\ k + 1 \in DOMAIN todo /\ o.sym # Order.sym
      BY <1>2, <2>1 DEF Follows
    <2>3. OnTheWay(o) /\ o.sym \in Symbols
      <3>1. o \in Orders
        BY <2>2, LenProperties DEF LedgerInv, TypeOK
      <3> QED BY <2>2, <3>1 DEF UnderWay, Orders
    <2>4. work'.pos[o.sym] = work.pos[o.sym]
      BY <2>2, <2>3
    <2>5. \A n : Leads(o, n) => Leads(o, n)'
      BY <1>3 DEF Leads, Level, Aim
    <2>6. OnTheWay(o)'
      BY <2>3, <2>4, <2>5 DEF OnTheWay
    <2> QED BY <2>1, <2>6
  <1>5. ASSUME NEW s \in Symbols, \A k \in DOMAIN q : q[k].sym # s PROVE Settled(s)'
    <2>1. CASE s # Order.sym
      <3>1. Settled(s) /\ work'.pos[s] = work.pos[s]
        BY <1>2, <1>5, <2>1 DEF Follows, UnderWay
      <3>2. /\ \A n : Level(s, n)' = Level(s, n)
            /\ Aim(s)' = Aim(s) /\ Tolerated' = Tolerated
        BY <1>3 DEF Level, Aim, Tolerated
      <3>3. ASSUME Poor(s, work.acct.cash), \A k \in DOMAIN todo : todo[k].side = "BUY"
            PROVE  Poor(s, work.acct.cash)' /\ \A k \in DOMAIN q : q[k].side = "BUY"
        <4>1. Order.side = "BUY"
          BY <1>2, <3>3 DEF Follows
        <4>2. work'.acct.cash <= work.acct.cash
              /\ work'.acct.cash \in Int /\ work.acct.cash \in Int
          BY <4>1 DEF LedgerInv, TypeOK, Accounts
        <4>3. PICK r \in Int : r = Buffer * goal.nav + 1000 * Margin(s)
          BY GoalType, MarginType
        <4>4. 1000 * work.acct.cash < r
          BY <3>3, <4>3, MarginType
        <4>5. 1000 * work'.acct.cash < r
          BY <4>2, <4>4
        <4>6. Poor(s, work'.acct.cash)
          BY <4>3, <4>5, MarginType
        <4>7. Poor(s, work.acct.cash)'
          BY <1>3, <4>6 DEF Poor
        <4> QED BY <1>2, <4>1, <4>7 DEF Follows
      <3> QED BY <1>3, <3>1, <3>2, <3>3 DEF Settled
    <2>2. CASE s = Order.sym
      BY <2>2
    <2> QED BY <2>1, <2>2
  <1>6. (\A k \in DOMAIN todo : OnTheWay(todo[k]))'
    BY <1>3, <1>4
  <1>7. (\A s \in Symbols : (\A k \in DOMAIN todo : todo[k].sym # s) => Settled(s))'
    BY <1>3, <1>5
  <1>8. Distinct(todo)' /\ SalesFirst(todo)'
    BY <1>2, <1>3 DEF Follows, Distinct, SalesFirst
  <1>9. goal'.target \in [Symbols -> Shares] /\ goal'.nav \in Nat /\ Rows' = work'.pos
        /\ Worth' <= goal'.nav
    BY <1>3 DEF UnderWay
  <1> QED BY <1>6, <1>7, <1>8, <1>9 DEF UnderWay

\* What is left of a symbol after an order that leads to n lots.
LEMMA NearEnough ==
    ASSUME LedgerInv, UnderWay, phase = "batch", NEW s \in Symbols, NEW o, o.sym = s,
           NEW n \in Int, Leads(o, n), NEW m \in Nat, m <= AtLeast(0, n)
    PROVE  /\ Level(s, m) <= Aim(s) + Tolerated + 500 * px[s]
           /\ s # Proxy /\ m >= n - 1 => Level(s, m) >= Aim(s) - Tolerated - 1500 * px[s]
  <1>1. PICK p \in Nat \ {0} : p = px[s]
    BY GoalType
  <1>2. PICK a \in Nat, d \in Nat : a = Aim(s) /\ d = Tolerated
    BY GoalType
  <1>3. PICK x \in Int, y \in Int : x = n * p /\ y = m * p
    BY SMT
  <1>4. 1000 * x <= a + 500 * p /\ (s # Proxy => 1000 * x >= a - 500 * p)
    BY <1>1, <1>2, <1>3 DEF Leads, Level
  <1>5. y <= x \/ y <= 0
    BY <1>1, <1>3, SMT DEF AtLeast
  <1>6. m >= n - 1 => y >= x - p
    BY <1>1, <1>3, SMT
  <1>7. 1000 * y <= a + d + 500 * p
    BY <1>1, <1>2, <1>4, <1>5
  <1>8. s # Proxy /\ m >= n - 1 => 1000 * y >= a - d - 1500 * p
    BY <1>1, <1>2, <1>4, <1>6
  <1> QED BY <1>1, <1>2, <1>3, <1>7, <1>8 DEF Level

\* The order at the head leads to the goal.
LEMMA HeadLeads ==
    ASSUME LedgerInv, UnderWay, phase = "batch", todo # <<>>
    PROVE  /\ Order.side = "SELL" => Leads(Order, work.pos[Order.sym].lots - Order.lots)
           /\ Order.side = "BUY" => Leads(Order, work.pos[Order.sym].lots + Order.lots)
           /\ Order.side \in {"BUY", "SELL"}
  <1>1. Distinct(todo) /\ SalesFirst(todo)
    BY DEF UnderWay
  <1>2. 1 \in DOMAIN todo /\ Order = todo[1]
    BY <1>1, TailOfBatch DEF Follows
  <1>3. OnTheWay(Order)
    BY <1>2 DEF UnderWay
  <1>4. Order.side \in {"BUY", "SELL"}
    BY OrderType DEF Orders
  <1> QED BY <1>3, <1>4 DEF OnTheWay

\* The cash of the batch is part of what it is worth.
LEMMA CashWithinNav ==
    ASSUME LedgerInv, UnderWay, phase = "batch"
    PROVE  work.acct.cash \in Int /\ goal.nav \in Nat /\ work.acct.cash <= goal.nav
  <1> DEFINE f == [s \in Symbols |-> work.pos[s].lots * px[s]]
  <1>1. \A s \in Symbols : f[s] \in Nat
    BY GoalType, ProductIsNat
  <1> HIDE DEF f
  <1>2. Sum(f, Symbols) \in Nat
    BY <1>1, SumIsNat, LedgerAssumption
  <1>3. Worth = work.acct.cash + Sum(f, Symbols)
    BY DEF Worth, f
  <1>4. work.acct.cash \in Int /\ goal.nav \in Nat /\ Worth <= goal.nav
    BY DEF LedgerInv, TypeOK, Accounts, UnderWay
  <1> QED BY <1>2, <1>3, <1>4

\* But for the buffer of the NAV, the cash is what may be spent.
LEMMA CashIsSpendable ==
    ASSUME LedgerInv, UnderWay, phase = "batch"
    PROVE  /\ Spendable \in Nat
           /\ 1000 * work.acct.cash < Buffer * goal.nav + 1000 * Spendable + 1000
  <1>1. PICK c \in Int, w \in Nat : c = work.acct.cash /\ w = goal.nav /\ c <= w
    BY CashWithinNav
  <1>2. PICK k \in Nat : k = Buffer /\ k <= 1000
    BY LedgerAssumption
  <1>3. k * c <= k * w /\ k * c \in Int /\ k * w \in Nat
    BY <1>1, <1>2, SMT
  <1>4. PICK x \in Int : x = c * (1000 - k) /\ x = 1000 * c - k * c
    BY <1>2, SMT
  <1>5. x \div 1000 \in Int /\ x < 1000 * (x \div 1000) + 1000
    BY SMT
  <1>6. Spendable = AtLeast(0, x \div 1000)
    BY <1>1, <1>2, <1>4 DEF Spendable
  <1>7. Spendable \in Nat /\ x < 1000 * Spendable + 1000
    BY <1>5, <1>6 DEF AtLeast
  <1> QED BY <1>1, <1>2, <1>3, <1>4, <1>7

\* A BUY that is passed over, or clamped, leaves too little for another.
LEMMA BuyLeavesLittle ==
    ASSUME LedgerInv, UnderWay, Working("BUY")
    PROVE  /\ Unaffordable => Poor(Order.sym, work.acct.cash)
           /\ ~Unaffordable => /\ Bought <= Order.lots
                               /\ Bought = Order.lots
                                    \/ Poor(Order.sym, work.acct.cash - Outflow)
  <1> DEFINE s == Order.sym
             each == BuyPrice + FeePerLot
             cash == work.acct.cash
             k == Buffer * goal.nav
  <1>1. /\ s \in Symbols /\ Order.lots \in Nat /\ each \in Nat \ {0} /\ BuyPrice \in Nat
        /\ MinFee \in Nat /\ MinTicket \in Nat /\ FeePerLot \in Nat
    BY OrderType, LedgerAssumption DEF Working
  <1>2. /\ Spendable \in Nat /\ k \in Nat /\ cash \in Int
        /\ 1000 * cash < k + 1000 * Spendable + 1000
    BY <1>1, CashIsSpendable, GoalType DEF Working
  <1>3. Margin(s) = MinFee + AtLeast(MinTicket, 2 * each)
    BY <1>1, LedgerAssumption DEF Margin, BuyPrice
  <1>4. \A c : Poor(s, c) <=> 1000 * c < k + 1000 * Margin(s)
    BY <1>1, MarginType DEF Working
  <1> HIDE DEF s, each, cash, k
  <1>5. /\ Affordable \in Nat /\ Spendable <= Affordable + MinFee
        /\ Affordable > 0 => Affordable + MinFee = Spendable
    BY <1>1, <1>2, SMT DEF Affordable, AtLeast
  <1>6. /\ Clamped \in Nat /\ Clamped * each <= Affordable
        /\ Affordable < Clamped * each + each
    BY <1>1, <1>5, QuotientIsClose DEF Clamped, each
  <1>7. CASE Unaffordable
    <2>1. CASE Affordable < MinTicket
      <3>1. Spendable + 1 <= Margin(s)
        BY <1>1, <1>2, <1>3, <1>5, <2>1 DEF AtLeast
      <3> QED BY <1>1, <1>2, <1>3, <1>4, <1>7, <3>1 DEF AtLeast, s, cash
    <2>2. CASE Clamped <= 1
      <3>1. Clamped * each <= each
        BY <1>1, <1>6, <2>2, SMT
      <3>2. Affordable < 2 * each
        BY <1>1, <1>5, <1>6, <3>1
      <3>3. Spendable + 1 <= Margin(s)
        BY <1>1, <1>2, <1>3, <1>5, <3>2 DEF AtLeast
      <3> QED BY <1>1, <1>2, <1>3, <1>4, <1>7, <3>3 DEF AtLeast, s, cash
    <2> QED BY <1>7, <2>1, <2>2 DEF Unaffordable
  <1>8. CASE ~Unaffordable /\ ~TooDear
    BY <1>1, <1>8 DEF Bought
  <1>9. CASE ~Unaffordable /\ TooDear
    <2>1. Bought = Clamped /\ Clamped > 1
      BY <1>6, <1>9 DEF Bought, Unaffordable
    <2>2. PICK x \in Nat : x = Clamped * each
      BY <1>1, <1>6, ProductIsNat
    <2>3. Clamped * each = Clamped * BuyPrice + Clamped * FeePerLot
      BY <1>1, <1>6, SumTimes DEF each
    <2>4. PICK y \in Nat, z \in Nat : y = Clamped * BuyPrice /\ z = Clamped * FeePerLot
      BY <1>1, <1>6, ProductIsNat
    <2>5. Outflow = y + AtLeast(MinFee, z)
      BY <2>1, <2>4 DEF Outflow, Fee
    <2>6. Outflow >= x /\ Outflow \in Nat
      BY <1>1, <2>2, <2>3, <2>4, <2>5 DEF AtLeast
    <2>7. Spendable + 1 <= Outflow + Margin(s)
      BY <1>1, <1>2, <1>3, <1>5, <1>6, <2>2, <2>6 DEF AtLeast
    <2>8. Margin(s) \in Nat
      BY <1>1, <1>3 DEF AtLeast
    <2>9. 1000 * (cash - Outflow) < k + 1000 * Margin(s)
      BY <1>2, <2>6, <2>7, <2>8
    <2>10. Poor(Order.sym, work.acct.cash - Outflow)
      BY <1>4, <2>9 DEF s, cash
    <2>11. Clamped <= Order.lots
      <3> SUFFICES ASSUME Clamped > Order.lots PROVE FALSE
        BY <1>1, <1>6
      <3>1. Order.lots * each <= x
        BY <1>1, <1>6, <2>2, SMT
      <3>2. Order.lots * each = Order.lots * BuyPrice + Order.lots * FeePerLot
        BY <1>1, SumTimes DEF each
      <3>3. PICK u \in Nat, v \in Nat : u = Order.lots * BuyPrice /\ v = Order.lots * FeePerLot
        BY <1>1, ProductIsNat
      <3>4. each <= x
        BY <1>1, <1>6, <2>1, <2>2, SMT
      <3>5. u + v + MinFee <= Spendable
        BY <1>1, <1>2, <1>5, <1>6, <2>2, <3>1, <3>2, <3>3, <3>4
      <3>6. u + AtLeast(MinFee, v) > Spendable
        BY <1>9, <3>3 DEF TooDear, Fee
      <3> QED BY <1>1, <1>2, <3>3, <3>5, <3>6 DEF AtLeast
    <2> QED BY <1>9, <2>1, <2>10, <2>11
  <1> QED BY <1>7, <1>8, <1>9

\* A trade changes the worth of the account by the cash that moves and by the lots at
\* their price.
LEMMA WorthChanges ==
    ASSUME LedgerInv, LedgerInv', UnderWay, phase = "batch", phase' = "batch",
           px' = px, NEW s \in Symbols, NEW n \in Nat, work'.pos[s].lots = n,
           \A t \in Symbols : t # s => work'.pos[t] = work.pos[t]
    PROVE  /\ Worth \in Int
           /\ Worth' = Worth + (work'.acct.cash - work.acct.cash)
                             + (n * px[s] - work.pos[s].lots * px[s])
  <1> DEFINE f == [t \in Symbols |-> work.pos[t].lots * px[t]]
             g == [t \in Symbols |-> work'.pos[t].lots * px[t]]
  <1>1. \A t \in Symbols : f[t] \in Int
    BY GoalType, ProductIsNat
  <1>2. \A t \in Symbols : t # s => f[t] = g[t]
    OBVIOUS
  <1>3. f[s] = work.pos[s].lots * px[s] /\ g[s] = n * px[s] /\ n * px[s] \in Int
    BY GoalType
  <1>4. \A t \in Symbols : g[t] \in Int
    <2>1. TAKE t \in Symbols
    <2> QED BY <1>1, <1>2, <1>3
  <1>5. Worth = work.acct.cash + Sum(f, Symbols)
    BY DEF Worth
  <1>6. Worth' = work'.acct.cash + Sum(g, Symbols)
    <2>1. Worth' = work'.acct.cash + Sum([t \in Symbols |-> work'.pos[t].lots * px'[t]], Symbols)
      BY DEF Worth
    <2> QED BY <2>1
  <1> HIDE DEF f, g
  <1>7. Sum(f, Symbols) \in Int /\ Sum(g, Symbols) = Sum(f, Symbols) - f[s] + g[s]
    BY <1>1, <1>2, <1>4, SumChanges, LedgerAssumption DEF Ints
  <1>8. f[s] \in Int /\ g[s] \in Int /\ work.acct.cash \in Int /\ work'.acct.cash \in Int
    BY <1>1, <1>4 DEF LedgerInv, TypeOK, Accounts
  <1> QED BY <1>3, <1>5, <1>6, <1>7, <1>8

LEMMA PassOverOnTheWay ==
    ASSUME LedgerInv, LedgerInv', UnderWay, PassOver, goal' = goal
    PROVE  UnderWay'
  <1>0. PICK s, n : s = Order.sym /\ n = work.pos[s].lots
    OBVIOUS
  <1>1. /\ s \in Symbols /\ Order.lots \in Nat /\ n \in Nat
        /\ phase = "batch" /\ todo # <<>>
    BY <1>0, OrderType, GoalType DEF PassOver
  <1>2. /\ phase' = "batch" /\ todo' = Tail(todo) /\ work' = work /\ px' = px
        /\ Rows' = Rows
    BY <1>1 DEF PassOver, committed, Rows
  <1>3. Worth' = Worth
    BY <1>2 DEF Worth
  <1>4. /\ Level(s, n)' = Level(s, n) /\ Aim(s)' = Aim(s) /\ Tolerated' = Tolerated
        /\ \A c : Poor(s, c) => Poor(s, c)'
    BY <1>2 DEF Level, Aim, Tolerated, Poor
  <1>5. Order.side = "BUY" => \A k \in DOMAIN todo' : todo'[k].side = "BUY"
    <2>1. Distinct(todo) /\ SalesFirst(todo)
      BY DEF UnderWay
    <2> QED BY <1>1, <1>2, <2>1, TailOfBatch DEF Follows
  <1>6. /\ Level(s, n) <= Aim(s) + Tolerated + 500 * px[s]
        /\ s # Proxy => \/ Level(s, n) >= Aim(s) - Tolerated - 1500 * px[s]
                        \/ Poor(s, work.acct.cash) /\ Order.side = "BUY"
    <2>1. CASE Order.lots = 0
      <3>1. Leads(Order, n)
        <4>1. n - Order.lots = n /\ n + Order.lots = n
          BY <1>1, <2>1
        <4> QED BY <1>0, <1>1, <4>1, HeadLeads
      <3>2. n \in Int /\ n <= AtLeast(0, n) /\ n >= n - 1
        BY <1>1 DEF AtLeast
      <3> QED BY <1>1, <3>1, <3>2, <1>0, NearEnough
    <2>2. CASE Order.side = "SELL" /\ n = 0
      <3>1. PICK m \in Int : m = n - Order.lots /\ Leads(Order, m)
        BY <1>0, <1>1, <2>2, HeadLeads
      <3>2. n <= AtLeast(0, m) /\ n >= m - 1
        BY <1>1, <2>2, <3>1 DEF AtLeast
      <3> QED BY <1>1, <3>1, <3>2, <1>0, NearEnough
    <2>3. CASE Order.side = "BUY" /\ Unaffordable /\ Order.lots # 0
      <3>1. PICK m \in Int : m = n + Order.lots /\ Leads(Order, m)
        BY <1>0, <1>1, <2>3, HeadLeads
      <3>2. n <= AtLeast(0, m)
        BY <1>1, <3>1 DEF AtLeast
      <3>3. Level(s, n) <= Aim(s) + Tolerated + 500 * px[s]
        BY <1>1, <3>1, <3>2, <1>0, NearEnough
      <3>4. Poor(s, work.acct.cash)
        BY <1>0, <1>1, <2>3, BuyLeavesLittle DEF Working
      <3> QED BY <2>3, <3>3, <3>4
    <2> QED BY <1>0, <2>1, <2>2, <2>3 DEF PassOver, Held
  <1>7. Settled(s)'
    <2>1. work'.pos[s].lots = n
      BY <1>0, <1>2
    <2> QED BY <1>2, <1>4, <1>5, <1>6, <2>1 DEF Settled
  <1>8. Rows' = work'.pos /\ Worth' <= goal.nav
    BY <1>2, <1>3 DEF UnderWay
  <1>9. work'.acct.cash <= work.acct.cash
    BY <1>1, <1>2, GoalType
  <1> QED BY <1>0, <1>1, <1>2, <1>7, <1>8, <1>9, WorkedOff

LEMMA SellOnTheWay ==
    ASSUME LedgerInv, LedgerInv', UnderWay, Sell, goal' = goal
    PROVE  UnderWay'
  <1>0. PICK s, n, lots : s = Order.sym /\ n = work.pos[s].lots /\ lots = Order.lots
    OBVIOUS
  <1>1. /\ s \in Symbols /\ lots \in Nat /\ n \in Nat /\ px[s] \in Nat \ {0}
        /\ phase = "batch" /\ todo # <<>> /\ Order.side = "SELL"
        /\ SellPrice \in Nat /\ Held.lots = n /\ n # 0
    BY <1>0, OrderType, GoalType DEF Sell, Working, Held
  <1>2. /\ phase' = "batch" /\ todo' = Tail(todo) /\ px' = px
        /\ Rows' = work'.pos
    BY <1>1, SellKeepsRows DEF Sell, UnderWay
  <1>3. PICK closed \in BOOLEAN :
          /\ closed => Left <= 1
          /\ work'.acct.cash = work.acct.cash + Proceeds
          /\ work'.pos = [work.pos EXCEPT ![Order.sym] = Remainder(closed)]
    <2>1. work.acct \in Accounts
      BY DEF LedgerInv, TypeOK
    <2>2. PICK closed \in BOOLEAN :
            /\ closed => Left <= 1
            /\ work' = [acct |-> [work.acct EXCEPT
                                    !.cash = @ + Proceeds,
                                    !.realized = @ + Proceeds - (Held.cost - Kept),
                                    !.dust = @ + Kept - Remainder(closed).cost],
                        pos |-> [work.pos EXCEPT ![Order.sym] = Remainder(closed)]]
      BY DEF Sell
    <2>3. work'.acct.cash = work.acct.cash + Proceeds
      BY <2>1, <2>2 DEF Accounts
    <2> QED BY <2>2, <2>3
  <1>4. PICK r : r = Remainder(closed).lots
    OBVIOUS
  <1>5. Sold = AtMost(lots, n) /\ Left = n - Sold
    BY <1>0, <1>1 DEF Sold, Left
  <1>6. /\ Sold \in Nat /\ Left \in Nat /\ r \in Nat /\ r <= Left /\ r >= Left - 1
        /\ r <= AtLeast(0, n - lots) /\ r >= (n - lots) - 1
    BY <1>1, <1>3, <1>4, <1>5 DEF AtMost, AtLeast, Remainder, NoPosition
  <1>7. /\ work'.pos[s].lots = r
        /\ \A t \in Symbols : t # s => work'.pos[t] = work.pos[t]
    BY <1>0, <1>1, <1>3, <1>4 DEF LedgerInv, TypeOK, Positions
  <1>8. /\ Worth \in Int
        /\ Worth' = Worth + (work'.acct.cash - work.acct.cash) + (r * px[s] - n * px[s])
    BY <1>0, <1>1, <1>2, <1>6, <1>7, WorthChanges
  <1>9. Worth' <= goal.nav
    <2>1. PICK p \in Nat : p = px[s]
      BY <1>1
    <2>2. PICK x \in Nat, y \in Nat, z \in Nat : x = Sold * p /\ y = r * p /\ z = n * p
      BY <1>1, <1>6, ProductIsNat
    <2>3. x + y <= z
      <3>1. Sold + r <= n
        BY <1>1, <1>5, <1>6
      <3>2. (Sold + r) * p <= n * p
        BY <1>1, <1>6, <3>1, SMT
      <3> QED BY <1>6, <2>2, <3>2, SumTimes
    <2>4. Proceeds \in Int /\ Proceeds <= x
      <3>1. Sold * SellPrice \in Nat /\ Sold * SellPrice <= Sold * p
        <4>1. SellPrice <= p
          BY <1>0, <1>1, <2>1, LedgerAssumption DEF SellPrice
        <4> QED BY <1>1, <1>6, <4>1, SMT
      <3>2. Fee(Sold) \in Nat
        BY <1>6, FeeType
      <3> QED BY <2>2, <3>1, <3>2 DEF Proceeds
    <2>5. /\ work.acct.cash \in Int /\ work'.acct.cash = work.acct.cash + Proceeds
          /\ goal.nav \in Nat /\ Worth <= goal.nav
      BY <1>1, <1>3, GoalType DEF UnderWay
    <2> QED BY <1>8, <2>1, <2>2, <2>3, <2>4, <2>5
  <1>10. Settled(s)'
    <2>1. Leads(Order, n - lots) /\ n - lots \in Int
      BY <1>0, <1>1, HeadLeads
    <2>2. /\ Level(s, r) <= Aim(s) + Tolerated + 500 * px[s]
          /\ s # Proxy => Level(s, r) >= Aim(s) - Tolerated - 1500 * px[s]
      BY <1>0, <1>1, <1>6, <2>1, NearEnough
    <2>3. Level(s, r)' = Level(s, r) /\ Aim(s)' = Aim(s) /\ Tolerated' = Tolerated
      BY <1>2 DEF Level, Aim, Tolerated
    <2> QED BY <1>2, <1>7, <2>2, <2>3 DEF Settled
  <1> QED BY <1>0, <1>1, <1>2, <1>7, <1>9, <1>10, WorkedOff

LEMMA BuyOnTheWay ==
    ASSUME LedgerInv, LedgerInv', UnderWay, Buy, goal' = goal
    PROVE  UnderWay'
  <1>0. PICK s, n, lots : s = Order.sym /\ n = work.pos[s].lots /\ lots = Order.lots
    OBVIOUS
  <1>1. /\ s \in Symbols /\ lots \in Nat /\ n \in Nat /\ px[s] \in Nat \ {0}
        /\ phase = "batch" /\ todo # <<>> /\ Order.side = "BUY" /\ Working("BUY")
        /\ work.pos \in Positions /\ work.acct \in Accounts
    BY <1>0, OrderType, GoalType DEF Buy, Working, LedgerInv, TypeOK
  <1>2. /\ phase' = "batch" /\ todo' = Tail(todo) /\ px' = px
        /\ Rows' = work'.pos
    BY <1>1, BuyKeepsRows DEF Buy, UnderWay
  <1>3. /\ Bought \in Nat /\ Outflow \in Nat
        /\ Outflow <= work.acct.cash /\ work.acct.cash \in Int
    BY <1>1, WithinSpendable, BuyIsCovered, GoalType DEF Buy
  <1>4. work'.acct.cash = work.acct.cash - Outflow
    <2>1. work'.acct.cash = AtLeast(0, work.acct.cash - Outflow)
      BY <1>1 DEF Buy, Accounts
    <2> QED BY <1>3, <2>1 DEF AtLeast
  <1>5. PICK m : m = n + Bought
    OBVIOUS
  <1>6. /\ work'.pos[s].lots = m /\ m \in Nat
        /\ \A t \in Symbols : t # s => work'.pos[t] = work.pos[t]
    <2>1. work'.pos = [work.pos EXCEPT ![Order.sym] = Add(@, Bought)]
      BY DEF Buy
    <2>2. work'.pos[s].lots = n + Bought
      BY <1>0, <1>1, <2>1 DEF Add, Positions
    <2>3. \A t \in Symbols : t # s => work'.pos[t] = work.pos[t]
      BY <1>0, <1>1, <2>1 DEF Positions
    <2> QED BY <1>1, <1>3, <1>5, <2>2, <2>3
  <1>7. /\ Worth \in Int
        /\ Worth' = Worth + (work'.acct.cash - work.acct.cash) + (m * px[s] - n * px[s])
    BY <1>0, <1>1, <1>2, <1>6, WorthChanges
  <1>8. Worth' <= goal.nav
    <2>1. PICK p \in Nat : p = px[s]
      BY <1>1
    <2>2. PICK x \in Nat, y \in Nat : x = Bought * p /\ y = n * p
      BY <1>1, <1>3, ProductIsNat
    <2>3. m * p = y + x
      BY <1>1, <1>3, <1>5, <2>1, <2>2, SumTimes
    <2>4. Outflow >= x
      <3>1. BuyPrice \in Nat /\ BuyPrice >= p
        BY <1>0, <1>1, <2>1, LedgerAssumption DEF BuyPrice
      <3>2. Bought * BuyPrice >= Bought * p /\ Bought * BuyPrice \in Nat
        BY <1>3, <3>1, SMT
      <3>3. Fee(Bought) \in Nat
        BY <1>3, FeeType
      <3> QED BY <2>2, <3>2, <3>3 DEF Outflow
    <2>5. goal.nav \in Nat /\ Worth <= goal.nav
      BY DEF UnderWay
    <2> QED BY <1>3, <1>4, <1>7, <2>1, <2>2, <2>3, <2>4, <2>5
  <1>9. Settled(s)'
    <2>1. Leads(Order, n + lots) /\ n + lots \in Int
      BY <1>0, <1>1, HeadLeads
    <2>2. Bought <= lots /\ (Bought = lots \/ Poor(s, work.acct.cash - Outflow))
      BY <1>0, <1>1, BuyLeavesLittle DEF Buy
    <2>3. m <= AtLeast(0, n + lots) /\ (Bought = lots => m >= (n + lots) - 1)
      BY <1>1, <1>3, <1>5, <2>2 DEF AtLeast
    <2>4. /\ Level(s, m) <= Aim(s) + Tolerated + 500 * px[s]
          /\ s # Proxy => \/ Level(s, m) >= Aim(s) - Tolerated - 1500 * px[s]
                          \/ Poor(s, work'.acct.cash)
      BY <1>0, <1>1, <1>4, <1>6, <2>1, <2>2, <2>3, NearEnough
    <2>5. /\ Level(s, m)' = Level(s, m) /\ Aim(s)' = Aim(s) /\ Tolerated' = Tolerated
          /\ \A c : Poor(s, c) => Poor(s, c)'
      BY <1>2 DEF Level, Aim, Tolerated, Poor
    <2>6. \A k \in DOMAIN todo' : todo'[k].side = "BUY"
      <3>1. Distinct(todo) /\ SalesFirst(todo)
        BY DEF UnderWay
      <3> QED BY <1>1, <1>2, <3>1, TailOfBatch DEF Follows
    <2> QED BY <1>2, <1>6, <2>4, <2>5, <2>6 DEF Settled
  <1>10. work'.acct.cash <= work.acct.cash
    BY <1>3, <1>4
  <1> QED BY <1>0, <1>1, <1>2, <1>6, <1>8, <1>9, <1>10, WorkedOff

-----------------------------------------------------------------------------
(* The ledger under rebalances.                                            *)

\* Whatever a rebalance asks for is a batch the ledger can be given.
LEMMA RebalanceIsAny == LedgerInv /\ [RebalanceNext]_rebalanceVars => [AnyNext]_vars
  <1>1. ASSUME LedgerInv, BeginRebalance PROVE BeginAny
    <2>1. PICK t \in Targets, p \in [Symbols -> Prices] : BeginBatch(RebalanceOrders(t, p), p)
      BY <1>1 DEF BeginRebalance
    <2>2. t \in [Symbols -> Shares]
      BY <2>1, TargetType
    <2>3. RebalanceOrders(t, p) \in Seq(Orders)
      BY <1>1, <2>1, <2>2, OrdersOfARebalance
    <2> QED BY <2>1, <2>3 DEF BeginAny
  <1> QED BY <1>1 DEF RebalanceNext, Goes, AnyNext, rebalanceVars

LEMMA GoalInit == RebalanceInit => GoalInv
  BY DEF RebalanceInit, GoalInv

LEMMA GoalStep ==
    LedgerInv /\ LedgerInv' /\ GoalInv /\ [RebalanceNext]_rebalanceVars => GoalInv'
  <1> SUFFICES ASSUME LedgerInv, LedgerInv', GoalInv, [RebalanceNext]_rebalanceVars,
                      (goal # NoGoal)'
               PROVE  phase' = "batch" /\ UnderWay'
    BY DEF GoalInv
  <1>1. CASE BeginRebalance
    <2>1. PICK t \in Targets, p \in [Symbols -> Prices] :
            /\ BeginBatch(RebalanceOrders(t, p), p)
            /\ goal' = [target |-> t, nav |-> Nav(p)]
      BY <1>1 DEF BeginRebalance
    <2>2. t \in [Symbols -> Shares]
      BY <2>1, TargetType
    <2> QED BY <2>1, <2>2, RebalanceBegins
  <1>2. CASE Goes
    <2>1. /\ phase' = "batch" /\ purges' = purges /\ goal' = goal
          /\ phase = "batch" /\ UnderWay
      BY <1>2 DEF Goes, GoalInv, NoGoal
    <2>2. ~Purge
      BY <2>1 DEF Purge, LedgerInv, TypeOK
    <2>3. PassOver \/ Sell \/ Buy
      BY <1>2, <2>1, <2>2 DEF Goes, Next, Begin, BeginBatch, Commit, Abort, Release, ReadMarks,
                              WriteMarks, ResetToPristine
    <2> QED BY <2>1, <2>3, PassOverOnTheWay, SellOnTheWay, BuyOnTheWay
  <1>3. CASE UNCHANGED rebalanceVars
    <2>1. goal' = goal /\ vars' = vars /\ phase = "batch" /\ UnderWay
      BY <1>3 DEF rebalanceVars, GoalInv, NoGoal
    <2>2. \A o, n : Leads(o, n)' <=> Leads(o, n)
      BY <2>1 DEF vars, Leads, Level, Aim
    <2>3. \A o : OnTheWay(o)' <=> OnTheWay(o)
      BY <2>1, <2>2 DEF vars, OnTheWay
    <2>4. \A s : Settled(s) => Settled(s)'
      BY <2>1 DEF vars, Settled, Level, Aim, Tolerated, Poor
    <2>5. Worth' = Worth /\ Rows' = Rows
      BY <2>1 DEF vars, Worth, Rows
    <2> QED BY <2>1, <2>3, <2>4, <2>5 DEF vars, UnderWay
  <1> QED BY <1>1, <1>2, <1>3 DEF RebalanceNext

LEMMA RebalanceInitIsInit == RebalanceInit => Init
  BY DEF RebalanceInit

\* The orders a rebalance computes are like any others to the ledger: its books
\* balance, its NAV is stored with its prices, its BUYs leave the buffer and its
\* marks move no position, for any targets, band and floor.
THEOREM RebalancesKeepTheBooks ==
    RebalanceSpec => /\ [](TypeOK /\ RowsWithinWork /\ BooksBalance /\ NavMatchesTable)
                     /\ BuyKeepsBuffer /\ MarksMoveNoPosition
  <1>1. LedgerInv /\ MoneyInv => TypeOK /\ RowsWithinWork /\ BooksBalance /\ NavMatchesTable
    BY DEF LedgerInv, MoneyInv, Square, BooksBalance, Balanced, NavMatchesTable
  <1>2. LedgerInv /\ [AnyNext]_vars =>
          [Working("BUY") /\ phase' = "batch" /\ work' # work =>
              1000 * work'.acct.cash >= Buffer * work.acct.cash]_vars
    BY BufferStep
  <1>3. LedgerInv /\ [AnyNext]_vars =>
          [phase = "marks" /\ purges' = purges =>
              \A s \in Symbols : /\ table'[s].lots = table[s].lots
                                 /\ table'[s].cost = table[s].cost]_vars
    BY MarksStep
  <1> QED BY <1>1, <1>2, <1>3, RebalanceInitIsInit, LedgerInit, MoneyInit, LedgerStep, MoneyStep,
             RebalanceIsAny, PTL DEF RebalanceSpec, BuyKeepsBuffer, MarksMoveNoPosition

LEMMA GoalIsReached ==
    ASSUME LedgerInv, GoalInv, [RebalanceNext]_rebalanceVars,
           phase = "batch", phase' = "idle", goal # NoGoal, committed' # committed,
           purges' = purges, NEW s \in Symbols
    PROVE  ~Over(s) /\ (s # Proxy /\ Under(s) => Spent(s))
  <1>1. UnderWay
    BY DEF GoalInv
  <1>2. Commit
    <2>1. ~Abort
      BY DEF Abort
    <2>2. Next
      BY DEF RebalanceNext, BeginRebalance, BeginBatch, Goes, rebalanceVars, vars
    <2> QED BY <2>1, <2>2 DEF Next, Begin, BeginBatch, PassOver, Sell, Buy, ReadMarks, WriteMarks,
                              ResetToPristine, Purge
  <1>3. todo = <<>> /\ acct' = work.acct /\ table' = work.pos
    BY <1>1, <1>2 DEF Commit, UnderWay
  <1>4. Settled(s)
    <2>1. DOMAIN todo = {}
      BY <1>3
    <2> QED BY <1>1, <2>1 DEF UnderWay
  <1>5. PICK n : n = work.pos[s].lots
    OBVIOUS
  <1>6. /\ px[s] \in Nat /\ n \in Nat /\ Aim(s) \in Nat /\ Tolerated \in Nat
    BY <1>1, <1>5, GoalType
  <1>7. 1000 * table'[s].lots * px[s] = Level(s, n) /\ Level(s, n) \in Nat
    <2>1. 1000 * n * px[s] = 1000 * (n * px[s])
      BY <1>6, SMT
    <2>2. n * px[s] \in Nat
      BY <1>6, ProductIsNat
    <2> QED BY <1>3, <1>5, <2>1, <2>2 DEF Level
  <1>8. Aim(s) = goal.target[s] * goal.nav
    BY DEF Aim
  <1>9. ~Over(s)
    BY <1>4, <1>5, <1>6, <1>7, <1>8 DEF Settled, Over
  <1>10. ASSUME s # Proxy, Under(s) PROVE Spent(s)
    <2>1. ~(Level(s, n) >= Aim(s) - Tolerated - 1500 * px[s])
      BY <1>6, <1>7, <1>8, <1>10 DEF Under
    <2>2. Poor(s, work.acct.cash)
      BY <1>4, <1>5, <1>10, <2>1 DEF Settled
    <2> QED BY <1>3, <2>2 DEF Poor, Spent
  <1> QED BY <1>9, <1>10

\* A rebalance that commits has reached its target, for any symbols, prices and
\* slippage, fees and buffer, band and floor, targets, and any portfolio before it:
\* what the largest SELL or BUY was clamped to, and the order they were worked off
\* in, leaves nothing above and, while money is left, nothing below.
THEOREM RebalanceAlwaysReachesTarget == RebalanceSpec => RebalanceReachesTarget
  <1>1. LedgerInv /\ GoalInv /\ [RebalanceNext]_rebalanceVars =>
          [phase = "batch" /\ phase' = "idle" /\ goal # NoGoal /\ committed' # committed
              /\ purges' = purges =>
            \A s \in Symbols : ~Over(s) /\ (s # Proxy /\ Under(s) => Spent(s))]_rebalanceVars
    BY GoalIsReached
  <1> QED BY <1>1, RebalanceInitIsInit, LedgerInit, GoalInit, LedgerStep, GoalStep,
             RebalanceIsAny, PTL DEF RebalanceSpec, RebalanceReachesTarget
=============================================================================

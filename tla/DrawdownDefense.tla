-------------------------- MODULE DrawdownDefense --------------------------
(***************************************************************************)
(* DrawdownDefenseTracker (strategy_engine/signals/indicators.py): the     *)
(* share of equity a drawdown from the peak still allows, and the lockout  *)
(* that keeps a cut in force until the benchmark has closed above its      *)
(* 50-day average several evaluations in a row.                            *)
(*                                                                         *)
(* The program passes no equity curve, so what is tracked is the price of  *)
(* SPY (regime_detector.py:224) and prime is never called.  The tracker    *)
(* lives in memory: a restart creates a fresh one.  The counter is capped  *)
(* at RecoveryDays, beyond which the code does not tell values apart.      *)
(***************************************************************************)
EXTENDS Integers

CONSTANT RecoveryDays  \* recovery_target_days

ASSUME RecoveryAssumption == RecoveryDays \in Nat \ {0}

VARIABLES peak,      \* peak_equity, 0 for None
          gate,      \* active_gate_multiplier in percent
          recovery,  \* consecutive_recovery_days
          lockout,   \* in_recovery_lockout
          window     \* observation: window[i], the i-th last evaluation closed above

tracker == <<peak, gate, recovery, lockout, window>>

Lesser(a, b) == IF a <= b THEN a ELSE b
Greater(a, b) == IF a >= b THEN a ELSE b

Gates == {100, 50, 20, 0}

\* The price lies percent below top or further.
Down(top, price, percent) == 100 * price <= (100 - percent) * top

\* evaluate_drawdown_gate
RawGate(top, price) ==
    CASE ~Down(top, price, 5) -> 100
      [] Down(top, price, 5) /\ ~Down(top, price, 10) -> 50
      [] Down(top, price, 10) /\ ~Down(top, price, 15) -> 20
      [] OTHER -> 0

TrackerTypeOK ==
    /\ peak \in Nat
    /\ gate \in Gates
    /\ recovery \in 0..RecoveryDays
    /\ lockout \in BOOLEAN
    /\ window \in [1..RecoveryDays -> BOOLEAN]

\* Mutant: a close above the average is noted, not counted.
CountedOnce(above) == IF above THEN 1 ELSE 0

\* The evaluations in a row that closed above the average.
Counted(above) == IF above THEN Lesser(recovery + 1, RecoveryDays) ELSE 0

\* Mutant: the lockout ends on the third close, before the price has recovered.
LockedEarly(raw, confirmed) == (lockout \/ raw < 100) /\ ~confirmed

\* in_recovery_lockout after an update.
Locked(raw, confirmed) == (lockout \/ raw < 100) /\ ~(confirmed /\ raw = 100)

\* Mutant: a locked gate takes the table's value at once.
GateAfterUnlatched(raw, confirmed) == raw

\* active_gate_multiplier after an update: while locked it only falls.
GateAfter(raw, confirmed) ==
    IF (lockout \/ raw < 100) /\ ~confirmed THEN Lesser(gate, raw) ELSE raw

\* update: one evaluation, with the benchmark's price and average.
Update(price, above) ==
    LET top == Greater(peak, price)
        raw == RawGate(top, price)
        confirmed == Counted(above) >= RecoveryDays
    IN /\ peak' = top
       /\ recovery' = Counted(above)
       /\ lockout' = Locked(raw, confirmed)
       /\ gate' = GateAfter(raw, confirmed)
       /\ window' = [i \in 1..RecoveryDays |-> IF i = 1 THEN above ELSE window[i - 1]]

FreshTracker ==
    /\ peak = 0 /\ gate = 100 /\ recovery = 0 /\ lockout = FALSE
    /\ window = [i \in 1..RecoveryDays |-> FALSE]

\* A new process starts with a new SignalEngine.
Forget ==
    /\ peak' = 0 /\ gate' = 100 /\ recovery' = 0 /\ lockout' = FALSE
    /\ window' = [i \in 1..RecoveryDays |-> FALSE]
=============================================================================

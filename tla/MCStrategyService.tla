------------------------- MODULE MCStrategyService -------------------------
(***************************************************************************)
(* StrategyService on small instances.  One web request that rebalances is *)
(* enough to meet every other task at the lock: the FIFO queue makes a     *)
(* second one wait exactly as the first.  Days are all last days of a      *)
(* week, so a weekly run is possible with today's decision and with        *)
(* yesterday's.                                                            *)
(***************************************************************************)
EXTENDS StrategyService

CONSTANTS r1

NoRequest == {}
OneRequest == {r1}

OneDay == 1..1
TwoDays == 1..2
=============================================================================

----------------------------- MODULE MCRebalancer -----------------------------
(***************************************************************************)
(* Rebalancer with two risk symbols and the cash proxy: all in one symbol, *)
(* a mix, the proxy only and a target a little off the mix, each after any *)
(* other and at any prices, next to batches of orders that no rebalance    *)
(* would ask for: a BUY written before the SELL that pays for it, a SELL   *)
(* of more than is held, an order rounded to nothing and a BUY that must   *)
(* be clamped.                                                             *)
(***************************************************************************)
EXTENDS Rebalancer

CONSTANTS spy, tlt, shv

MCSymbols == {spy, tlt, shv}
MCAlphabet == <<shv, spy, tlt>>
TwoPrices == {2, 3}

Weights(ofSpy, ofTlt) == [s \in MCSymbols |->
    CASE s = spy -> ofSpy [] s = tlt -> ofTlt [] s = shv -> 1000 - ofSpy - ofTlt]

MCTargets == {Weights(800, 0), Weights(400, 300), Weights(300, 400), Weights(0, 0)}

Buys(s, n) == [sym |-> s, side |-> "BUY", lots |-> n]
Sells(s, n) == [sym |-> s, side |-> "SELL", lots |-> n]

SomeBatches == {
    <<Buys(shv, 9), Sells(spy, 2)>>,
    <<Sells(spy, 0), Buys(spy, 9)>> }
=============================================================================

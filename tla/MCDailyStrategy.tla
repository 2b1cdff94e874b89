-------------------------- MODULE MCDailyStrategy --------------------------
(***************************************************************************)
(* DailyStrategy with two defensive sectors.  One slice of the markets     *)
(* varies prices, averages, volatility and breadth, the other the momentum *)
(* of sectors and havens in one market per regime.                         *)
(***************************************************************************)
EXTENDS DailyStrategy, TLC

MCSectors == {"XLP", "XLV"}
MCAlphabetical == [s \in MCSectors |-> IF s = "XLP" THEN 1 ELSE 2]

Trend(p, a, b) == [price |-> p, sma50 |-> a, sma200 |-> b]
Asset(mom, a50, a200) == [momentum |-> mom, above50 |-> a50, above200 |-> a200]

Strong == [s \in MCSectors \cup {"TLT", "GLD", "SHV"} |-> Asset(IF s = "SHV" THEN 4 ELSE 9, TRUE, TRUE)]
Mixed == [Strong EXCEPT !["XLP"] = Asset(4, FALSE, TRUE), !["TLT"] = Asset(0, FALSE, TRUE)]
Weak == [s \in {"XLV", "SHV"} |-> Asset(0, FALSE, FALSE)]

RiskMarkets ==
    {[index |-> ("SPY" :> spy) @@ ("QQQ" :> qqq), atr |-> 3, vol |-> vol, assets |-> assets] :
        spy \in {Trend(p, a, 88) : p \in {100, 94, 88, 84}, a \in {82, 93}},
        qqq \in {Trend(50, 48, 45), Trend(50, 48, 49), Trend(50, 52, 45)},
        vol \in {10, 20, 40}, assets \in {Strong, Mixed}}

MomentumMarkets ==
    {[index |-> ("SPY" :> spy), atr |-> 3, vol |-> vol, assets |-> assets] :
        spy \in {Trend(100, 93, 88), Trend(91, 93, 88)},
        vol \in {12, 20, 24},
        assets \in {Weak, [s \in {"SHV"} |-> Asset(3, TRUE, TRUE)]}
                   \cup {[s \in {"XLP", "XLV", "GLD", "SHV"} |->
                            CASE s = "XLP" -> Asset(x, TRUE, TRUE) [] s = "XLV" -> Asset(6, TRUE, v)
                              [] s = "GLD" -> Asset(g, TRUE, TRUE) [] OTHER -> Asset(3, TRUE, TRUE)] :
                            x \in {3, 6, 9}, v \in BOOLEAN, g \in {0, 2}}}

MCMarkets == RiskMarkets \cup MomentumMarkets
=============================================================================

---------------------------- MODULE MCDailyRisk -----------------------------
(* Small values for DailyRisk: a loss (or a commission) and a win; positions *)
(* that are losing, flat or winning.                                           *)
EXTENDS DailyRisk

SmallAmounts == {-1, 1}
SmallUnrealized == {-1, 0, 1}
Winnings == {0, 1}
=============================================================================

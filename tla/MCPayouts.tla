----------------------------- MODULE MCPayouts -----------------------------
(* An account of two cycles, for TLC.                                      *)
EXTENDS Payouts, TLC

CONSTANTS R1, R2

TwoCaps == <<1, 3>>
TwoSplits == <<80, 90>>
WinOrLoss == {3, -3}
AnyRequest == Permutations(Requests)
=============================================================================

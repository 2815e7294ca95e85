-------------------------- MODULE MCPendingOrders ---------------------------
(* A limit and a stop order, for TLC.                                      *)
EXTENDS PendingOrders, TLC

CONSTANTS Low, High, S1, S2

OneOfEach == [id \in Orders |-> IF id = Low THEN "buy_limit" ELSE "buy_stop"]
AnyScan == Permutations(Scans)
=============================================================================

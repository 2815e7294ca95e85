------------------------ MODULE MCPositionReductions ------------------------
(* A position of two lots, for TLC.                                       *)
EXTENDS PositionReductions, TLC

CONSTANTS P1, K1, K2, R1, R2, G1, G2

TwoLots == [p \in Positions |-> 2]
AnyKeyAnyScan == Permutations(Keys) \cup Permutations(Reducers) \cup Permutations(Guards)
=============================================================================

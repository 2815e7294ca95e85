-------------------------- MODULE MCContestations ---------------------------
(* Two requests of one trader and two operators, for TLC.                  *)
EXTENDS Contestations, TLC

CONSTANTS R1, R2, A, B, Breach, Lock

AnyRequestAnyStaff == Permutations(Requests) \cup Permutations(Staff)
=============================================================================

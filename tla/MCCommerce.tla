---------------------------- MODULE MCCommerce ----------------------------
(* One purchase of any family and its payment events, for TLC.             *)
EXTENDS Commerce, TLC

CONSTANTS P1, E1, E2, E3

AnyEvent == Permutations(Events)
=============================================================================

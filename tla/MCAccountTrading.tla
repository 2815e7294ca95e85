-------------------------- MODULE MCAccountTrading --------------------------
(* Two symbols of one bucket and a price that halves the account's budget. *)
EXTENDS AccountTrading

CONSTANTS Eur, Gbp

OneBucket == [s \in {Eur, Gbp} |-> "forex"]
=============================================================================

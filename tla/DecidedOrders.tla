--------------------------- MODULE DecidedOrders ----------------------------
(***************************************************************************)
(* What a trader is promised about the orders of an account: once decided, *)
(* an order stays as it was decided and its idempotency key is spent; the  *)
(* account's version counts the orders, and each order carries the version *)
(* it took.  (A Close All master stands for its children and takes none.)  *)
(***************************************************************************)
EXTENDS SequencesExt

VARIABLES orders,   \* the decided orders: key, kind, st, seq
          version   \* the sequence gate of the account

vars == <<orders, version>>

\* How many of the first n orders took a version.
Taken(log, n) == Cardinality({i \in 1..n : log[i].kind # "close_all"})
Distinct(log) == \A i, j \in DOMAIN log : log[i].key = log[j].key => i = j

Init == orders = <<>> /\ version = 0

\* A command decides one order or, for Close All and for a breach, several.
Decide ==
  /\ IsStrictPrefix(orders, orders')
  /\ Distinct(orders')
  /\ version' = Taken(orders', Len(orders'))
  /\ \A i \in (Len(orders) + 1)..Len(orders') :
       orders'[i].kind # "close_all" => orders'[i].seq = Taken(orders', i)

Spec == Init /\ [][Decide]_vars
=============================================================================

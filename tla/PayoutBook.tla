----------------------------- MODULE PayoutBook -----------------------------
(***************************************************************************)
(* What the payouts of a Performance account promise: its cycles pay in    *)
(* turn, each one request at most, and a payment is undone once at most.   *)
(***************************************************************************)
EXTENDS Naturals

CONSTANTS Requests, MaxCycles

VARIABLES paidIn,    \* the requests that each cycle has paid
          undone     \* the requests whose payment was reversed

Init == paidIn = [c \in 1..MaxCycles |-> {}] /\ undone = {}

Pay(c, r) ==
  /\ paidIn[c] = {} /\ (c = 1 \/ paidIn[c - 1] # {})
  /\ \A k \in 1..MaxCycles : r \notin paidIn[k]
  /\ paidIn' = [paidIn EXCEPT ![c] = {r}]
  /\ UNCHANGED undone

Undo(c, r) ==
  /\ r \in paidIn[c] /\ r \notin undone
  /\ undone' = undone \cup {r}
  /\ UNCHANGED paidIn

Next == \E c \in 1..MaxCycles, r \in Requests : Pay(c, r) \/ Undo(c, r)

Spec == Init /\ [][Next]_<<paidIn, undone>>
=============================================================================

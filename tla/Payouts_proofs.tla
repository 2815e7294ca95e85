--------------------------- MODULE Payouts_proofs ---------------------------
(***************************************************************************)
(* Proofs about Payouts, for any requests, cycles, policies and calendars. *)
(* What a step does to a request is stated once (the Effect lemmas); then  *)
(* each part of the inductive invariant has a lemma of its own.            *)
(***************************************************************************)
EXTENDS Payouts, TLAPS

Rows == [status: Statuses, cycle: 0..MaxCycles, net: Nat, base: Nat]
Drafts == [step: {"idle", "checked", "inserted"}, cycle: 0..MaxCycles, net: Nat]

-----------------------------------------------------------------------------
(* The sums.                                                                *)

(* A quotient of natural numbers is one.                                   *)
LEMMA DivisionNat ==
  ASSUME NEW m \in Nat, NEW n \in Nat, n > 0 PROVE m \div n \in Nat
  <1>1. m \div n \in Int BY SMT
  <1>2. m \div n >= 0 BY SMT
  <1> QED BY <1>1, <1>2

(* So is a rounded one.                                                     *)
LEMMA QuotientNat ==
  ASSUME NEW a \in Nat, NEW b \in Nat \ {0} PROVE RoundedQuotient(a, b) \in Nat
  <1>1. 2 * a + b \in Nat /\ 2 * b \in Nat /\ 2 * b > 0 OBVIOUS
  <1> DEFINE m == 2 * a + b
             n == 2 * b
  <1>2. m \in Nat /\ n \in Nat /\ n > 0 BY <1>1
  <1> HIDE DEF m, n
  <1>3. m \div n \in Nat BY <1>2, DivisionNat
  <1> QED BY <1>3 DEF RoundedQuotient, m, n

(* The gross base of a sum a trader may ask for, or of a cap.               *)
LEMMA GrossNat ==
  ASSUME NEW net \in Nat, NEW c \in Cycles PROVE GrossOf(net, Splits[c]) \in Nat
  <1>1. Splits[c] \in 1..100 BY PayoutAssumption DEF Cycles
  <1>2. Splits[c] \in Nat \ {0} BY <1>1
  <1>3. 100 * net \in Nat OBVIOUS
  <1> QED BY <1>2, <1>3, QuotientNat DEF GrossOf

(* What is approved is a sum that the balance above the floor can bear.     *)
LEMMA ApprovedBounded ==
  ASSUME NEW b \in Int, NEW asked \in Nat, NEW cap \in Nat
  PROVE  LET g == ApprovedGross(EligibleExcess(b, Floor), asked, cap) IN
         g \in Nat /\ g <= cap /\ g <= asked /\ (b >= Floor => b - g >= Floor)
  BY PayoutAssumption DEF ApprovedGross, EligibleExcess, Least

(* The quotient times the divisor is at most the dividend.                  *)
LEMMA QuotientBelow ==
  ASSUME NEW m \in Nat, NEW n \in Nat, n > 0 PROVE n * (m \div n) <= m
  BY SMT

(* Rounded twice, half up, the trader's net of a base stays within the cap  *)
(* whose gross base bounds it, and the firm's share is never negative.      *)
LEMMA NetWithinCap ==
  ASSUME NEW cap \in Nat, NEW split \in 1..100, NEW base \in Nat,
         base <= GrossOf(cap, split)
  PROVE  TraderNet(base, split) <= cap /\ WaribaShare(base, split) >= 0
  <1> DEFINE m == 200 * cap + split
             n == 2 * split
             g == m \div n
             x == base * split
             net == (2 * x + 100) \div 200
  <1>1. GrossOf(cap, split) = g
    <2>1. 2 * (100 * cap) + split = m OBVIOUS
    <2> QED BY <2>1 DEF GrossOf, RoundedQuotient
  <1>2. TraderNet(base, split) = net
    <2>1. 2 * 100 = 200 OBVIOUS
    <2> QED BY <2>1 DEF TraderNet, RoundedQuotient
  <1>3. m \in Nat /\ n \in Nat /\ n > 0 /\ x \in Nat OBVIOUS
  <1>4. n * g <= m /\ g \in Nat
    <2> HIDE DEF m, n
    <2> QED BY <1>3, QuotientBelow, DivisionNat
  <1>5. 2 * x <= 200 * cap + split
    <2>1. base <= g BY <1>1
    <2> HIDE DEF g
    <2>2. split * base <= split * g BY <1>4, <2>1
    <2>3. x = split * base OBVIOUS
    <2>4. n * g = 2 * (split * g) BY <1>4
    <2> DEFINE y == split * g
    <2>5. y \in Int BY <1>4
    <2>6. 2 * y <= m BY <1>4, <2>4
    <2>7. x <= y BY <2>2, <2>3
    <2> HIDE DEF x, y
    <2> QED BY <1>3, <2>5, <2>6, <2>7
  <1>6. 2 * x <= 200 * base
    <2>1. base * split <= base * 100 OBVIOUS
    <2> DEFINE z == base * 100
    <2>2. x <= z /\ z = 100 * base BY <2>1
    <2> HIDE DEF x, z
    <2> QED BY <1>3, <2>2
  <1>7. 200 * net <= 2 * x + 100 /\ net \in Nat
    <2>1. 2 * x + 100 \in Nat BY <1>3
    <2> HIDE DEF x
    <2> QED BY <2>1, QuotientBelow, DivisionNat
  <1> HIDE DEF net
  <1>8. net <= cap
    <2>1. CASE split < 100
      <3> HIDE DEF x
      <3> QED BY <1>3, <1>5, <1>7, <2>1
    <2>2. CASE split = 100
      <3>1. x = 100 * base BY <2>2
      <3> HIDE DEF x
      <3> QED BY <1>3, <1>5, <1>7, <2>2, <3>1
    <2> QED BY <2>1, <2>2
  <1>9. base - net >= 0
    <2> HIDE DEF x
    <2> QED BY <1>3, <1>6, <1>7
  <1> QED BY <1>2, <1>8, <1>9 DEF WaribaShare

-----------------------------------------------------------------------------
(* What a step does to the rows.                                            *)

(* A change of status changes nothing else.                                 *)
LEMMA StatusEffect ==
  ASSUME NEW r \in Requests, NEW s \in Statuses, request \in [Requests -> Rows],
         SetStatus(r, s)
  PROVE  /\ request' \in [Requests -> Rows]
         /\ request'[r].status = s
         /\ \A q \in Requests : /\ request'[q].cycle = request[q].cycle
                                /\ request'[q].base = request[q].base
                                /\ request'[q].net = request[q].net
                                /\ q # r => request'[q] = request[q]
  <1> DEFINE set(x) == [x EXCEPT !.status = s]
  <1>1. \A x \in Rows : /\ set(x) \in Rows /\ set(x).status = s
                        /\ set(x).cycle = x.cycle /\ set(x).base = x.base
                        /\ set(x).net = x.net
    BY DEF Rows
  <1>2. request' = [request EXCEPT ![r] = set(request[r])] BY DEF SetStatus
  <1> HIDE DEF set
  <1> QED BY <1>1, <1>2

(* An approval records its base.                                            *)
LEMMA ApprovalEffect ==
  ASSUME NEW r \in Requests, TypeOK, Approve(r), request[r].cycle \in Cycles
  PROVE  /\ request' \in [Requests -> Rows]
         /\ request'[r].status = "approved"
         /\ balance >= Floor /\ exposure = "flat"
         /\ balance - request'[r].base >= Floor
         /\ request'[r].base <= GrossOf(Caps[request[r].cycle], Splits[request[r].cycle])
         /\ request'[r].base <= RequestedGross(r)
         /\ \A q \in Requests : /\ request'[q].cycle = request[q].cycle
                                /\ request'[q].net = request[q].net
                                /\ q # r => request'[q] = request[q]
  <1> DEFINE cap == GrossOf(Caps[request[r].cycle], Splits[request[r].cycle])
             g == ApprovedGross(EligibleExcess(balance, Floor), RequestedGross(r), cap)
             set(x, y) == [x EXCEPT !.status = "approved", !.base = y]
  <1>1. request \in [Requests -> Rows] /\ balance \in Int BY DEF TypeOK, Rows
  <1>2. Caps[request[r].cycle] \in Nat BY PayoutAssumption DEF Cycles
  <1>3. cap \in Nat BY <1>2, GrossNat
  <1>4. RequestedGross(r) \in Nat BY <1>1, GrossNat DEF Rows, RequestedGross
  <1>5. balance >= Floor /\ exposure = "flat" BY DEF Approve, Eligible
  <1> HIDE DEF cap
  <1>6. g \in Nat /\ g <= cap /\ g <= RequestedGross(r) /\ balance - g >= Floor
    BY <1>1, <1>3, <1>4, <1>5, ApprovedBounded
  <1>7. \A x \in Rows, y \in Nat : /\ set(x, y) \in Rows /\ set(x, y).status = "approved"
                                   /\ set(x, y).base = y /\ set(x, y).cycle = x.cycle
                                   /\ set(x, y).net = x.net
    BY DEF Rows, Statuses, ActiveStatuses
  <1>8. request' = [request EXCEPT ![r] = set(request[r], g)] BY DEF Approve, cap
  <1> HIDE DEF set, g
  <1>9. request'[r].base = g BY <1>1, <1>6, <1>7, <1>8
  <1> QED BY <1>1, <1>5, <1>6, <1>7, <1>8, <1>9 DEF cap

(* A new request is under review, for the cycle it was drafted for.         *)
LEMMA InsertEffect ==
  ASSUME NEW r \in Requests, TypeOK, InsertRequest(r)
  PROVE  /\ request' \in [Requests -> Rows]
         /\ request'[r].status = "pending_review" /\ request'[r].cycle = creating[r].cycle
         /\ request'[r].base = 0 /\ request'[r].net \in Nat
         /\ \A q \in Requests : q # r => request'[q] = request[q]
         /\ creating' \in [Requests -> Drafts]
         /\ \A q \in Requests : creating'[q].cycle = creating[q].cycle
         /\ \A q \in Requests : creating'[q].step # "idle" => creating[q].step # "idle"
  <1> DEFINE new == [status |-> "pending_review", cycle |-> creating[r].cycle,
                     net |-> creating[r].net, base |-> 0]
             set(x) == [x EXCEPT !.step = "inserted"]
  <1>1. request \in [Requests -> Rows] /\ creating \in [Requests -> Drafts]
    BY DEF TypeOK, Rows, Drafts
  <1>2. new \in Rows BY <1>1 DEF Rows, Drafts, Statuses, ActiveStatuses
  <1>3. new.status = "pending_review" /\ new.cycle = creating[r].cycle /\ new.base = 0
          /\ new.net \in Nat
    BY <1>1 DEF Drafts
  <1>4. request' = [request EXCEPT ![r] = new] /\ creating[r].step = "checked"
    BY DEF InsertRequest
  <1>5. \A x \in Drafts : set(x) \in Drafts /\ set(x).cycle = x.cycle BY DEF Drafts
  <1>6. creating' = [creating EXCEPT ![r] = set(creating[r])] BY DEF InsertRequest
  <1> HIDE DEF new, set
  <1> QED BY <1>1, <1>2, <1>3, <1>4, <1>5, <1>6

(* A draft keeps the cycle that was current.                                *)
LEMMA CheckEffect ==
  ASSUME NEW r \in Requests, NEW net \in Asks, TypeOK, CheckRequest(r, net)
  PROVE  /\ creating' \in [Requests -> Drafts]
         /\ creating'[r].cycle \in OpenCycles
         /\ \A q \in Requests : q # r => creating'[q] = creating[q]
  <1> DEFINE new == [step |-> "checked", cycle |-> Current, net |-> net]
  <1>1. Current \in OpenCycles BY DEF CheckRequest, Current
  <1>2. Current \in Cycles BY <1>1 DEF OpenCycles
  <1>3. net \in Nat BY PayoutAssumption
  <1>4. Current \in 0..MaxCycles BY <1>2, PayoutAssumption DEF Cycles
  <1>5. new \in Drafts BY <1>3, <1>4 DEF Drafts
  <1>6. new.cycle = Current OBVIOUS
  <1>7. creating' = [creating EXCEPT ![r] = new] BY DEF CheckRequest
  <1>8. creating \in [Requests -> Drafts] BY DEF TypeOK, Drafts
  <1> HIDE DEF new
  <1> QED BY <1>1, <1>5, <1>6, <1>7, <1>8

(* The end of a creation forgets the draft.                                 *)
LEMMA IdleEffect ==
  ASSUME NEW r \in Requests, TypeOK, creating' = [creating EXCEPT ![r] = Idle]
  PROVE  /\ creating' \in [Requests -> Drafts]
         /\ creating'[r].step = "idle"
         /\ \A q \in Requests : q # r => creating'[q] = creating[q]
  <1>1. Idle \in Drafts /\ Idle.step = "idle" BY PayoutAssumption DEF Idle, Drafts
  <1>2. creating \in [Requests -> Drafts] BY DEF TypeOK, Drafts
  <1> QED BY <1>1, <1>2

(* Closing a cycle opens at most the next one, today.                       *)
LEMMA CloseEffect ==
  ASSUME NEW c \in Cycles, TypeOK, CloseCycleAndAdvance(c)
  PROVE  /\ cycle' \in [Cycles -> {"none", "active", "payout_pending", "closed"}]
         /\ opened' \in [Cycles -> 0..MaxDay]
         /\ cycle[c] # "closed" /\ cycle'[c] = "closed" /\ opened'[c] = opened[c]
         /\ \A k \in Cycles \ {c, c + 1} : cycle'[k] = cycle[k] /\ opened'[k] = opened[k]
         /\ \A k \in Cycles : k = c + 1 =>
              IF cycle[k] = "none" THEN cycle'[k] = "active" /\ opened'[k] = day
                                   ELSE cycle'[k] = cycle[k] /\ opened'[k] = opened[k]
  <1>1. /\ cycle \in [Cycles -> {"none", "active", "payout_pending", "closed"}]
        /\ opened \in [Cycles -> 0..MaxDay] /\ day \in 0..MaxDay
    BY PayoutAssumption DEF TypeOK, Days
  <1>2. /\ cycle[c] # "closed"
        /\ cycle' = [k \in Cycles |->
                 IF k = c THEN "closed"
                 ELSE IF k = c + 1 /\ cycle[k] = "none" THEN "active" ELSE cycle[k]]
        /\ opened' = [k \in Cycles |->
                  IF k = c + 1 /\ cycle[k] = "none" THEN day ELSE opened[k]]
    BY DEF CloseCycleAndAdvance
  <1>3. c # c + 1 BY DEF Cycles
  <1> QED BY <1>1, <1>2, <1>3

(* A change of status of a cycle is of one that is not closed.              *)
LEMMA CycleEffect ==
  ASSUME NEW c \in Cycles, NEW s \in {"active", "payout_pending"}, TypeOK, SetCycle(c, s)
  PROVE  /\ cycle' \in [Cycles -> {"none", "active", "payout_pending", "closed"}]
         /\ cycle[c] # "closed" /\ cycle'[c] = s
         /\ \A k \in Cycles : k # c => cycle'[k] = cycle[k]
  BY DEF TypeOK, SetCycle

-----------------------------------------------------------------------------
(* The inductive invariant.                                                 *)

(* A request and a draft have a cycle that exists.                          *)
Placed ==
  \A r \in Requests :
    /\ request[r].status # "none" =>
         request[r].cycle \in Cycles /\ cycle[request[r].cycle] # "none"
    /\ creating[r].step # "idle" =>
         creating[r].cycle \in Cycles /\ cycle[creating[r].cycle] # "none"
    /\ r \in rejecting => request[r].status # "none"

(* Cycles open in turn, each after the one before it is closed.             *)
InTurn ==
  /\ \A a, b \in Cycles : a < b /\ cycle[b] # "none" =>
       cycle[a] = "closed" /\ opened[a] <= opened[b]
  /\ \A c \in Cycles : opened[c] <= day

(* A closed cycle is one that has paid, and has paid one request.           *)
Payers ==
  /\ \A c \in Cycles : cycle[c] = "closed" <=> \E r \in debited : request[r].cycle = c
  /\ \A q, r \in debited : request[q].cycle = request[r].cycle => q = r

(* An approval of an open cycle rests on that cycle's days.                 *)
DaysOfCycle ==
  /\ finalized \subseteq 1..(day - 1)
  /\ \A r \in Requests : \A d \in counted[r] :
       /\ \/ /\ request[r].status \in {"approved", "processing"}
             /\ cycle[request[r].cycle] # "closed"
          \/ r \in debited
          => opened[request[r].cycle] <= d /\ d < day
       /\ r \in debited =>
            \A k \in Cycles : k > request[r].cycle /\ cycle[k] # "none" => d < opened[k]

(* While the freeze holds, the account is flat and covers the approval.     *)
Covered ==
  \A r \in Requests \ lapsed :
    request[r].status \in {"approved", "processing"} =>
      /\ cycle[request[r].cycle] = "payout_pending" /\ exposure = "flat"
      /\ balance - request[r].base >= Floor

IInv == /\ TypeOK /\ LedgerFollowsRequests /\ Placed /\ InTurn /\ Payers
        /\ DaysOfCycle /\ Covered /\ OnlyApprovedIsSent
-----------------------------------------------------------------------------
(* The flags stay flags, and histories stay among requests.                 *)
LEMMA FlagsStep ==
  ASSUME TypeOK, Next
  PROVE  review' \in BOOLEAN /\ stray' \in BOOLEAN /\ hold' \in BOOLEAN
  <1> USE DEF cycles, account, trading, calendar, calls, history
  <1>0. review \in BOOLEAN /\ stray \in BOOLEAN /\ hold \in BOOLEAN BY DEF TypeOK
  <1>1. ASSUME NEW r \in Requests
        PROVE  /\ \A net \in Asks : CheckRequest(r, net) => UNCHANGED <<review, stray, hold>>
               /\ InsertRequest(r) => UNCHANGED <<review, stray, hold>>
               /\ FreezeCycle(r) => UNCHANGED <<review, stray, hold>>
               /\ CreationEnds(r) => UNCHANGED <<review, stray, hold>>
               /\ Approve(r) => UNCHANGED <<review, stray, hold>>
               /\ ReadForRejection(r) => UNCHANGED <<review, stray, hold>>
               /\ Reject(r) => UNCHANGED <<review, stray, hold>>
               /\ RejectionEnds(r) => UNCHANGED <<review, stray, hold>>
    BY DEF CheckRequest, InsertRequest, FreezeCycle, CreationEnds, Approve,
           ReadForRejection, Reject, RejectionEnds
  <1>2. ASSUME NEW r \in Requests
        PROVE  /\ SubmitToProvider(r) => UNCHANGED <<review, stray, hold>>
               /\ RecordSubmission(r) => UNCHANGED <<review, stray, hold>>
               /\ SubmissionEnds(r) => UNCHANGED <<review, stray, hold>>
               /\ \A o \in Outcomes : /\ AskProvider(r, o) => UNCHANGED <<review, stray, hold>>
                                      /\ SettlementEnds(r, o) => UNCHANGED <<review, stray, hold>>
               /\ RecordFailure(r) => UNCHANGED <<review, stray, hold>>
               /\ ReversePayout(r) => UNCHANGED <<review, stray, hold>>
    BY DEF SubmitToProvider, RecordSubmission, SubmissionEnds, AskProvider, SettlementEnds,
           RecordFailure, ReversePayout
  <1>3. ASSUME NEW r \in Requests, RefuseApproval(r) PROVE UNCHANGED <<review, stray>> /\ hold' \in BOOLEAN
    BY <1>0, <1>3 DEF RefuseApproval
  <1>4. ASSUME NEW r \in Requests, SettlePaid(r) PROVE review' \in BOOLEAN /\ UNCHANGED <<stray, hold>>
    BY <1>0, <1>4 DEF SettlePaid, CloseCycleAndAdvance
  <1>5. PlaceHold \/ ClearHold => UNCHANGED <<review, stray>> /\ hold' \in BOOLEAN
    BY DEF PlaceHold, ClearHold
  <1>6. LedgerFault => UNCHANGED <<review, hold>> /\ stray' \in BOOLEAN BY DEF LedgerFault
  <1>7. PlaceOrder \/ DropOrder \/ OpenPosition \/ Midnight \/ FinalizeDays
          => UNCHANGED <<review, stray, hold>>
    BY DEF PlaceOrder, DropOrder, OpenPosition, Midnight, FinalizeDays
  <1>8. /\ \A x \in Results : ClosePosition(x) => UNCHANGED <<review, stray, hold>>
        /\ \A x \in Standings : ChangeStanding(x) => UNCHANGED <<review, stray, hold>>
    BY DEF ClosePosition, ChangeStanding
  <1> QED BY <1>0, <1>1, <1>2, <1>3, <1>4, <1>5, <1>6, <1>7, <1>8, Zenon DEF Next, Step

(* Everything else has its type after every step.                           *)
Sorts ==
  /\ request \in [Requests -> Rows]
  /\ cycle \in [Cycles -> {"none", "active", "payout_pending", "closed"}]
  /\ opened \in [Cycles -> 0..MaxDay]
  /\ \A c \in Cycles : opened[c] = 0 <=> cycle[c] = "none"
  /\ balance \in Int /\ debited \subseteq Requests /\ credited \subseteq Requests
  /\ standing \in Standings /\ exposure \in {"flat", "ordered", "open"}
  /\ day \in Days /\ profit \in [Days -> Int] /\ finalized \subseteq Days
  /\ creating \in [Requests -> Drafts]
  /\ rejecting \subseteq Requests /\ submitting \subseteq Requests
  /\ settling \in [Requests -> SUBSET Outcomes] /\ sent \subseteq Requests
  /\ counted \in [Requests -> SUBSET Days] /\ overtaken \subseteq Requests

(* Every step keeps these types.                                            *)
LEMMA SortsStep ==
  ASSUME TypeOK, Placed, Step PROVE Sorts'
  <1> USE DEF cycles, account, trading, calendar, calls, history
  <1>0. Sorts BY DEF TypeOK, Sorts, Rows, Drafts
  <1>known. \A r \in Requests : request[r].status # "none" =>
          request[r].cycle \in Cycles /\ cycle[request[r].cycle] # "none"
    BY DEF Placed
  <1>1. ASSUME NEW r \in Requests, NEW net \in Asks, CheckRequest(r, net) PROVE Sorts'
    BY <1>0, <1>1, CheckEffect DEF Sorts, CheckRequest
  <1>2. ASSUME NEW r \in Requests, InsertRequest(r) PROVE Sorts'
    BY <1>0, <1>2, InsertEffect DEF Sorts, InsertRequest
  <1>3. ASSUME NEW r \in Requests, FreezeCycle(r) PROVE Sorts'
    <2>1. creating[r].cycle \in Cycles /\ cycle[creating[r].cycle] # "none"
      BY <1>3 DEF Placed, FreezeCycle
    <2>2. SetCycle(creating[r].cycle, "payout_pending") BY <1>3 DEF FreezeCycle
    <2>3. creating' \in [Requests -> Drafts] BY <1>3, IdleEffect DEF FreezeCycle
    <2> QED BY <1>0, <1>3, <2>1, <2>2, <2>3, CycleEffect DEF Sorts, FreezeCycle
  <1>4. ASSUME NEW r \in Requests, CreationEnds(r) PROVE Sorts'
    BY <1>0, <1>4, IdleEffect DEF Sorts, CreationEnds
  <1>5. ASSUME NEW r \in Requests, Approve(r) PROVE Sorts'
    BY <1>0, <1>5, <1>known, ApprovalEffect DEF Sorts, Approve, PerformanceDays, CycleDays
  <1>6. ASSUME NEW r \in Requests, RefuseApproval(r) PROVE Sorts'
    <2>1. request[r].cycle \in Cycles /\ cycle[request[r].cycle] # "none"
      BY <1>known, <1>6 DEF RefuseApproval
    <2>2. SetCycle(request[r].cycle, "active") /\ SetStatus(r, "rejected") BY <1>6 DEF RefuseApproval
    <2>3. request' \in [Requests -> Rows]
      BY <1>0, <2>2, StatusEffect DEF Sorts, Statuses, ActiveStatuses
    <2> QED BY <1>0, <1>6, <2>1, <2>2, <2>3, CycleEffect DEF Sorts, RefuseApproval
  <1>7. ASSUME NEW r \in Requests, ReadForRejection(r) PROVE Sorts'
    BY <1>0, <1>7 DEF Sorts, ReadForRejection
  <1>8. ASSUME NEW r \in Requests, Reject(r) PROVE Sorts'
    BY <1>0, <1>8, <1>known, StatusEffect, CycleEffect DEF Sorts, Reject, Placed, Statuses, ActiveStatuses
  <1>9. ASSUME NEW r \in Requests, RejectionEnds(r) PROVE Sorts'
    BY <1>0, <1>9 DEF Sorts, RejectionEnds
  <1>10. ASSUME NEW r \in Requests, SubmitToProvider(r) PROVE Sorts'
    BY <1>0, <1>10 DEF Sorts, SubmitToProvider
  <1>11. ASSUME NEW r \in Requests, RecordSubmission(r) PROVE Sorts'
    BY <1>0, <1>11, StatusEffect DEF Sorts, RecordSubmission, Statuses, ActiveStatuses
  <1>12. ASSUME NEW r \in Requests, SubmissionEnds(r) PROVE Sorts'
    BY <1>0, <1>12 DEF Sorts, SubmissionEnds
  <1>13. ASSUME NEW r \in Requests, NEW o \in Outcomes, AskProvider(r, o) \/ SettlementEnds(r, o) PROVE Sorts'
    BY <1>0, <1>13 DEF Sorts, AskProvider, SettlementEnds
  <1>14. ASSUME NEW r \in Requests, SettlePaid(r) PROVE Sorts'
    <2>1. request[r].cycle \in Cycles /\ cycle[request[r].cycle] # "none"
      BY <1>known, <1>14 DEF SettlePaid
    <2>2. CloseCycleAndAdvance(request[r].cycle) /\ SetStatus(r, "paid") BY <1>14 DEF SettlePaid
    <2>3. request' \in [Requests -> Rows]
      BY <1>0, <2>2, StatusEffect DEF Sorts, Statuses, ActiveStatuses
    <2>4. /\ cycle' \in [Cycles -> {"none", "active", "payout_pending", "closed"}]
          /\ opened' \in [Cycles -> 0..MaxDay]
          /\ \A c \in Cycles : opened'[c] = 0 <=> cycle'[c] = "none"
      <3> DEFINE k == request[r].cycle
      <3>1. k \in Cycles /\ cycle[k] # "none" /\ CloseCycleAndAdvance(k) BY <2>1, <2>2
      <3>2. day # 0 /\ \A c \in Cycles : opened[c] = 0 <=> cycle[c] = "none"
        BY <1>0 DEF Sorts, Days
      <3> HIDE DEF k
      <3>3. \A c \in Cycles : c # k /\ c # k + 1 => opened'[c] = opened[c] /\ cycle'[c] = cycle[c]
        BY <3>1, CloseEffect
      <3>4. \A c \in Cycles : c = k + 1 => (opened'[c] = 0 <=> cycle'[c] = "none")
        BY <3>1, <3>2, CloseEffect
      <3>5. opened'[k] = 0 <=> cycle'[k] = "none" BY <3>1, <3>2, CloseEffect
      <3> QED BY <3>1, <3>3, <3>4, <3>5, <3>2, CloseEffect
    <2>5. -request[r].base \in Int BY <1>0 DEF Sorts, Rows
    <2>6. balance' \in Int /\ profit' \in [Days -> Int]
      BY <1>0, <1>14, <2>5 DEF Sorts, SettlePaid, Post
    <2> QED BY <1>0, <1>14, <2>3, <2>4, <2>6 DEF Sorts, SettlePaid
  <1>15. ASSUME NEW r \in Requests, RecordFailure(r) PROVE Sorts'
    <2>1. request[r].cycle \in Cycles /\ cycle[request[r].cycle] # "none"
      BY <1>known, <1>15 DEF RecordFailure
    <2>2. SetCycle(request[r].cycle, "active") /\ SetStatus(r, "failed") BY <1>15 DEF RecordFailure
    <2>3. request' \in [Requests -> Rows]
      BY <1>0, <2>2, StatusEffect DEF Sorts, Statuses, ActiveStatuses
    <2>4. cycle \in [Cycles -> {"none", "active", "payout_pending", "closed"}]
      BY <1>0 DEF Sorts
    <2>5. /\ cycle' \in [Cycles -> {"none", "active", "payout_pending", "closed"}]
          /\ opened' = opened /\ \A c \in Cycles : opened'[c] = 0 <=> cycle'[c] = "none"
      <3>1. \A c \in Cycles : opened[c] = 0 <=> cycle[c] = "none"
        BY <1>0 DEF Sorts
      <3>2. opened' = opened
        BY <1>15, <2>2 DEF RecordFailure, SetCycle
      <3> QED BY <2>1, <2>2, <2>4, <3>1, <3>2, CycleEffect
    <2> QED BY <1>0, <1>15, <2>3, <2>5 DEF Sorts, RecordFailure
  <1>16. ASSUME NEW r \in Requests, ReversePayout(r) PROVE Sorts'
    <2>1. SetStatus(r, "reversed") /\ Post(request[r].base) /\ credited' = credited \cup {r}
      BY <1>16 DEF ReversePayout
    <2>2. request' \in [Requests -> Rows]
      BY <1>0, <2>1, StatusEffect DEF Sorts, Statuses, ActiveStatuses
    <2>3. request[r].base \in Int BY <1>0 DEF Sorts, Rows
    <2>4. balance' \in Int /\ profit' \in [Days -> Int]
      BY <1>0, <2>1, <2>3 DEF Sorts, Post
    <2> QED BY <1>0, <1>16, <2>1, <2>2, <2>4 DEF Sorts, ReversePayout
  <1>17. ASSUME PlaceHold \/ ClearHold \/ LedgerFault PROVE Sorts'
    BY <1>0, <1>17 DEF Sorts, PlaceHold, ClearHold, LedgerFault
  <1>18. ASSUME PlaceOrder \/ DropOrder \/ OpenPosition PROVE Sorts'
    BY <1>0, <1>18 DEF Sorts, PlaceOrder, DropOrder, OpenPosition
  <1>19. ASSUME NEW x \in Results, ClosePosition(x) PROVE Sorts'
    BY <1>0, <1>19, PayoutAssumption DEF Sorts, ClosePosition, Days
  <1>20. ASSUME NEW x \in Standings, ChangeStanding(x) PROVE Sorts'
    BY <1>0, <1>20 DEF Sorts, ChangeStanding
  <1>21. ASSUME Midnight PROVE Sorts'
    BY <1>0, <1>21, PayoutAssumption DEF Sorts, Midnight, Days
  <1>22. ASSUME FinalizeDays PROVE Sorts'
    BY <1>0, <1>22, PayoutAssumption DEF Sorts, FinalizeDays, Days
  <1> QED BY <1>1, <1>2, <1>3, <1>4, <1>5, <1>6, <1>7, <1>8, <1>9, <1>10, <1>11, <1>12,
             <1>13, <1>14, <1>15, <1>16, <1>17, <1>18, <1>19, <1>20, <1>21, <1>22, Zenon DEF Step

-----------------------------------------------------------------------------
(* The shapes a step can have, as far as requests and cycles go.            *)

books == <<opened, debited, credited, counted>>
scene == <<balance, exposure, day, finalized>>

(* A request is given up and its cycle, which is not closed, is active.     *)
Returns(r, s) ==
  /\ request[r].status # "none"
  /\ s \in {"rejected", "failed"}
  /\ request' \in [Requests -> Rows] /\ request'[r].status = s
  /\ \A q \in Requests : /\ request'[q].cycle = request[q].cycle
                         /\ request'[q].base = request[q].base
                         /\ request'[q].net = request[q].net
                         /\ q # r => request'[q] = request[q]
  /\ cycle[request[r].cycle] # "closed" /\ cycle'[request[r].cycle] = "active"
  /\ \A k \in Cycles : k # request[r].cycle => cycle'[k] = cycle[k]
  /\ UNCHANGED books /\ UNCHANGED scene /\ UNCHANGED creating
  /\ rejecting' \subseteq rejecting

(* A refusal, a rejection and a failed payment give the request up.         *)
LEMMA ReturnsEffect ==
  ASSUME TypeOK, Placed, NEW r \in Requests,
         RefuseApproval(r) \/ Reject(r) \/ RecordFailure(r)
  PROVE  \E s \in {"rejected", "failed"} : Returns(r, s)
  <1> USE DEF cycles, account, trading, calendar, calls, history
  <1>1. request[r].status # "none" BY DEF Placed, RefuseApproval, Reject, RecordFailure
  <1>2. request[r].cycle \in Cycles BY <1>1 DEF Placed
  <1>3. request \in [Requests -> Rows] BY DEF TypeOK, Rows
  <1>4. PICK s \in {"rejected", "failed"} :
          SetStatus(r, s) /\ SetCycle(request[r].cycle, "active")
    BY DEF RefuseApproval, Reject, RecordFailure
  <1>5. s \in Statuses BY DEF Statuses
  <1>6. UNCHANGED books /\ UNCHANGED scene /\ UNCHANGED creating /\ rejecting' \subseteq rejecting
    BY DEF RefuseApproval, Reject, RecordFailure, books, scene
  <1> QED BY <1>1, <1>2, <1>3, <1>4, <1>5, <1>6, StatusEffect, CycleEffect DEF Returns

(* A request moves on; nothing else changes.                                *)
Moves(r, from, to) ==
  /\ request[r].status = from
  /\ request' \in [Requests -> Rows] /\ request'[r].status = to
  /\ \A q \in Requests : /\ request'[q].cycle = request[q].cycle
                         /\ request'[q].base = request[q].base
                         /\ request'[q].net = request[q].net
                         /\ q # r => request'[q] = request[q]

(* A recorded submission moves one request and nothing else.                *)
LEMMA SubmissionEffect ==
  ASSUME TypeOK, NEW r \in Requests, RecordSubmission(r)
  PROVE  /\ Moves(r, "approved", "processing")
         /\ UNCHANGED <<cycle, books, scene, creating, rejecting>>
  BY StatusEffect DEF TypeOK, Rows, Moves, RecordSubmission, Statuses, ActiveStatuses,
     books, scene, cycles, account, trading, calendar, calls, history

(* A settlement debits the base once and closes the cycle.                  *)
LEMMA SettlementEffect ==
  ASSUME TypeOK, NEW r \in Requests, SettlePaid(r)
  PROVE  /\ Moves(r, "processing", "paid") /\ CloseCycleAndAdvance(request[r].cycle)
         /\ debited' = debited \cup {r} /\ balance' = balance - request[r].base
         /\ request[r].base \in Nat
         /\ UNCHANGED <<credited, counted, exposure, day, finalized, creating, rejecting>>
  <1>1. request \in [Requests -> Rows] BY DEF TypeOK, Rows
  <1>2. SetStatus(r, "paid") /\ "paid" \in Statuses BY DEF SettlePaid, Statuses
  <1>3. Moves(r, "processing", "paid") BY <1>1, <1>2, StatusEffect DEF Moves, SettlePaid
  <1>4. request[r].base \in Nat /\ balance \in Int BY <1>1 DEF TypeOK, Rows
  <1>5. balance' = balance + (-request[r].base) BY DEF SettlePaid, Post
  <1>6. balance' = balance - request[r].base BY <1>4, <1>5
  <1> QED BY <1>3, <1>4, <1>6 DEF SettlePaid, trading, history

(* A reversal credits the base once and leaves the cycles alone.            *)
LEMMA ReversalEffect ==
  ASSUME TypeOK, NEW r \in Requests, ReversePayout(r)
  PROVE  /\ Moves(r, "paid", "reversed")
         /\ credited' = credited \cup {r} /\ balance' = balance + request[r].base
         /\ request[r].base \in Nat
         /\ UNCHANGED <<cycle, opened, debited, counted, exposure, day, finalized,
                        creating, rejecting>>
  <1>1. request \in [Requests -> Rows] BY DEF TypeOK, Rows
  <1>2. SetStatus(r, "reversed") /\ "reversed" \in Statuses BY DEF ReversePayout, Statuses
  <1>3. Moves(r, "paid", "reversed") BY <1>1, <1>2, StatusEffect DEF Moves, ReversePayout
  <1>4. request[r].base \in Nat BY <1>1 DEF Rows
  <1> QED BY <1>3, <1>4 DEF ReversePayout, Post, cycles, trading, calls, history

(* What is left changes neither requests nor cycles nor the ledger.         *)
Rest == <<request, cycle, opened, debited, credited, counted>>

(* The steps that are none of these leave the rest as it is.                *)
LEMMA QuietSteps ==
  ASSUME Step,
         \A r \in Requests :
           /\ ~InsertRequest(r) /\ ~FreezeCycle(r) /\ ~Approve(r) /\ ~RefuseApproval(r)
           /\ ~Reject(r) /\ ~RecordSubmission(r) /\ ~SettlePaid(r) /\ ~RecordFailure(r)
           /\ ~ReversePayout(r)
  PROVE  UNCHANGED Rest
  <1> USE DEF cycles, account, trading, calendar, calls, history, Rest
  <1>1. ASSUME NEW r \in Requests
        PROVE  /\ \A net \in Asks : CheckRequest(r, net) => UNCHANGED Rest
               /\ CreationEnds(r) => UNCHANGED Rest
               /\ ReadForRejection(r) => UNCHANGED Rest
               /\ RejectionEnds(r) => UNCHANGED Rest
               /\ SubmitToProvider(r) => UNCHANGED Rest
               /\ SubmissionEnds(r) => UNCHANGED Rest
               /\ \A o \in Outcomes : /\ AskProvider(r, o) => UNCHANGED Rest
                                      /\ SettlementEnds(r, o) => UNCHANGED Rest
    BY DEF CheckRequest, CreationEnds, ReadForRejection, RejectionEnds, SubmitToProvider,
           SubmissionEnds, AskProvider, SettlementEnds
  <1>2. PlaceHold \/ ClearHold \/ LedgerFault => UNCHANGED Rest
    BY DEF PlaceHold, ClearHold, LedgerFault
  <1>3. PlaceOrder \/ DropOrder \/ OpenPosition \/ Midnight \/ FinalizeDays => UNCHANGED Rest
    BY DEF PlaceOrder, DropOrder, OpenPosition, Midnight, FinalizeDays
  <1>4. /\ \A x \in Results : ClosePosition(x) => UNCHANGED Rest
        /\ \A x \in Standings : ChangeStanding(x) => UNCHANGED Rest
    BY DEF ClosePosition, ChangeStanding
  <1> HIDE DEF Rest
  <1> QED BY <1>1, <1>2, <1>3, <1>4, Zenon DEF Step

-----------------------------------------------------------------------------
(* Every part of the invariant is preserved.                                *)

(* Debits and credits follow the statuses after every step.                 *)
LEMMA LedgerStep ==
  ASSUME IInv, Step PROVE LedgerFollowsRequests'
  <1> USE DEF LedgerFollowsRequests
  <1>0. TypeOK /\ Placed /\ LedgerFollowsRequests BY DEF IInv
  <1>1. ASSUME NEW r \in Requests, InsertRequest(r) PROVE LedgerFollowsRequests'
    BY <1>0, <1>1, InsertEffect DEF InsertRequest, account
  <1>2. ASSUME NEW r \in Requests, FreezeCycle(r) PROVE LedgerFollowsRequests'
    BY <1>0, <1>2 DEF FreezeCycle, account
  <1>3. ASSUME NEW r \in Requests, Approve(r) PROVE LedgerFollowsRequests'
    <2>1. request[r].cycle \in Cycles BY <1>0, <1>3 DEF Placed, Approve
    <2> QED BY <1>0, <1>3, <2>1, ApprovalEffect DEF Approve, account
  <1>4. ASSUME NEW r \in Requests, RefuseApproval(r) \/ Reject(r) \/ RecordFailure(r)
        PROVE  LedgerFollowsRequests'
    <2>1. PICK s \in {"rejected", "failed"} : Returns(r, s) BY <1>0, <1>4, ReturnsEffect
    <2>2. r \notin debited BY <2>1, <1>0 DEF IInv, Payers, Returns, Placed
    <2> QED BY <1>0, <2>1, <2>2 DEF Returns, books
  <1>5. ASSUME NEW r \in Requests, RecordSubmission(r) PROVE LedgerFollowsRequests'
    BY <1>0, <1>5, SubmissionEffect DEF Moves, books
  <1>6. ASSUME NEW r \in Requests, SettlePaid(r) PROVE LedgerFollowsRequests'
    BY <1>0, <1>6, SettlementEffect DEF Moves
  <1>7. ASSUME NEW r \in Requests, ReversePayout(r) PROVE LedgerFollowsRequests'
    BY <1>0, <1>7, ReversalEffect DEF Moves
  <1>8. UNCHANGED Rest => LedgerFollowsRequests' BY <1>0 DEF Rest
  <1> QED BY <1>1, <1>2, <1>3, <1>4, <1>5, <1>6, <1>7, <1>8, QuietSteps

(* Every step leaves requests and drafts in cycles that exist.              *)
LEMMA PlacedStep ==
  ASSUME IInv, Step PROVE Placed'
  <1> USE DEF cycles, account, trading, calendar, calls, history
  <1>0. TypeOK /\ Placed /\ Payers /\ InTurn BY DEF IInv
  <1>1. ASSUME NEW r \in Requests, InsertRequest(r) PROVE Placed'
    <2>1. creating[r].step # "idle" /\ UNCHANGED <<cycle, rejecting>> BY <1>1 DEF InsertRequest
    <2> QED BY <1>0, <1>1, <2>1, InsertEffect DEF Placed
  <1>2. ASSUME NEW r \in Requests, FreezeCycle(r) PROVE Placed'
    <2>1. creating[r].cycle \in Cycles BY <1>0, <1>2 DEF Placed, FreezeCycle
    <2>2. SetCycle(creating[r].cycle, "payout_pending") /\ creating' = [creating EXCEPT ![r] = Idle]
          /\ UNCHANGED <<request, rejecting>>
      BY <1>2 DEF FreezeCycle
    <2>3. \A k \in Cycles : cycle[k] # "none" => cycle'[k] # "none" BY <1>0, <2>1, <2>2, CycleEffect
    <2> QED BY <1>0, <2>2, <2>3, IdleEffect DEF Placed
  <1>3. ASSUME NEW r \in Requests, Approve(r) PROVE Placed'
    <2>1. request[r].cycle \in Cycles /\ UNCHANGED <<cycle, creating, rejecting>>
      BY <1>0, <1>3 DEF Placed, Approve
    <2>2. request[r].status # "none" BY <1>3 DEF Approve
    <2> QED BY <1>0, <1>3, <2>1, <2>2, ApprovalEffect DEF Placed
  <1>4. ASSUME NEW r \in Requests, RefuseApproval(r) \/ Reject(r) \/ RecordFailure(r)
        PROVE  Placed'
    <2>1. PICK s \in {"rejected", "failed"} : Returns(r, s) BY <1>0, <1>4, ReturnsEffect
    <2>2. \A k \in Cycles : cycle[k] # "none" => cycle'[k] # "none" BY <2>1 DEF Returns
    <2> QED BY <1>0, <2>1, <2>2 DEF Placed, Returns
  <1>5. ASSUME NEW r \in Requests, RecordSubmission(r) PROVE Placed'
    BY <1>0, <1>5, SubmissionEffect DEF Moves, Placed
  <1>6. ASSUME NEW r \in Requests, SettlePaid(r) PROVE Placed'
    <2>1. Moves(r, "processing", "paid") /\ UNCHANGED <<creating, rejecting>>
      BY <1>0, <1>6, SettlementEffect
    <2>2. request[r].cycle \in Cycles BY <1>0, <2>1 DEF Placed, Moves
    <2>3. \A k \in Cycles : cycle[k] # "none" => cycle'[k] # "none"
      BY <1>0, <1>6, <2>2, SettlementEffect, CloseEffect
    <2> QED BY <1>0, <2>1, <2>3 DEF Placed, Moves
  <1>7. ASSUME NEW r \in Requests, ReversePayout(r) PROVE Placed'
    BY <1>0, <1>7, ReversalEffect DEF Moves, Placed
  <1>8. ASSUME NEW r \in Requests, NEW net \in Asks, CheckRequest(r, net) PROVE Placed'
    <2>1. UNCHANGED <<request, cycle, rejecting>> BY <1>8 DEF CheckRequest
    <2>2. creating'[r].cycle \in Cycles /\ cycle[creating'[r].cycle] # "none"
      BY <1>0, <1>8, CheckEffect DEF OpenCycles
    <2> QED BY <1>0, <1>8, <2>1, <2>2, CheckEffect DEF Placed
  <1>9. ASSUME NEW r \in Requests, CreationEnds(r) PROVE Placed'
    <2>1. UNCHANGED <<request, cycle, rejecting>> BY <1>9 DEF CreationEnds
    <2>2. creating' = [creating EXCEPT ![r] = Idle] BY <1>9 DEF CreationEnds
    <2> QED BY <1>0, <2>1, <2>2, IdleEffect DEF Placed
  <1>10. ASSUME NEW r \in Requests, ReadForRejection(r) \/ RejectionEnds(r) PROVE Placed'
    BY <1>0, <1>10 DEF Placed, ReadForRejection, RejectionEnds
  <1>11. ASSUME NEW r \in Requests,
                SubmitToProvider(r) \/ SubmissionEnds(r)
                  \/ \E o \in Outcomes : AskProvider(r, o) \/ SettlementEnds(r, o)
         PROVE  Placed'
    BY <1>0, <1>11 DEF Placed, SubmitToProvider, SubmissionEnds, AskProvider, SettlementEnds
  <1>12. ASSUME \/ PlaceHold \/ ClearHold \/ LedgerFault
                \/ PlaceOrder \/ DropOrder \/ OpenPosition \/ Midnight \/ FinalizeDays
                \/ \E x \in Results : ClosePosition(x)
                \/ \E x \in Standings : ChangeStanding(x)
         PROVE  Placed'
    <2>1. UNCHANGED <<request, cycle, creating, rejecting>>
      BY <1>12 DEF PlaceHold, ClearHold, LedgerFault, PlaceOrder, DropOrder, OpenPosition,
         Midnight, FinalizeDays, ClosePosition, ChangeStanding
    <2> QED BY <1>0, <2>1 DEF Placed
  <1> QED BY <1>1, <1>2, <1>3, <1>4, <1>5, <1>6, <1>7, <1>8, <1>9, <1>10, <1>11, <1>12,
             Zenon DEF Step

(* A cycle is closed by the one request that it paid.                       *)
LEMMA PayersStep ==
  ASSUME IInv, Step PROVE Payers'
  <1>0. TypeOK /\ Placed /\ Payers /\ LedgerFollowsRequests /\ InTurn BY DEF IInv
  <1>1. ASSUME NEW r \in Requests, InsertRequest(r) PROVE Payers'
    <2>1. r \notin debited /\ UNCHANGED <<cycle, debited>>
      BY <1>0, <1>1 DEF LedgerFollowsRequests, InsertRequest, cycles, account
    <2>2. debited \subseteq Requests BY <1>0 DEF TypeOK
    <2> QED BY <1>0, <1>1, <2>1, <2>2, InsertEffect DEF Payers
  <1>2. ASSUME NEW r \in Requests, FreezeCycle(r) PROVE Payers'
    <2>1. creating[r].cycle \in Cycles BY <1>0, <1>2 DEF Placed, FreezeCycle
    <2>2. SetCycle(creating[r].cycle, "payout_pending") /\ UNCHANGED <<request, debited>>
      BY <1>2 DEF FreezeCycle, account
    <2> QED BY <1>0, <2>1, <2>2, CycleEffect DEF Payers
  <1>3. ASSUME NEW r \in Requests, Approve(r) PROVE Payers'
    <2>1. request[r].cycle \in Cycles /\ UNCHANGED <<cycle, debited>>
      BY <1>0, <1>3 DEF Placed, Approve, cycles, account
    <2>2. debited \subseteq Requests BY <1>0 DEF TypeOK
    <2> QED BY <1>0, <1>3, <2>1, <2>2, ApprovalEffect DEF Payers
  <1>4. ASSUME NEW r \in Requests, RefuseApproval(r) \/ Reject(r) \/ RecordFailure(r)
        PROVE  Payers'
    <2>1. PICK s \in {"rejected", "failed"} : Returns(r, s) BY <1>0, <1>4, ReturnsEffect
    <2>2. debited \subseteq Requests BY <1>0 DEF TypeOK
    <2>3. \A k \in Cycles : cycle'[k] = "closed" <=> cycle[k] = "closed"
      BY <1>0, <2>1 DEF Returns, Placed
    <2> QED BY <1>0, <2>1, <2>2, <2>3 DEF Payers, Returns, books
  <1>5. ASSUME NEW r \in Requests, RecordSubmission(r) PROVE Payers'
    <2>2. debited \subseteq Requests BY <1>0 DEF TypeOK
    <2> QED BY <1>0, <1>5, <2>2, SubmissionEffect DEF Moves, Payers, books
  <1>6. ASSUME NEW r \in Requests, SettlePaid(r) PROVE Payers'
    <2> DEFINE c == request[r].cycle
    <2>1. /\ Moves(r, "processing", "paid") /\ CloseCycleAndAdvance(c)
          /\ debited' = debited \cup {r} /\ debited \subseteq Requests
      BY <1>0, <1>6, SettlementEffect DEF TypeOK
    <2>2. c \in Cycles BY <1>0, <2>1 DEF Placed, Moves
    <2>3. \A q \in Requests : request'[q].cycle = request[q].cycle BY <2>1 DEF Moves
    <2>4. request[r].cycle = c OBVIOUS
    <2> HIDE DEF c
    <2>5. cycle[c] # "closed" /\ cycle'[c] = "closed" BY <1>0, <2>1, <2>2, CloseEffect
    <2>6. \A k \in Cycles : k # c => (cycle'[k] = "closed" <=> cycle[k] = "closed")
      BY <1>0, <2>1, <2>2, CloseEffect
    <2>7. \A q \in debited : request[q].cycle # c BY <1>0, <2>2, <2>5 DEF Payers
    <2> QED BY <1>0, <2>1, <2>2, <2>3, <2>4, <2>5, <2>6, <2>7 DEF Payers
  <1>7. ASSUME NEW r \in Requests, ReversePayout(r) PROVE Payers'
    <2>2. debited \subseteq Requests BY <1>0 DEF TypeOK
    <2> QED BY <1>0, <1>7, <2>2, ReversalEffect DEF Moves, Payers
  <1>8. UNCHANGED Rest => Payers' BY <1>0 DEF Rest, Payers
  <1> QED BY <1>1, <1>2, <1>3, <1>4, <1>5, <1>6, <1>7, <1>8, QuietSteps

(* Only midnight moves the day, and only SettlePaid opens a cycle.          *)
LEMMA SameDay ==
  ASSUME Step, ~Midnight PROVE day' = day
  <1> USE DEF cycles, account, trading, calendar, calls, history
  <1>1. ASSUME NEW r \in Requests
        PROVE  /\ \A net \in Asks : (CheckRequest(r, net) => day' = day)
               /\ (InsertRequest(r) => day' = day) /\ (FreezeCycle(r) => day' = day)
               /\ (CreationEnds(r) => day' = day) /\ (Approve(r) => day' = day)
               /\ (RefuseApproval(r) => day' = day) /\ (ReadForRejection(r) => day' = day)
               /\ (Reject(r) => day' = day) /\ (RejectionEnds(r) => day' = day)
    BY DEF CheckRequest, InsertRequest, FreezeCycle, CreationEnds, Approve, RefuseApproval,
           ReadForRejection, Reject, RejectionEnds
  <1>2. ASSUME NEW r \in Requests
        PROVE  /\ (SubmitToProvider(r) => day' = day) /\ (RecordSubmission(r) => day' = day)
               /\ (SubmissionEnds(r) => day' = day)
               /\ \A o \in Outcomes : /\ (AskProvider(r, o) => day' = day)
                                      /\ (SettlementEnds(r, o) => day' = day)
               /\ (SettlePaid(r) => day' = day) /\ (RecordFailure(r) => day' = day)
               /\ (ReversePayout(r) => day' = day)
    BY DEF SubmitToProvider, RecordSubmission, SubmissionEnds, AskProvider, SettlementEnds,
           SettlePaid, RecordFailure, ReversePayout
  <1>3. /\ (PlaceHold => day' = day) /\ (ClearHold => day' = day) /\ (LedgerFault => day' = day)
        /\ (PlaceOrder => day' = day) /\ (DropOrder => day' = day)
        /\ (OpenPosition => day' = day) /\ (FinalizeDays => day' = day)
    BY DEF PlaceHold, ClearHold, LedgerFault, PlaceOrder, DropOrder, OpenPosition, FinalizeDays
  <1>4. /\ \A x \in Results : (ClosePosition(x) => day' = day)
        /\ \A x \in Standings : (ChangeStanding(x) => day' = day)
    BY DEF ClosePosition, ChangeStanding
  <1> QED BY <1>1, <1>2, <1>3, <1>4, Zenon DEF Step

(* A step that opens a cycle opens it after those before it.                *)
LEMMA InTurnStep ==
  ASSUME IInv, Step PROVE InTurn'
  <1>0. TypeOK /\ Placed /\ InTurn BY DEF IInv
  <1>nat. /\ \A k \in Cycles : opened[k] \in Nat
        /\ day \in Nat
    BY <1>0 DEF TypeOK, Days
  <1>1. ASSUME NEW r \in Requests,
               InsertRequest(r) \/ Approve(r) \/ RecordSubmission(r) \/ ReversePayout(r)
        PROVE  InTurn'
    <2>1. UNCHANGED <<cycle, opened, day>>
      BY <1>1 DEF InsertRequest, Approve, RecordSubmission, ReversePayout, cycles, calendar
    <2> QED BY <1>0, <2>1 DEF InTurn
  <1>2. ASSUME NEW r \in Requests, FreezeCycle(r) PROVE InTurn'
    <2>1. creating[r].cycle \in Cycles /\ cycle[creating[r].cycle] # "none"
      BY <1>0, <1>2 DEF Placed, FreezeCycle
    <2>2. SetCycle(creating[r].cycle, "payout_pending") /\ UNCHANGED <<opened, day>>
      BY <1>2 DEF FreezeCycle, calendar
    <2>3. \A k \in Cycles : /\ cycle'[k] # "none" => cycle[k] # "none"
                            /\ cycle[k] = "closed" => cycle'[k] = "closed"
      BY <1>0, <2>1, <2>2, CycleEffect
    <2> QED BY <1>0, <2>2, <2>3 DEF InTurn
  <1>3. ASSUME NEW r \in Requests, RefuseApproval(r) \/ Reject(r) \/ RecordFailure(r)
        PROVE  InTurn'
    <2>1. PICK s \in {"rejected", "failed"} : Returns(r, s) BY <1>0, <1>3, ReturnsEffect
    <2>2. \A k \in Cycles : /\ cycle'[k] # "none" => cycle[k] # "none"
                            /\ cycle[k] = "closed" => cycle'[k] = "closed"
      BY <1>0, <2>1 DEF Returns, Placed
    <2>3. UNCHANGED <<opened, day>> BY <2>1 DEF Returns, books, scene
    <2> QED BY <1>0, <2>2, <2>3 DEF InTurn
  <1>4. ASSUME NEW r \in Requests, SettlePaid(r) PROVE InTurn'
    <2> DEFINE c == request[r].cycle
    <2>1. Moves(r, "processing", "paid") /\ CloseCycleAndAdvance(c) /\ day' = day
      BY <1>0, <1>4, SettlementEffect
    <2>2. c \in Cycles /\ cycle[c] # "none" BY <1>0, <2>1 DEF Placed, Moves
    <2> HIDE DEF c
    <2>3. /\ cycle[c] # "closed" /\ cycle'[c] = "closed" /\ opened'[c] = opened[c]
          /\ \A k \in Cycles \ {c, c + 1} : cycle'[k] = cycle[k] /\ opened'[k] = opened[k]
          /\ \A k \in Cycles : k = c + 1 =>
               IF cycle[k] = "none" THEN cycle'[k] = "active" /\ opened'[k] = day
                                    ELSE cycle'[k] = cycle[k] /\ opened'[k] = opened[k]
      BY <1>0, <2>1, <2>2, CloseEffect
    <2>4. \A k \in Cycles : k > c => cycle[k] = "none" BY <1>0, <2>2, <2>3 DEF InTurn, Cycles
    <2>5. \A k \in Cycles : k < c => cycle[k] = "closed" BY <1>0, <2>2 DEF InTurn, Cycles
    <2>6. \A k \in Cycles : k > c + 1 => cycle'[k] = "none" BY <2>2, <2>3, <2>4 DEF Cycles
    <2>7. \A k \in Cycles : opened'[k] <= day BY <1>0, <1>nat, <2>3, <2>4 DEF InTurn
    <2>8. \A k \in Cycles : k <= c => cycle'[k] = "closed" /\ opened'[k] = opened[k]
      BY <2>2, <2>3, <2>5 DEF Cycles
    <2>9. \A k \in Cycles : k = c + 1 => opened'[k] = day BY <2>2, <2>3, <2>4 DEF Cycles
    <2>10. ASSUME NEW a \in Cycles, NEW b \in Cycles, a < b, cycle'[b] # "none"
           PROVE  cycle'[a] = "closed" /\ opened'[a] <= opened'[b]
      <3>1. b <= c + 1 /\ a <= c BY <2>2, <2>6, <2>10 DEF Cycles
      <3>2. CASE b = c + 1 BY <1>0, <3>1, <3>2, <2>8, <2>9 DEF InTurn
      <3>3. CASE b <= c
        <4>1. cycle[b] # "none" BY <2>2, <2>5, <2>10, <3>3 DEF Cycles
        <4> QED BY <1>0, <2>8, <2>10, <3>1, <3>3, <4>1 DEF InTurn
      <3> QED BY <2>2, <3>1, <3>2, <3>3 DEF Cycles
    <2> QED BY <2>1, <2>7, <2>10 DEF InTurn
  <1>5. ASSUME Midnight PROVE InTurn'
    BY <1>0, <1>nat, <1>5 DEF InTurn, Midnight, cycles
  <1>6. ASSUME UNCHANGED Rest, ~Midnight PROVE InTurn'
    <2>1. day' = day BY <1>6, SameDay
    <2> QED BY <1>0, <1>6, <2>1 DEF InTurn, Rest
  <1> QED BY <1>1, <1>2, <1>3, <1>4, <1>5, <1>6, QuietSteps

(* No request is sent to the provider before its approval.                  *)
LEMMA SentStep ==
  ASSUME IInv, Step PROVE OnlyApprovedIsSent'
  <1> USE DEF OnlyApprovedIsSent, cycles, account, trading, calendar, calls, history
  <1>0. TypeOK /\ Placed /\ OnlyApprovedIsSent BY DEF IInv
  <1>1. ASSUME NEW r \in Requests, InsertRequest(r) PROVE OnlyApprovedIsSent'
    <2>1. UNCHANGED <<sent, overtaken>> /\ request[r].status = "none" BY <1>1 DEF InsertRequest
    <2> QED BY <1>0, <1>1, <2>1, InsertEffect
  <1>2. ASSUME NEW r \in Requests, Approve(r) PROVE OnlyApprovedIsSent'
    <2>1. request[r].cycle \in Cycles BY <1>0, <1>2 DEF Placed, Approve
    <2>2. UNCHANGED <<sent, overtaken>> BY <1>2 DEF Approve
    <2> QED BY <1>0, <1>2, <2>1, <2>2, ApprovalEffect
  <1>3. ASSUME NEW r \in Requests, RefuseApproval(r) PROVE OnlyApprovedIsSent'
    <2>1. PICK s \in {"rejected", "failed"} : Returns(r, s) BY <1>0, <1>3, ReturnsEffect
    <2>2. UNCHANGED <<sent, overtaken>> /\ request[r].status = "pending_review"
      BY <1>3 DEF RefuseApproval
    <2> QED BY <1>0, <2>1, <2>2 DEF Returns
  <1>4. ASSUME NEW r \in Requests, Reject(r) PROVE OnlyApprovedIsSent'
    <2>1. PICK s \in {"rejected", "failed"} : Returns(r, s) BY <1>0, <1>4, ReturnsEffect
    <2>2. sent' = sent
          /\ overtaken' = IF request[r].status \in {"pending_review", "rejected"}
                            THEN overtaken ELSE overtaken \cup {r}
      BY <1>4 DEF Reject
    <2> QED BY <1>0, <2>1, <2>2 DEF Returns
  <1>5. ASSUME NEW r \in Requests, RecordFailure(r) PROVE OnlyApprovedIsSent'
    <2>1. request \in [Requests -> Rows] BY <1>0 DEF TypeOK, Rows
    <2>2. SetStatus(r, "failed") /\ UNCHANGED <<sent, overtaken>> BY <1>5 DEF RecordFailure
    <2>3. "failed" \in Statuses BY DEF Statuses
    <2> QED BY <1>0, <2>1, <2>2, <2>3, StatusEffect
  <1>6. ASSUME NEW r \in Requests, RecordSubmission(r) PROVE OnlyApprovedIsSent'
    <2>1. UNCHANGED <<sent, overtaken>> BY <1>6 DEF RecordSubmission
    <2> QED BY <1>0, <1>6, <2>1, SubmissionEffect DEF Moves
  <1>7. ASSUME NEW r \in Requests, SettlePaid(r) PROVE OnlyApprovedIsSent'
    <2>1. UNCHANGED <<sent, overtaken>> BY <1>7 DEF SettlePaid
    <2> QED BY <1>0, <1>7, <2>1, SettlementEffect DEF Moves
  <1>8. ASSUME NEW r \in Requests, ReversePayout(r) PROVE OnlyApprovedIsSent'
    <2>1. UNCHANGED <<sent, overtaken>> BY <1>8 DEF ReversePayout
    <2> QED BY <1>0, <1>8, <2>1, ReversalEffect DEF Moves
  <1>9. ASSUME NEW r \in Requests, SubmitToProvider(r) PROVE OnlyApprovedIsSent'
    BY <1>0, <1>9 DEF SubmitToProvider
  <1>10. ASSUME NEW r \in Requests,
                \/ \E net \in Asks : CheckRequest(r, net)
                \/ FreezeCycle(r) \/ CreationEnds(r) \/ ReadForRejection(r) \/ RejectionEnds(r)
                \/ SubmissionEnds(r)
                \/ \E o \in Outcomes : AskProvider(r, o) \/ SettlementEnds(r, o)
         PROVE  OnlyApprovedIsSent'
    <2>1. UNCHANGED <<request, sent, overtaken>>
      BY <1>10 DEF CheckRequest, FreezeCycle, CreationEnds, ReadForRejection, RejectionEnds,
                   SubmissionEnds, AskProvider, SettlementEnds
    <2> QED BY <1>0, <2>1
  <1>11. ASSUME \/ PlaceHold \/ ClearHold \/ LedgerFault
                \/ PlaceOrder \/ DropOrder \/ OpenPosition \/ Midnight \/ FinalizeDays
                \/ \E x \in Results : ClosePosition(x)
                \/ \E x \in Standings : ChangeStanding(x)
         PROVE  OnlyApprovedIsSent'
    <2>1. UNCHANGED <<request, sent, overtaken>>
      BY <1>11 DEF PlaceHold, ClearHold, LedgerFault, PlaceOrder, DropOrder, OpenPosition,
         Midnight, FinalizeDays, ClosePosition, ChangeStanding
    <2> QED BY <1>0, <2>1
  <1> HIDE DEF OnlyApprovedIsSent
  <1> QED BY <1>1, <1>2, <1>3, <1>4, <1>5, <1>6, <1>7, <1>8, <1>9, <1>10, <1>11, Zenon DEF Step

(* Two cycles that are open are the same one.                               *)
LEMMA OneOpenCycle ==
  ASSUME TypeOK, InTurn, NEW c \in OpenCycles PROVE Current = c
  <1>1. Current \in OpenCycles BY DEF Current
  <1>2. \A a, b \in OpenCycles : ~(a < b) BY DEF InTurn, OpenCycles
  <1>3. \A a \in OpenCycles : a \in Nat BY DEF OpenCycles, Cycles
  <1> QED BY <1>1, <1>2, <1>3

(* An approval counts days of the current cycle that are over.              *)
LEMMA CountedEffect ==
  ASSUME TypeOK, InTurn, DaysOfCycle, NEW r \in Requests, Approve(r),
         request[r].cycle \in Cycles, cycle[request[r].cycle] # "none"
  PROVE  /\ \A q \in Requests : q # r => counted'[q] = counted[q]
         /\ cycle[request[r].cycle] # "closed" =>
              \A d \in counted'[r] : opened[request[r].cycle] <= d /\ d < day
  <1>1. counted' = [counted EXCEPT ![r] = PerformanceDays] BY DEF Approve
  <1>2. counted \in [Requests -> SUBSET Days] /\ day \in Days BY DEF TypeOK
  <1>3. ASSUME cycle[request[r].cycle] # "closed", NEW d \in PerformanceDays
        PROVE  opened[request[r].cycle] <= d /\ d < day
    <2>1. request[r].cycle \in OpenCycles BY <1>3 DEF OpenCycles, TypeOK
    <2>2. Current = request[r].cycle BY <2>1, OneOpenCycle
    <2>3. d \in finalized /\ d >= opened[Current] BY <1>3 DEF PerformanceDays, CycleDays
    <2>4. d \in 1..(day - 1) BY <2>3 DEF DaysOfCycle
    <2>5. opened[Current] \in Nat BY <2>1, <2>2 DEF TypeOK, OpenCycles
    <2> QED BY <1>2, <2>2, <2>3, <2>4, <2>5 DEF Days
  <1> QED BY <1>1, <1>2, <1>3

(* An approval keeps resting on days of its own cycle.                      *)
LEMMA DaysStep ==
  ASSUME IInv, Step PROVE DaysOfCycle'
  <1>0. TypeOK /\ Placed /\ InTurn /\ Payers /\ DaysOfCycle /\ LedgerFollowsRequests BY DEF IInv
  <1>nat. /\ \A k \in Cycles : opened[k] \in Nat
        /\ day \in Nat /\ debited \subseteq Requests
        /\ \A q \in Requests : counted[q] \subseteq Days
    BY <1>0 DEF TypeOK, Days
  <1>1. ASSUME NEW r \in Requests, InsertRequest(r) PROVE DaysOfCycle'
    <2>1. UNCHANGED <<cycle, opened, debited, counted, day, finalized>>
      BY <1>1 DEF InsertRequest, cycles, account, calendar, history
    <2>2. r \notin debited BY <1>0, <1>1 DEF LedgerFollowsRequests, InsertRequest
    <2> QED BY <1>0, <1>1, <1>nat, <2>1, <2>2, InsertEffect DEF DaysOfCycle
  <1>2. ASSUME NEW r \in Requests, FreezeCycle(r) PROVE DaysOfCycle'
    <2>1. creating[r].cycle \in Cycles /\ cycle[creating[r].cycle] # "none"
      BY <1>0, <1>2 DEF Placed, FreezeCycle
    <2>2. /\ SetCycle(creating[r].cycle, "payout_pending")
          /\ UNCHANGED <<request, opened, debited, counted, day, finalized>>
      BY <1>2 DEF FreezeCycle, account, calendar, history
    <2>3. \A k \in Cycles : /\ cycle'[k] # "none" <=> cycle[k] # "none"
                            /\ cycle[k] = "closed" <=> cycle'[k] = "closed"
      BY <1>0, <2>1, <2>2, CycleEffect
    <2>4. \A q \in Requests : request[q].status # "none" => request[q].cycle \in Cycles
      BY <1>0 DEF Placed
    <2> QED BY <1>0, <1>nat, <2>2, <2>3, <2>4 DEF DaysOfCycle
  <1>3. ASSUME NEW r \in Requests, Approve(r) PROVE DaysOfCycle'
    <2>1. /\ request[r].cycle \in Cycles /\ cycle[request[r].cycle] # "none"
          /\ UNCHANGED <<cycle, opened, debited, day, finalized>>
      BY <1>0, <1>3 DEF Placed, Approve, cycles, account, calendar
    <2>2. r \notin debited BY <1>0, <1>3 DEF LedgerFollowsRequests, Approve
    <2>3. \A q \in Requests : /\ request'[q].cycle = request[q].cycle
                              /\ q # r => request'[q] = request[q]
      BY <1>0, <1>3, <2>1, ApprovalEffect
    <2>4. /\ \A q \in Requests : q # r => counted'[q] = counted[q]
          /\ cycle[request[r].cycle] # "closed" =>
               \A d \in counted'[r] : opened[request[r].cycle] <= d /\ d < day
      BY <1>0, <1>3, <2>1, CountedEffect
    <2> QED BY <1>0, <1>nat, <2>1, <2>2, <2>3, <2>4 DEF DaysOfCycle
  <1>4. ASSUME NEW r \in Requests, RefuseApproval(r) \/ Reject(r) \/ RecordFailure(r)
        PROVE  DaysOfCycle'
    <2>1. PICK s \in {"rejected", "failed"} : Returns(r, s) BY <1>0, <1>4, ReturnsEffect
    <2>2. \A k \in Cycles : /\ cycle'[k] # "none" <=> cycle[k] # "none"
                            /\ cycle[k] = "closed" <=> cycle'[k] = "closed"
      BY <1>0, <2>1 DEF Returns, Placed
    <2>3. UNCHANGED <<opened, debited, counted, day, finalized>> BY <2>1 DEF Returns, books, scene
    <2>4. \A q \in Requests : request[q].status # "none" => request[q].cycle \in Cycles
      BY <1>0 DEF Placed
    <2>5. \A q \in Requests :
            /\ request'[q].cycle = request[q].cycle
            /\ request'[q].status \in {"approved", "processing"} =>
                 request[q].status = request'[q].status
      BY <2>1 DEF Returns
    <2>6. \A q \in debited : request[q].status # "none" BY <1>0 DEF LedgerFollowsRequests
    <2> QED BY <1>0, <1>nat, <2>2, <2>3, <2>4, <2>5, <2>6 DEF DaysOfCycle
  <1>5. ASSUME NEW r \in Requests, RecordSubmission(r) PROVE DaysOfCycle'
    <2>1. Moves(r, "approved", "processing") /\ UNCHANGED <<cycle, books, scene>>
      BY <1>0, <1>5, SubmissionEffect
    <2>2. UNCHANGED <<cycle, opened, debited, counted, day, finalized>> BY <2>1 DEF books, scene
    <2>3. \A q \in Requests :
            /\ request'[q].cycle = request[q].cycle
            /\ request'[q].status \in {"approved", "processing"} =>
                 request[q].status \in {"approved", "processing"}
      BY <2>1 DEF Moves
    <2> QED BY <1>0, <1>nat, <2>2, <2>3 DEF DaysOfCycle
  <1>6. ASSUME NEW r \in Requests, SettlePaid(r) PROVE DaysOfCycle'
    <2> DEFINE c == request[r].cycle
    <2>1. /\ Moves(r, "processing", "paid") /\ CloseCycleAndAdvance(c)
          /\ debited' = debited \cup {r} /\ UNCHANGED <<counted, day, finalized>>
      BY <1>0, <1>6, SettlementEffect
    <2>2. c \in Cycles /\ cycle[c] # "none" BY <1>0, <2>1 DEF Placed, Moves
    <2>3. /\ \A q \in Requests : request'[q].cycle = request[q].cycle
          /\ \A q \in Requests : request'[q].status \in {"approved", "processing"}
               => request[q].status = request'[q].status
          /\ request[r].status = "processing" /\ request[r].cycle = c
      BY <2>1 DEF Moves
    <2>4. \A q \in Requests : request[q].status # "none" =>
            request[q].cycle \in Cycles /\ cycle[request[q].cycle] # "none"
      BY <1>0 DEF Placed
    <2>5. \A q \in debited : request[q].status # "none" BY <1>0 DEF LedgerFollowsRequests
    <2> HIDE DEF c
    <2>6. /\ cycle[c] # "closed" /\ cycle'[c] = "closed" /\ opened'[c] = opened[c]
          /\ \A k \in Cycles \ {c, c + 1} : cycle'[k] = cycle[k] /\ opened'[k] = opened[k]
          /\ \A k \in Cycles : k = c + 1 =>
               IF cycle[k] = "none" THEN cycle'[k] = "active" /\ opened'[k] = day
                                    ELSE cycle'[k] = cycle[k] /\ opened'[k] = opened[k]
      BY <1>0, <2>1, <2>2, CloseEffect
    <2>7. \A k \in Cycles : k > c => cycle[k] = "none" BY <1>0, <2>2, <2>6 DEF InTurn, Cycles
    <2>8. \A k \in Cycles : cycle[k] # "none" => opened'[k] = opened[k] BY <2>2, <2>6
    <2>9. \A k \in Cycles : cycle'[k] # "closed" /\ cycle[k] # "none" => cycle[k] # "closed"
      BY <2>2, <2>6
    <2>10. \A k \in Cycles : cycle'[k] # "none" =>
             \/ cycle[k] # "none" /\ opened'[k] = opened[k]
             \/ k = c + 1 /\ opened'[k] = day
      BY <2>2, <2>6, <2>8
    <2>11. \A q \in debited' : \A d \in counted[q] : opened[request[q].cycle] <= d /\ d < day
      BY <1>0, <1>nat, <2>1, <2>3, <2>6 DEF DaysOfCycle
    <2>12. ASSUME NEW q \in debited', NEW d \in counted[q], NEW k \in Cycles,
                  k > request[q].cycle, cycle'[k] # "none"
           PROVE  d < opened'[k]
      <3>1. d < day BY <2>11
      <3>2. CASE k = c + 1 /\ opened'[k] = day BY <3>1, <3>2
      <3>3. CASE cycle[k] # "none" /\ opened'[k] = opened[k]
        <4>1. CASE q \in debited BY <1>0, <1>nat, <2>12, <3>3, <4>1 DEF DaysOfCycle
        <4>2. CASE q = r BY <2>3, <2>7, <2>12, <3>3, <4>2
        <4> QED BY <2>1, <4>1, <4>2
      <3> QED BY <2>10, <2>12, <3>2, <3>3
    <2>13. \A q \in Requests : \A d \in counted[q] :
             (\/ /\ request'[q].status \in {"approved", "processing"}
                 /\ cycle'[request[q].cycle] # "closed"
              \/ q \in debited')
             => opened'[request[q].cycle] <= d /\ d < day
      <3>1. \A q \in Requests : q \in debited' => opened'[request[q].cycle] = opened[request[q].cycle]
        BY <2>1, <2>3, <2>4, <2>5, <2>8
      <3>2. ASSUME NEW q \in Requests, NEW d \in counted[q],
                   request'[q].status \in {"approved", "processing"},
                   cycle'[request[q].cycle] # "closed"
            PROVE  opened'[request[q].cycle] <= d /\ d < day
        <4>1. request[q].status \in {"approved", "processing"} BY <2>3, <3>2
        <4>2. request[q].cycle \in Cycles /\ cycle[request[q].cycle] # "none" BY <2>4, <4>1
        <4>3. cycle[request[q].cycle] # "closed" BY <2>9, <3>2, <4>2
        <4> QED BY <1>0, <2>8, <3>2, <4>1, <4>2, <4>3 DEF DaysOfCycle
      <3> QED BY <2>11, <3>1, <3>2
    <2> QED BY <1>0, <2>1, <2>3, <2>12, <2>13 DEF DaysOfCycle
  <1>7. ASSUME NEW r \in Requests, ReversePayout(r) PROVE DaysOfCycle'
    <2>1. /\ Moves(r, "paid", "reversed")
          /\ UNCHANGED <<cycle, opened, debited, counted, day, finalized>>
      BY <1>0, <1>7, ReversalEffect
    <2>2. \A q \in Requests :
            /\ request'[q].cycle = request[q].cycle
            /\ request'[q].status \in {"approved", "processing"} =>
                 request[q].status \in {"approved", "processing"}
      BY <2>1 DEF Moves
    <2> QED BY <1>0, <1>nat, <2>1, <2>2 DEF DaysOfCycle
  <1>8. ASSUME Midnight PROVE DaysOfCycle'
    <2>1. /\ UNCHANGED <<request, cycle, opened, debited, counted, finalized>>
          /\ day' = day + 1
      BY <1>8 DEF Midnight, cycles, account, history
    <2> QED BY <1>0, <1>nat, <2>1 DEF DaysOfCycle, Days
  <1>9. ASSUME UNCHANGED Rest, ~Midnight, finalized' \subseteq 1..(day - 1) PROVE DaysOfCycle'
    <2>1. day' = day BY <1>9, SameDay
    <2> QED BY <1>0, <1>9, <2>1 DEF DaysOfCycle, Rest
  <1>10. finalized' = finalized \/ finalized' = 1..(day - 1) \/ Midnight
    <2> USE DEF calendar
    <2>1. ASSUME NEW r \in Requests
          PROVE  /\ \A net \in Asks : (CheckRequest(r, net) => finalized' = finalized)
                 /\ (InsertRequest(r) => finalized' = finalized)
                 /\ (FreezeCycle(r) => finalized' = finalized)
                 /\ (CreationEnds(r) => finalized' = finalized)
                 /\ (Approve(r) => finalized' = finalized)
                 /\ (RefuseApproval(r) => finalized' = finalized)
                 /\ (ReadForRejection(r) => finalized' = finalized)
                 /\ (Reject(r) => finalized' = finalized)
                 /\ (RejectionEnds(r) => finalized' = finalized)
      BY DEF CheckRequest, InsertRequest, FreezeCycle, CreationEnds, Approve, RefuseApproval,
             ReadForRejection, Reject, RejectionEnds
    <2>2. ASSUME NEW r \in Requests
          PROVE  /\ (SubmitToProvider(r) => finalized' = finalized)
                 /\ (RecordSubmission(r) => finalized' = finalized)
                 /\ (SubmissionEnds(r) => finalized' = finalized)
                 /\ \A o \in Outcomes : /\ (AskProvider(r, o) => finalized' = finalized)
                                        /\ (SettlementEnds(r, o) => finalized' = finalized)
                 /\ (SettlePaid(r) => finalized' = finalized)
                 /\ (RecordFailure(r) => finalized' = finalized)
                 /\ (ReversePayout(r) => finalized' = finalized)
      BY DEF SubmitToProvider, RecordSubmission, SubmissionEnds, AskProvider, SettlementEnds,
             SettlePaid, RecordFailure, ReversePayout
    <2>3. PlaceHold \/ ClearHold \/ LedgerFault \/ PlaceOrder \/ DropOrder \/ OpenPosition
            => finalized' = finalized
      BY DEF PlaceHold, ClearHold, LedgerFault, PlaceOrder, DropOrder, OpenPosition
    <2>4. /\ \A x \in Results : (ClosePosition(x) => finalized' = 1..(day - 1))
          /\ \A x \in Standings : (ChangeStanding(x) => finalized' = finalized)
          /\ (FinalizeDays => finalized' = 1..(day - 1))
      BY DEF ClosePosition, ChangeStanding, FinalizeDays
    <2> QED BY <2>1, <2>2, <2>3, <2>4, Zenon DEF Step
  <1>11. ASSUME UNCHANGED Rest PROVE DaysOfCycle'
    <2>1. Midnight \/ finalized' \subseteq 1..(day - 1) BY <1>0, <1>10 DEF DaysOfCycle
    <2> QED BY <1>8, <1>9, <1>11, <2>1
  <1> QED BY <1>1, <1>2, <1>3, <1>4, <1>5, <1>6, <1>7, <1>11, QuietSteps

(* Balance and exposure change by trades and by the ledger's entries alone, *)
(* and a flat account with a frozen cycle makes no trade.                   *)
LEMMA FrozenStaysFlat ==
  ASSUME Step, exposure = "flat", NEW c \in Cycles, cycle[c] = "payout_pending",
         \A q \in Requests : ~SettlePaid(q) /\ ~ReversePayout(q)
  PROVE  UNCHANGED <<balance, exposure>>
  <1> USE DEF cycles, account, trading, calendar, calls, history
  <1>1. ASSUME NEW r \in Requests
        PROVE  /\ \A net \in Asks : (CheckRequest(r, net) => UNCHANGED <<balance, exposure>>)
               /\ (InsertRequest(r) => UNCHANGED <<balance, exposure>>)
               /\ (FreezeCycle(r) => UNCHANGED <<balance, exposure>>)
               /\ (CreationEnds(r) => UNCHANGED <<balance, exposure>>)
               /\ (Approve(r) => UNCHANGED <<balance, exposure>>)
               /\ (RefuseApproval(r) => UNCHANGED <<balance, exposure>>)
               /\ (ReadForRejection(r) => UNCHANGED <<balance, exposure>>)
               /\ (Reject(r) => UNCHANGED <<balance, exposure>>)
               /\ (RejectionEnds(r) => UNCHANGED <<balance, exposure>>)
    BY DEF CheckRequest, InsertRequest, FreezeCycle, CreationEnds, Approve, RefuseApproval,
           ReadForRejection, Reject, RejectionEnds
  <1>2. ASSUME NEW r \in Requests
        PROVE  /\ (SubmitToProvider(r) => UNCHANGED <<balance, exposure>>)
               /\ (RecordSubmission(r) => UNCHANGED <<balance, exposure>>)
               /\ (SubmissionEnds(r) => UNCHANGED <<balance, exposure>>)
               /\ \A o \in Outcomes : /\ (AskProvider(r, o) => UNCHANGED <<balance, exposure>>)
                                      /\ (SettlementEnds(r, o) => UNCHANGED <<balance, exposure>>)
               /\ (RecordFailure(r) => UNCHANGED <<balance, exposure>>)
    BY DEF SubmitToProvider, RecordSubmission, SubmissionEnds, AskProvider, SettlementEnds,
           RecordFailure
  <1>3. PlaceHold \/ ClearHold \/ LedgerFault \/ Midnight \/ FinalizeDays
          => UNCHANGED <<balance, exposure>>
    BY DEF PlaceHold, ClearHold, LedgerFault, Midnight, FinalizeDays
  <1>4. /\ \A x \in Standings : (ChangeStanding(x) => UNCHANGED <<balance, exposure>>)
        /\ \A x \in Results : ~ClosePosition(x)
    BY DEF ChangeStanding, ClosePosition
  <1>5. ~PlaceOrder /\ ~DropOrder /\ ~OpenPosition
    BY DEF PlaceOrder, DropOrder, OpenPosition, MayIncreaseExposure
  <1> QED BY <1>1, <1>2, <1>3, <1>4, <1>5, Zenon DEF Step

(* Only an approval makes a request approved, and bases stay.               *)
LEMMA ApprovedBefore ==
  ASSUME TypeOK, Placed, Step, NEW r \in Requests, ~Approve(r),
         request'[r].status \in {"approved", "processing"}
  PROVE  /\ request[r].status \in {"approved", "processing"}
         /\ request'[r].cycle = request[r].cycle /\ request'[r].base = request[r].base
  <1>1. ASSUME NEW q \in Requests, InsertRequest(q) PROVE r # q /\ request'[r] = request[r]
    BY <1>1, InsertEffect
  <1>2. ASSUME NEW q \in Requests, FreezeCycle(q) PROVE request'[r] = request[r]
    BY <1>2 DEF FreezeCycle
  <1>3. ASSUME NEW q \in Requests, Approve(q) PROVE request'[r] = request[r]
    <2>1. request[q].cycle \in Cycles BY <1>3 DEF Placed, Approve
    <2> QED BY <1>3, <2>1, ApprovalEffect
  <1>4. ASSUME NEW q \in Requests, RefuseApproval(q) \/ Reject(q) \/ RecordFailure(q)
        PROVE  request'[r] = request[r]
    <2>1. PICK s \in {"rejected", "failed"} : Returns(q, s) BY <1>4, ReturnsEffect
    <2> QED BY <2>1 DEF Returns
  <1>5. ASSUME NEW q \in Requests, RecordSubmission(q)
        PROVE  /\ request[r].status \in {"approved", "processing"}
               /\ request'[r].cycle = request[r].cycle /\ request'[r].base = request[r].base
    BY <1>5, SubmissionEffect DEF Moves
  <1>6. ASSUME NEW q \in Requests, SettlePaid(q) PROVE request'[r] = request[r]
    BY <1>6, SettlementEffect DEF Moves
  <1>7. ASSUME NEW q \in Requests, ReversePayout(q) PROVE request'[r] = request[r]
    BY <1>7, ReversalEffect DEF Moves
  <1>8. UNCHANGED Rest => request' = request BY DEF Rest
  <1> QED BY <1>1, <1>2, <1>3, <1>4, <1>5, <1>6, <1>7, <1>8, QuietSteps

(* What the freeze protects stays covered.                                  *)
LEMMA CoveredStep ==
  ASSUME IInv, Step, Watch PROVE Covered'
  <1>0. TypeOK /\ Placed /\ InTurn /\ Covered BY DEF IInv
  <1>1. SUFFICES ASSUME NEW r \in Requests, r \notin lapsed',
                        request'[r].status \in {"approved", "processing"}
                 PROVE  /\ cycle'[request'[r].cycle] = "payout_pending" /\ exposure' = "flat"
                        /\ balance' - request'[r].base >= Floor
    BY DEF Covered
  <1>2. r \notin lapsed /\ cycle'[request'[r].cycle] = "payout_pending" BY <1>1 DEF Watch
  <1>3. CASE Approve(r)
    <2>1. request[r].cycle \in Cycles BY <1>0, <1>3 DEF Placed, Approve
    <2>2. UNCHANGED <<balance, exposure>> BY <1>3 DEF Approve, account, trading
    <2> QED BY <1>0, <1>2, <1>3, <2>1, <2>2, ApprovalEffect
  <1>4. CASE ~Approve(r)
    <2>1. /\ request[r].status \in {"approved", "processing"}
          /\ request'[r].cycle = request[r].cycle /\ request'[r].base = request[r].base
      BY <1>0, <1>1, <1>4, ApprovedBefore
    <2>2. /\ cycle[request[r].cycle] = "payout_pending" /\ exposure = "flat"
          /\ balance - request[r].base >= Floor /\ request[r].cycle \in Cycles
      BY <1>0, <1>2, <2>1 DEF Covered, Placed
    <2>3. CASE \A q \in Requests : ~SettlePaid(q) /\ ~ReversePayout(q)
      BY <1>2, <2>1, <2>2, <2>3, FrozenStaysFlat
    <2>4. ASSUME NEW q \in Requests, SettlePaid(q) PROVE FALSE
      <3>1. Moves(q, "processing", "paid") /\ CloseCycleAndAdvance(request[q].cycle)
        BY <1>0, <2>4, SettlementEffect
      <3>2. request[q].cycle \in Cycles /\ cycle[request[q].cycle] # "none"
        BY <1>0, <3>1 DEF Placed, Moves
      <3>3. cycle[request[q].cycle] # "closed" /\ cycle'[request[q].cycle] = "closed"
        BY <1>0, <3>1, <3>2, CloseEffect
      <3>4. request[q].cycle \in OpenCycles /\ request[r].cycle \in OpenCycles
        BY <1>0, <2>2, <3>2, <3>3 DEF OpenCycles, TypeOK
      <3>5. request[q].cycle = request[r].cycle BY <1>0, <3>4, OneOpenCycle
      <3> QED BY <1>2, <2>1, <3>3, <3>5
    <2>5. ASSUME NEW q \in Requests, ReversePayout(q)
          PROVE  exposure' = "flat" /\ balance' - request[r].base >= Floor
      <3>1. /\ balance' = balance + request[q].base /\ request[q].base \in Nat
            /\ exposure' = exposure
        BY <1>0, <2>5, ReversalEffect
      <3>2. request[r].base \in Nat /\ balance \in Int /\ Floor \in Int
        BY <1>0, PayoutAssumption DEF TypeOK
      <3>3. balance' - request[r].base >= balance - request[r].base BY <3>1, <3>2
      <3> QED BY <2>2, <3>1, <3>2, <3>3
    <2> QED BY <1>2, <2>1, <2>3, <2>4, <2>5
  <1> QED BY <1>3, <1>4

-----------------------------------------------------------------------------
(* The theorems.                                                            *)

(* Every step keeps every type.                                             *)
LEMMA TypeStep ==
  ASSUME TypeOK, Placed, Next PROVE TypeOK'
  <1>1. Sorts' BY SortsStep DEF Next
  <1>2. review' \in BOOLEAN /\ stray' \in BOOLEAN /\ hold' \in BOOLEAN BY FlagsStep
  <1>3. lapsed' \subseteq Requests BY DEF TypeOK, Next, Watch
  <1> QED BY <1>1, <1>2, <1>3 DEF TypeOK, Sorts, Rows, Drafts

(* The invariant holds at the start.                                        *)
LEMMA Initially ==
  ASSUME Init PROVE IInv
  <1>1. /\ 1 \in Cycles /\ 1 \in Days /\ 0 \in 0..MaxCycles /\ 0 \in 0..MaxDay
        /\ 1 \in 0..MaxDay
    BY PayoutAssumption DEF Cycles, Days
  <1>2. /\ request \in [Requests -> Rows] /\ creating \in [Requests -> Drafts]
        /\ \A r \in Requests : request[r].status = "none" /\ creating[r].step = "idle"
    BY <1>1 DEF Init, Unrequested, Idle, Rows, Drafts, Statuses
  <1>3. /\ \A c \in Cycles : cycle[c] # "closed" /\ (cycle[c] # "none" => c = 1)
        /\ \A c \in Cycles : opened[c] <= day
    BY PayoutAssumption DEF Init, Cycles
  <1>4. Sorts
    BY <1>1, <1>2, PayoutAssumption DEF Init, Sorts
  <1>5. TypeOK BY <1>4 DEF Init, TypeOK, Sorts, Rows, Drafts
  <1>6. LedgerFollowsRequests BY <1>2 DEF Init, LedgerFollowsRequests
  <1>7. Placed BY <1>2 DEF Init, Placed
  <1>8. InTurn BY <1>3 DEF InTurn, Cycles
  <1>9. Payers BY <1>3 DEF Init, Payers
  <1>10. DaysOfCycle BY DEF Init, DaysOfCycle
  <1>11. Covered /\ OnlyApprovedIsSent BY <1>2 DEF Init, Covered, OnlyApprovedIsSent
  <1> QED BY <1>5, <1>6, <1>7, <1>8, <1>9, <1>10, <1>11 DEF IInv

(* The inductive invariant of the payouts: requests, cycles and ledger      *)
(* together, for any requests, cycles, policy and calendar.                 *)
THEOREM PayoutInvariant == Spec => []IInv
  <1>1. Init => IInv BY Initially
  <1>2. IInv /\ [Next]_vars => IInv'
    <2>1. ASSUME IInv, Next PROVE IInv'
      <3>1. TypeOK /\ Placed /\ Step /\ Watch BY <2>1 DEF IInv, Next
      <3> QED BY <2>1, <3>1, TypeStep, LedgerStep, PlacedStep, InTurnStep, PayersStep,
                 DaysStep, CoveredStep, SentStep DEF IInv
    <2>2. ASSUME IInv, UNCHANGED vars PROVE IInv'
      BY <2>2 DEF IInv, vars, cycles, account, trading, calendar, calls, history, TypeOK,
         LedgerFollowsRequests, Placed, InTurn, Payers, DaysOfCycle, Covered, OnlyApprovedIsSent,
         Matches, Current
    <2> QED BY <2>1, <2>2
  <1> QED BY <1>1, <1>2, PTL DEF Spec

(* Every variable of the payouts keeps its type (TypeOK).                   *)
THEOREM TypeInvariant == Spec => []TypeOK
  <1>1. IInv => TypeOK BY DEF IInv
  <1> QED BY <1>1, PayoutInvariant, PTL

(* The ledger debits exactly the paid requests and credits the reversed     *)
(* ones, whichever operations overtake each other or are cut off.           *)
THEOREM LedgerAgrees == Spec => []LedgerFollowsRequests
  <1>1. IInv => LedgerFollowsRequests BY DEF IInv
  <1> QED BY <1>1, PayoutInvariant, PTL

(* While its cycle stays frozen an approved payout remains covered by the   *)
(* balance above the buffer, so its debit never reaches into the buffer.    *)
THEOREM BufferIsKept == Spec => []BufferCoversApprovals
  <1>1. IInv => BufferCoversApprovals BY DEF IInv, Covered, BufferCoversApprovals
  <1> QED BY <1>1, PayoutInvariant, PTL

(* No performance day supports two paid payouts.                            *)
THEOREM NoDayPaysTwice == Spec => []DaysCountOnce
  <1>1. ASSUME IInv, NEW q \in debited, NEW r \in debited, q # r,
               NEW d \in counted[q], d \in counted[r],
               request[q].cycle < request[r].cycle
        PROVE  FALSE
    <2>1. TypeOK /\ Placed /\ Payers /\ DaysOfCycle /\ LedgerFollowsRequests BY <1>1 DEF IInv
    <2>2. q \in Requests /\ r \in Requests /\ request[r].status # "none"
      BY <2>1 DEF LedgerFollowsRequests
    <2>3. request[r].cycle \in Cycles /\ cycle[request[r].cycle] # "none" BY <2>1, <2>2 DEF Placed
    <2>4. d < opened[request[r].cycle] BY <1>1, <2>1, <2>2, <2>3 DEF DaysOfCycle
    <2>5. opened[request[r].cycle] <= d BY <1>1, <2>1, <2>2 DEF DaysOfCycle
    <2>6. d \in Nat /\ opened[request[r].cycle] \in Nat BY <1>1, <2>1, <2>2, <2>3 DEF TypeOK, Days
    <2> QED BY <2>4, <2>5, <2>6
  <1>2. ASSUME IInv, NEW q \in debited, NEW r \in debited, q # r
        PROVE  \/ request[q].cycle < request[r].cycle \/ request[r].cycle < request[q].cycle
    <2>1. TypeOK /\ Payers BY <1>2 DEF IInv
    <2>2. request[q].cycle # request[r].cycle BY <1>2, <2>1 DEF Payers
    <2>3. request[q].cycle \in Nat /\ request[r].cycle \in Nat BY <1>2, <2>1 DEF TypeOK
    <2> QED BY <2>2, <2>3
  <1>3. IInv => DaysCountOnce BY <1>1, <1>2 DEF DaysCountOnce
  <1> QED BY <1>3, PayoutInvariant, PTL

(* No request has a base above the gross base of its cycle's cap, or above  *)
(* that of the net sum it asked for.                                        *)
Capped ==
  \A r \in Requests :
    request[r].status # "none" =>
      /\ request[r].base <= GrossOf(Caps[request[r].cycle], Splits[request[r].cycle])
      /\ request[r].base <= GrossOf(request[r].net, Splits[request[r].cycle])

(* Only an approval sets a base, and it applies the cap.                    *)
LEMMA CappedStep ==
  ASSUME IInv, Capped, Step PROVE Capped'
  <1>0. TypeOK /\ Placed BY DEF IInv
  <1>1. \A r \in Requests : request[r].status # "none" => request[r].cycle \in Cycles
    BY <1>0 DEF Placed
  <1>2. ASSUME NEW q \in Requests, InsertRequest(q) PROVE Capped'
    <2>1. /\ request'[q].base = 0 /\ request'[q].cycle = creating[q].cycle
          /\ request'[q].net \in Nat
          /\ \A r \in Requests : r # q => request'[r] = request[r]
      BY <1>0, <1>2, InsertEffect
    <2>2. creating[q].cycle \in Cycles BY <1>0, <1>2 DEF Placed, InsertRequest
    <2>3. Caps[creating[q].cycle] \in Nat BY <2>2, PayoutAssumption DEF Cycles
    <2>4. GrossOf(Caps[creating[q].cycle], Splits[creating[q].cycle]) \in Nat
      BY <2>2, <2>3, GrossNat
    <2>5. 0 <= GrossOf(Caps[creating[q].cycle], Splits[creating[q].cycle]) BY <2>4
    <2>6. 0 <= GrossOf(request'[q].net, Splits[creating[q].cycle])
      <3>1. GrossOf(request'[q].net, Splits[creating[q].cycle]) \in Nat
        BY <2>1, <2>2, GrossNat
      <3> QED BY <3>1
    <2> QED BY <2>1, <2>5, <2>6 DEF Capped
  <1>3. ASSUME NEW q \in Requests, FreezeCycle(q) PROVE Capped'
    BY <1>3 DEF FreezeCycle, Capped
  <1>4. ASSUME NEW q \in Requests, Approve(q) PROVE Capped'
    <2>1. request[q].cycle \in Cycles BY <1>1, <1>4 DEF Approve
    <2> QED BY <1>0, <1>4, <2>1, ApprovalEffect DEF Capped, RequestedGross
  <1>5. ASSUME NEW q \in Requests, RefuseApproval(q) \/ Reject(q) \/ RecordFailure(q)
        PROVE  Capped'
    <2>1. PICK s \in {"rejected", "failed"} : Returns(q, s) BY <1>0, <1>5, ReturnsEffect
    <2> QED BY <2>1 DEF Returns, Capped
  <1>6. ASSUME NEW q \in Requests, NEW from, NEW to, Moves(q, from, to), from # "none"
        PROVE  Capped'
    BY <1>6 DEF Moves, Capped
  <1>7. ASSUME NEW q \in Requests, RecordSubmission(q) \/ SettlePaid(q) \/ ReversePayout(q)
        PROVE  Capped'
    BY <1>0, <1>6, <1>7, SubmissionEffect, SettlementEffect, ReversalEffect
  <1>8. UNCHANGED Rest => Capped' BY DEF Rest, Capped
  <1> QED BY <1>2, <1>3, <1>4, <1>5, <1>7, <1>8, QuietSteps

(* The trader's cash of a payout never exceeds the cap of its cycle or the  *)
(* sum that was asked for, and the firm's share of it is never negative,    *)
(* through every rounding.                                                  *)
THEOREM CashStaysWithinCap == Spec => []CashWithinCap
  <1>1. Init => Capped
    BY DEF Init, Capped, Unrequested
  <1>2. IInv /\ Capped /\ [Next]_vars => Capped'
    <2>1. ASSUME UNCHANGED vars, Capped PROVE Capped' BY <2>1 DEF vars, Capped
    <2> QED BY <2>1, CappedStep DEF Next
  <1>3. IInv /\ Capped => CashWithinCap
    <2> SUFFICES ASSUME IInv, Capped, NEW r \in Requests, request[r].status # "none"
                 PROVE  /\ TraderNet(request[r].base, Splits[request[r].cycle])
                              <= Caps[request[r].cycle]
                        /\ TraderNet(request[r].base, Splits[request[r].cycle])
                              <= request[r].net
                        /\ WaribaShare(request[r].base, Splits[request[r].cycle]) >= 0
      BY DEF CashWithinCap
    <2>1. request[r].cycle \in Cycles /\ request[r].base \in Nat /\ request[r].net \in Nat
      BY DEF IInv, TypeOK, Placed
    <2>2. Caps[request[r].cycle] \in Nat /\ Splits[request[r].cycle] \in 1..100
      BY <2>1, PayoutAssumption DEF Cycles
    <2> QED BY <2>1, <2>2, NetWithinCap DEF Capped
  <1> QED BY <1>1, <1>2, <1>3, PayoutInvariant, PTL DEF Spec

(* The provider has no record of a request that nobody approved, unless a   *)
(* rejection that was under way came after the approval.                    *)
THEOREM ApprovedBeforeSent == Spec => []OnlyApprovedIsSent
  <1>1. IInv => OnlyApprovedIsSent BY DEF IInv
  <1> QED BY <1>1, PayoutInvariant, PTL

-----------------------------------------------------------------------------
(* The refinement of the book of payouts.                                   *)

(* A step that debits and credits nothing leaves the book as it is.         *)
LEMMA BookStays ==
  ASSUME UNCHANGED <<debited, credited>>,
         \A q \in debited : request'[q].cycle = request[q].cycle
  PROVE  UNCHANGED <<PaidIn, credited>>
  BY DEF PaidIn

(* A settlement is a payment of the book, in its turn.                      *)
LEMMA SettlementPays ==
  ASSUME IInv, NEW r \in Requests, SettlePaid(r) PROVE Book!Pay(request[r].cycle, r)
  <1> DEFINE c == request[r].cycle
  <1>1. TypeOK /\ Placed /\ InTurn /\ Payers BY DEF IInv
  <1>2. /\ Moves(r, "processing", "paid") /\ CloseCycleAndAdvance(c)
        /\ debited' = debited \cup {r} /\ UNCHANGED credited
    BY <1>1, SettlementEffect
  <1>3. c \in Cycles /\ cycle[c] # "none" BY <1>1, <1>2 DEF Placed, Moves
  <1>4. cycle[c] # "closed" BY <1>2 DEF CloseCycleAndAdvance
  <1>5. r \notin debited BY DEF SettlePaid
  <1>6. \A q \in debited : request[q].cycle # c BY <1>1, <1>3, <1>4 DEF Payers
  <1>7. PaidIn[c] = {} BY <1>3, <1>6 DEF PaidIn
  <1>8. c = 1 \/ PaidIn[c - 1] # {}
    <2>1. SUFFICES ASSUME c # 1 PROVE PaidIn[c - 1] # {} OBVIOUS
    <2>2. c - 1 \in Cycles /\ c - 1 < c BY <1>3, <2>1, PayoutAssumption DEF Cycles
    <2>3. cycle[c - 1] = "closed" BY <1>1, <1>3, <2>2 DEF InTurn
    <2>4. \E q \in debited : request[q].cycle = c - 1 BY <1>1, <2>2, <2>3 DEF Payers
    <2> QED BY <2>2, <2>4 DEF PaidIn
  <1>9. \A k \in Cycles : r \notin PaidIn[k] BY <1>5 DEF PaidIn
  <1>10. \A q \in Requests : request'[q].cycle = request[q].cycle BY <1>2 DEF Moves
  <1>11. debited \subseteq Requests BY <1>1 DEF TypeOK
  <1> HIDE DEF c
  <1>12. \A k \in Cycles : PaidIn'[k] = IF k = c THEN {r} ELSE PaidIn[k]
    <2>1. ASSUME NEW k \in Cycles
          PROVE  PaidIn'[k] = {q \in debited \cup {r} : request[q].cycle = k}
      BY <1>2, <1>10, <1>11 DEF PaidIn
    <2>2. ASSUME NEW k \in Cycles, k # c PROVE PaidIn'[k] = PaidIn[k]
      BY <2>1, <2>2 DEF PaidIn, c
    <2>3. PaidIn'[c] = {r}
      <3>1. \A q \in debited : request[q].cycle # c BY <1>6 DEF c
      <3>2. request[r].cycle = c BY DEF c
      <3>3. PaidIn'[c] = {q \in debited \cup {r} : request[q].cycle = c} BY <1>3, <2>1 DEF c
      <3> QED BY <3>1, <3>2, <3>3
    <2> QED BY <2>2, <2>3
  <1>13. PaidIn' = [PaidIn EXCEPT ![c] = {r}]
    <2>1. PaidIn = [k \in Cycles |-> PaidIn[k]] BY DEF PaidIn
    <2>2. PaidIn' = [k \in Cycles |-> PaidIn'[k]] BY DEF PaidIn
    <2> HIDE DEF PaidIn
    <2> QED BY <1>12, <2>1, <2>2
  <1> QED BY <1>2, <1>7, <1>8, <1>9, <1>13, Zenon DEF Book!Pay, Cycles, c

(* A reversal undoes a payment of the book, for the first time.             *)
LEMMA ReversalUndoes ==
  ASSUME IInv, NEW r \in Requests, ReversePayout(r) PROVE Book!Undo(request[r].cycle, r)
  <1>1. TypeOK /\ Placed BY DEF IInv
  <1>2. Moves(r, "paid", "reversed") /\ credited' = credited \cup {r} /\ UNCHANGED debited
    BY <1>1, ReversalEffect
  <1>3. r \in debited /\ r \notin credited BY DEF ReversePayout
  <1>4. request[r].cycle \in Cycles BY <1>1, <1>2 DEF Placed, Moves
  <1>5. UNCHANGED PaidIn
    <2>1. \A q \in debited : request'[q].cycle = request[q].cycle BY <1>1, <1>2 DEF Moves, TypeOK
    <2> QED BY <1>2, <2>1 DEF PaidIn
  <1>6. r \in PaidIn[request[r].cycle] BY <1>3, <1>4 DEF PaidIn
  <1> QED BY <1>2, <1>3, <1>5, <1>6 DEF Book!Undo

(* Every step is a step of the book or leaves it unchanged.                 *)
LEMMA BookStep ==
  ASSUME IInv, Step PROVE Book!Next \/ UNCHANGED <<PaidIn, credited>>
  <1>0. TypeOK /\ Placed /\ LedgerFollowsRequests BY DEF IInv
  <1>1. ASSUME NEW r \in Requests, SettlePaid(r) PROVE Book!Next
    <2>1. request[r].cycle \in Cycles BY <1>0, <1>1 DEF Placed, SettlePaid
    <2> QED BY <1>1, <2>1, SettlementPays DEF Book!Next, Cycles
  <1>2. ASSUME NEW r \in Requests, ReversePayout(r) PROVE Book!Next
    <2>1. request[r].cycle \in Cycles BY <1>0, <1>2 DEF Placed, ReversePayout
    <2> QED BY <1>2, <2>1, ReversalUndoes DEF Book!Next, Cycles
  <1>3. ASSUME NEW r \in Requests, InsertRequest(r) PROVE UNCHANGED <<PaidIn, credited>>
    <2>1. r \notin debited BY <1>0, <1>3 DEF LedgerFollowsRequests, InsertRequest
    <2>2. \A q \in debited : request'[q].cycle = request[q].cycle
      BY <1>0, <1>3, <2>1, InsertEffect DEF TypeOK
    <2>3. UNCHANGED <<debited, credited>> BY <1>3 DEF InsertRequest, account
    <2> QED BY <2>2, <2>3, BookStays
  <1>4. ASSUME NEW r \in Requests, FreezeCycle(r) PROVE UNCHANGED <<PaidIn, credited>>
    BY <1>4, BookStays DEF FreezeCycle, account
  <1>5. ASSUME NEW r \in Requests, Approve(r) PROVE UNCHANGED <<PaidIn, credited>>
    <2>1. request[r].cycle \in Cycles BY <1>0, <1>5 DEF Placed, Approve
    <2>2. \A q \in debited : request'[q].cycle = request[q].cycle
      BY <1>0, <1>5, <2>1, ApprovalEffect DEF TypeOK
    <2>3. UNCHANGED <<debited, credited>> BY <1>5 DEF Approve, account
    <2> QED BY <2>2, <2>3, BookStays
  <1>6. ASSUME NEW r \in Requests, RefuseApproval(r) \/ Reject(r) \/ RecordFailure(r)
        PROVE  UNCHANGED <<PaidIn, credited>>
    <2>1. PICK s \in {"rejected", "failed"} : Returns(r, s) BY <1>0, <1>6, ReturnsEffect
    <2>2. \A q \in debited : request'[q].cycle = request[q].cycle
      BY <1>0, <2>1 DEF Returns, TypeOK
    <2>3. UNCHANGED <<debited, credited>> BY <2>1 DEF Returns, books
    <2> QED BY <2>2, <2>3, BookStays
  <1>7. ASSUME NEW r \in Requests, RecordSubmission(r) PROVE UNCHANGED <<PaidIn, credited>>
    <2>1. Moves(r, "approved", "processing") /\ UNCHANGED books BY <1>0, <1>7, SubmissionEffect
    <2>2. \A q \in debited : request'[q].cycle = request[q].cycle BY <1>0, <2>1 DEF Moves, TypeOK
    <2> QED BY <2>1, <2>2, BookStays DEF books
  <1>8. UNCHANGED Rest => UNCHANGED <<PaidIn, credited>>
    <2>1. ASSUME UNCHANGED Rest PROVE UNCHANGED <<PaidIn, credited>>
      BY <2>1, BookStays DEF Rest
    <2> QED BY <2>1
  <1> QED BY <1>1, <1>2, <1>3, <1>4, <1>5, <1>6, <1>7, <1>8, QuietSteps

(* The payouts implement the book: cycles pay in turn, one request each,    *)
(* and a payment is undone once at most, whatever overtakes what.           *)
THEOREM PaysInTurn == Spec => CyclesPayInTurn
  <1>1. Init => Book!Init
    BY DEF Init, Book!Init, PaidIn, Cycles
  <1>2. IInv /\ [Next]_vars => [Book!Next]_<<PaidIn, credited>>
    <2>1. ASSUME IInv, Next PROVE Book!Next \/ UNCHANGED <<PaidIn, credited>>
      BY <2>1, BookStep DEF Next
    <2>2. ASSUME UNCHANGED vars PROVE UNCHANGED <<PaidIn, credited>>
      BY <2>2 DEF vars, account, PaidIn
    <2> QED BY <2>1, <2>2
  <1> QED BY <1>1, <1>2, PayoutInvariant, PTL DEF Spec, CyclesPayInTurn, Book!Spec
=============================================================================

--------------------------- MODULE Commerce_proofs ---------------------------
(***************************************************************************)
(* Proofs about Commerce, for any purchases, events, windows and clocks.   *)
(* An order is one of a purchase's two; each part of the inductive         *)
(* invariant is preserved by the actions that change what it speaks of.    *)
(***************************************************************************)
EXTENDS Commerce, FiniteSetTheorems, TLAPS

(* What is known of the rows of one purchase between transactions.          *)
Rows(p) ==
  /\ family[p] = "none" <=> order[Initial(p)] = "none"
  /\ family[p] = "none" => evaluation[p] = "none" /\ performance[p] = 0
  /\ obligation[p] = "none" <=> order[Activation(p)] = "none"
  /\ obligation[p] # "paid"
  /\ obligation[p] # "none" => family[p] = "FLEX" /\ evaluation[p] = "passed"
  /\ family[p] = "INSTANT" => evaluation[p] = "none"
  /\ family[p] = "FLEX" /\ obligation[p] = "none" => performance[p] = 0

(* Only an order that exists is spoken of.                                  *)
Known == \A e \in Events : issued[e] # None => order[issued[e].order] # "none"

(* An order fails only when the provider said so.                           *)
Failed == \A o \in Orders : order[o] = "payment_failed" => Said(o, "failed") # {}

(* An accepted confirmation has fulfilled its order, or a failure of the    *)
(* same order had been accepted.                                            *)
Honoured ==
  \A o \in Orders :
    Said(o, "confirmed") # {} => order[o] = "fulfilled" \/ Said(o, "failed") # {}

IInv ==
  /\ TypeOK /\ OrdersMatchAccounts /\ Honoured /\ HandoffAgrees
  /\ Known /\ Failed /\ \A q \in Purchases : Rows(q)

-----------------------------------------------------------------------------
(* An order belongs to one purchase, and is one of its two.                 *)
LEMMA OrderNames ==
  /\ \A p \in Purchases :
       /\ Initial(p) \in Orders /\ Activation(p) \in Orders
       /\ Initial(p)[1] = p /\ Activation(p)[1] = p
       /\ Initial(p)[2] = "initial_purchase" /\ Activation(p)[2] = "flex_activation"
  /\ \A p, q \in Purchases : /\ Initial(p) # Activation(q)
                             /\ (Initial(p) = Initial(q) => p = q)
                             /\ (Activation(p) = Activation(q) => p = q)
  /\ \A o \in Orders : o[1] \in Purchases /\ (o = Initial(o[1]) \/ o = Activation(o[1]))
  BY DEF Orders, Kinds, Initial, Activation

-----------------------------------------------------------------------------
(* Types.                                                                   *)

(* Every step keeps every type.                                             *)
LEMMA TypeStep ==
  ASSUME TypeOK, Next PROVE TypeOK'
  <1> USE OrderNames DEF TypeOK, orders, accounts, handoff, inbox, Times
  <1>1. ASSUME NEW p \in Purchases, NEW f \in Offers, CreateOrder(p, f)
        PROVE  TypeOK'
    BY <1>1, CommerceAssumption DEF CreateOrder
  <1>2. ASSUME NEW o \in Orders, NEW t \in Clocks, PrepareForPayment(o, t)
        PROVE  TypeOK'
    BY <1>2, CommerceAssumption DEF PrepareForPayment
  <1>3. ASSUME NEW o \in Orders, NEW t \in Clocks, ExpireObligation(o, t)
        PROVE  TypeOK'
    BY <1>3, CommerceAssumption DEF ExpireObligation
  <1>4. ASSUME NEW o \in Orders, RecordAttempt(o)
        PROVE  TypeOK'
    BY <1>4, CommerceAssumption DEF RecordAttempt
  <1>5. ASSUME NEW o \in Orders, CheckoutEnds(o)
        PROVE  TypeOK'
    BY <1>5, CommerceAssumption DEF CheckoutEnds
  <1>6. ASSUME NEW e \in Events, NEW o \in Orders, NEW type \in Types, IssueEvent(e, o, type)
        PROVE  TypeOK'
    BY <1>6, CommerceAssumption DEF IssueEvent, EventRows
  <1>7. ASSUME NEW e \in Events, NEW o \in Orders, NEW t \in Clocks, FailPayment(e, o, t)
        PROVE  TypeOK'
    BY <1>7, CommerceAssumption DEF FailPayment, RecordEvent
  <1>8. ASSUME NEW e \in Events, NEW o \in Orders, NEW t \in Clocks, IgnoreConfirmation(e, o, t)
        PROVE  TypeOK'
    BY <1>8, CommerceAssumption DEF IgnoreConfirmation, RecordEvent
  <1>9. ASSUME NEW e \in Events, NEW p \in Purchases, NEW t \in Clocks, ConfirmEvaluation(e, p, t)
        PROVE  TypeOK'
    BY <1>9, CommerceAssumption DEF ConfirmEvaluation, RecordEvent, Pay
  <1>10. ASSUME NEW e \in Events, NEW p \in Purchases, NEW t \in Clocks, ConfirmPerformance(e, p, t)
        PROVE  TypeOK'
    BY <1>10, CommerceAssumption DEF ConfirmPerformance, RecordEvent, Pay, PerformanceOrder, Discharge, Clocks
  <1>11. ASSUME NEW p \in Purchases, PassOne(p)
        PROVE  TypeOK'
    BY <1>11, CommerceAssumption DEF PassOne
  <1>12. ASSUME NEW p \in Purchases, PassFlex(p)
        PROVE  TypeOK'
    BY <1>12, CommerceAssumption DEF PassFlex
  <1>13. ASSUME NEW p \in Purchases, EndEvaluation(p)
        PROVE  TypeOK'
    BY <1>13, CommerceAssumption DEF EndEvaluation
  <1>14. ASSUME ChangeReadiness
        PROVE  TypeOK'
    BY <1>14, CommerceAssumption DEF ChangeReadiness
  <1>15. ASSUME Tick
        PROVE  TypeOK'
    BY <1>15, CommerceAssumption DEF Tick
  <1>16. ASSUME NEW e \in Events, RefuseEvent(e) \/ AnswerDuplicate(e)
        PROVE  TypeOK'
    BY <1>16, CommerceAssumption DEF RefuseEvent, AnswerDuplicate
  <1> QED BY <1>1, <1>2, <1>3, <1>4, <1>5, <1>6, <1>7, <1>8, <1>9, <1>10,
             <1>11, <1>12, <1>13, <1>14, <1>15, <1>16 DEF Next

-----------------------------------------------------------------------------
(* The invariant.                                                           *)

(* The order that a Performance account is paid for with.                   *)
LEMMA PerformanceOrderIs ==
  ASSUME NEW p \in Purchases
  PROVE  /\ PerformanceOrder(p) \in Orders /\ PerformanceOrder(p)[1] = p
         /\ Opened(PerformanceOrder(p)) <=> performance[p] # 0
         /\ PerformanceOrder(p) = IF family[p] = "INSTANT" THEN Initial(p) ELSE Activation(p)
  BY OrderNames DEF PerformanceOrder, Opened

(* Paying an order fulfils it, unless it was fulfilled before.              *)
LEMMA PayEffect ==
  ASSUME TypeOK, OrdersMatchAccounts, NEW o \in Orders, Pay(o, ~Opened(o))
  PROVE  /\ order[o] \in {"pending_payment", "fulfilled"}
         /\ order[o] = "fulfilled" <=> Opened(o)
         /\ order' = [order EXCEPT ![o] = "fulfilled"] /\ receipts' = receipts \cup {o}
         /\ attempt'[o] # "failed"
         /\ \A q \in Orders : q # o => attempt'[q] = attempt[q]
         /\ UNCHANGED <<family, reopened>>
  <1>1. /\ order[o] \in {"pending_payment", "fulfilled"}
        /\ order[o] = "fulfilled" <=> Opened(o)
        /\ order[o] = "fulfilled" => o \in receipts /\ attempt[o] # "failed"
    BY DEF OrdersMatchAccounts, Pay
  <1>2. order' = [order EXCEPT ![o] = "fulfilled"]
    <2>1. CASE Opened(o) BY <1>1, <2>1 DEF Pay, TypeOK
    <2>2. CASE ~Opened(o) BY <1>1, <2>2 DEF Pay, TypeOK
    <2> QED BY <2>1, <2>2
  <1>3. receipts' = receipts \cup {o} /\ UNCHANGED <<family, reopened>>
    BY <1>1 DEF Pay
  <1>4. attempt \in [Orders -> {"none", "initiated", "confirmed", "failed"}]
    BY DEF TypeOK
  <1>5. attempt'[o] # "failed" /\ \A q \in Orders : q # o => attempt'[q] = attempt[q]
    BY <1>1, <1>4 DEF Pay
  <1> QED BY <1>1, <1>2, <1>3, <1>5

(* What the two confirmations do to their orders.                           *)
LEMMA ConfirmEffect ==
  ASSUME IInv, NEW e \in Events, NEW p \in Purchases, NEW t \in Clocks
  PROVE  /\ ConfirmEvaluation(e, p, t) => Pay(Initial(p), ~Opened(Initial(p)))
         /\ ConfirmPerformance(e, p, t) =>
              Pay(PerformanceOrder(p), ~Opened(PerformanceOrder(p)))
  <1>1. ASSUME ConfirmEvaluation(e, p, t) PROVE Pay(Initial(p), ~Opened(Initial(p)))
    <2>1. family[p] # "INSTANT" BY <1>1 DEF ConfirmEvaluation
    <2>2. Opened(Initial(p)) <=> evaluation[p] # "none"
      BY <2>1, OrderNames DEF Opened, PerformanceOrder
    <2>3. Pay(Initial(p), evaluation[p] = "none") BY <1>1 DEF ConfirmEvaluation
    <2>4. (evaluation[p] = "none") = ~Opened(Initial(p)) BY <2>2
    <2> QED BY <2>3, <2>4
  <1>2. ASSUME ConfirmPerformance(e, p, t)
        PROVE  Pay(PerformanceOrder(p), ~Opened(PerformanceOrder(p)))
    <2>1. Pay(PerformanceOrder(p), performance[p] = 0) BY <1>2 DEF ConfirmPerformance
    <2>2. (performance[p] = 0) = ~Opened(PerformanceOrder(p)) BY PerformanceOrderIs
    <2> QED BY <2>1, <2>2
  <1> QED BY <1>1, <1>2

(* The rows of a purchase stay as they are known to be.                     *)
LEMMA RowsStep ==
  ASSUME IInv, Next PROVE \A q \in Purchases : Rows(q)'
  <1>0. TypeOK /\ OrdersMatchAccounts /\ Honoured /\ HandoffAgrees /\ Known
        /\ Failed /\ \A q \in Purchases : Rows(q)
    BY DEF IInv
  <1> USE <1>0, OrderNames DEF TypeOK, Rows, OrdersMatchAccounts, Opened, PerformanceOrder,
          HandoffAgrees, TooLate, orders, accounts, handoff, inbox
  <1>1. ASSUME NEW p \in Purchases, NEW f \in Offers, CreateOrder(p, f)
        PROVE  \A q \in Purchases : Rows(q)'
    BY <1>1, CommerceAssumption DEF CreateOrder
  <1>2. ASSUME NEW o \in Orders, NEW t \in Clocks, PrepareForPayment(o, t)
        PROVE  \A q \in Purchases : Rows(q)'
    BY <1>2 DEF PrepareForPayment
  <1>3. ASSUME NEW o \in Orders, NEW t \in Clocks, ExpireObligation(o, t)
        PROVE  \A q \in Purchases : Rows(q)'
    BY <1>3 DEF ExpireObligation
  <1>4. ASSUME NEW o \in Orders, RecordAttempt(o)
        PROVE  \A q \in Purchases : Rows(q)'
    BY <1>4 DEF RecordAttempt
  <1>5. ASSUME NEW o \in Orders, CheckoutEnds(o)
        PROVE  \A q \in Purchases : Rows(q)'
    BY <1>5 DEF CheckoutEnds
  <1>6. ASSUME NEW e \in Events, NEW o \in Orders, NEW type \in Types, IssueEvent(e, o, type)
        PROVE  \A q \in Purchases : Rows(q)'
    BY <1>6 DEF IssueEvent, EventRows
  <1>7. ASSUME NEW e \in Events, NEW o \in Orders, NEW t \in Clocks, FailPayment(e, o, t)
        PROVE  \A q \in Purchases : Rows(q)'
    BY <1>7 DEF FailPayment, RecordEvent
  <1>8. ASSUME NEW e \in Events, NEW o \in Orders, NEW t \in Clocks, IgnoreConfirmation(e, o, t)
        PROVE  \A q \in Purchases : Rows(q)'
    BY <1>8 DEF IgnoreConfirmation, RecordEvent
  <1>9. ASSUME NEW e \in Events, NEW p \in Purchases, NEW t \in Clocks, ConfirmEvaluation(e, p, t)
        PROVE  \A q \in Purchases : Rows(q)'
    BY <1>9 DEF ConfirmEvaluation, RecordEvent, Pay
  <1>10. ASSUME NEW e \in Events, NEW p \in Purchases, NEW t \in Clocks, ConfirmPerformance(e, p, t)
        PROVE  \A q \in Purchases : Rows(q)'
    <2> DEFINE o == PerformanceOrder(p)
    <2>1. /\ o \in Orders /\ o[1] = p
          /\ o = IF family[p] = "INSTANT" THEN Initial(p) ELSE Activation(p)
          /\ Opened(o) <=> performance[p] # 0
      BY PerformanceOrderIs
    <2>2. Pay(o, ~Opened(o)) BY <1>10, ConfirmEffect
    <2> HIDE DEF o
    <2>3. /\ order[o] \in {"pending_payment", "fulfilled"}
          /\ order[o] = "fulfilled" <=> performance[p] # 0
          /\ order' = [order EXCEPT ![o] = "fulfilled"] /\ receipts' = receipts \cup {o}
          /\ attempt'[o] # "failed" /\ \A q \in Orders : q # o => attempt'[q] = attempt[q]
          /\ UNCHANGED family
      BY <2>1, <2>2, PayEffect
    <2>4. /\ ~TooLate(o, t) /\ Discharge(p, performance[p] = 0) /\ UNCHANGED <<evaluation, due>>
          /\ performance' = IF performance[p] = 0 THEN [performance EXCEPT ![p] = t]
                                                   ELSE performance
      BY <1>10 DEF ConfirmPerformance, o
    <2>5. t \in Nat /\ t # 0 BY CommerceAssumption DEF Clocks, Times
    <2>6. performance'[p] # 0 /\ \A q \in Purchases : q # p => performance'[q] = performance[q]
      BY <2>4, <2>5
    <2>7. CASE family[p] = "INSTANT" BY <2>1, <2>3, <2>4, <2>5, <2>6, <2>7 DEF Discharge
    <2>8. CASE family[p] # "INSTANT" BY <2>1, <2>3, <2>4, <2>5, <2>6, <2>8 DEF Discharge
    <2> QED BY <2>7, <2>8
  <1>11. ASSUME NEW p \in Purchases, PassOne(p)
        PROVE  \A q \in Purchases : Rows(q)'
    BY <1>11 DEF PassOne
  <1>12. ASSUME NEW p \in Purchases, PassFlex(p)
        PROVE  \A q \in Purchases : Rows(q)'
    BY <1>12 DEF PassFlex
  <1>13. ASSUME NEW p \in Purchases, EndEvaluation(p)
        PROVE  \A q \in Purchases : Rows(q)'
    BY <1>13 DEF EndEvaluation
  <1>14. ASSUME ChangeReadiness
        PROVE  \A q \in Purchases : Rows(q)'
    BY <1>14 DEF ChangeReadiness
  <1>15. ASSUME Tick
        PROVE  \A q \in Purchases : Rows(q)'
    BY <1>15 DEF Tick
  <1>16. ASSUME NEW e \in Events, RefuseEvent(e) \/ AnswerDuplicate(e)
        PROVE  \A q \in Purchases : Rows(q)'
    BY <1>16 DEF RefuseEvent, AnswerDuplicate
  <1> QED BY <1>1, <1>2, <1>3, <1>4, <1>5, <1>6, <1>7, <1>8, <1>9, <1>10,
             <1>11, <1>12, <1>13, <1>14, <1>15, <1>16, ZenonT(40) DEF Next

(* Events speak of orders that exist.                                       *)
LEMMA KnownStep ==
  ASSUME IInv, Next PROVE Known'
  <1>0. TypeOK /\ OrdersMatchAccounts /\ Honoured /\ HandoffAgrees /\ Known
        /\ Failed /\ \A q \in Purchases : Rows(q)
    BY DEF IInv
  <1> USE <1>0, OrderNames DEF TypeOK, Known, orders, accounts, handoff, inbox
  <1>1. ASSUME NEW p \in Purchases, NEW f \in Offers, CreateOrder(p, f)
        PROVE  Known'
    BY <1>1 DEF CreateOrder
  <1>2. ASSUME NEW o \in Orders, NEW t \in Clocks, PrepareForPayment(o, t)
        PROVE  Known'
    BY <1>2 DEF PrepareForPayment
  <1>3. ASSUME NEW o \in Orders, NEW t \in Clocks, ExpireObligation(o, t)
        PROVE  Known'
    BY <1>3 DEF ExpireObligation
  <1>4. ASSUME NEW o \in Orders, RecordAttempt(o)
        PROVE  Known'
    BY <1>4 DEF RecordAttempt
  <1>5. ASSUME NEW o \in Orders, CheckoutEnds(o)
        PROVE  Known'
    BY <1>5 DEF CheckoutEnds
  <1>6. ASSUME NEW e \in Events, NEW o \in Orders, NEW type \in Types, IssueEvent(e, o, type)
        PROVE  Known'
    BY <1>6 DEF IssueEvent, EventRows
  <1>7. ASSUME NEW e \in Events, NEW o \in Orders, NEW t \in Clocks, FailPayment(e, o, t)
        PROVE  Known'
    BY <1>7 DEF FailPayment, RecordEvent
  <1>8. ASSUME NEW e \in Events, NEW o \in Orders, NEW t \in Clocks, IgnoreConfirmation(e, o, t)
        PROVE  Known'
    BY <1>8 DEF IgnoreConfirmation, RecordEvent
  <1>9. ASSUME NEW e \in Events, NEW p \in Purchases, NEW t \in Clocks, ConfirmEvaluation(e, p, t)
        PROVE  Known'
    BY <1>9 DEF ConfirmEvaluation, RecordEvent, Pay
  <1>10. ASSUME NEW e \in Events, NEW p \in Purchases, NEW t \in Clocks, ConfirmPerformance(e, p, t)
        PROVE  Known'
    BY <1>10 DEF ConfirmPerformance, RecordEvent, Pay, PerformanceOrder, Discharge, Clocks
  <1>11. ASSUME NEW p \in Purchases, PassOne(p)
        PROVE  Known'
    BY <1>11 DEF PassOne
  <1>12. ASSUME NEW p \in Purchases, PassFlex(p)
        PROVE  Known'
    BY <1>12 DEF PassFlex
  <1>13. ASSUME NEW p \in Purchases, EndEvaluation(p)
        PROVE  Known'
    BY <1>13 DEF EndEvaluation
  <1>14. ASSUME ChangeReadiness
        PROVE  Known'
    BY <1>14 DEF ChangeReadiness
  <1>15. ASSUME Tick
        PROVE  Known'
    BY <1>15 DEF Tick
  <1>16. ASSUME NEW e \in Events, RefuseEvent(e) \/ AnswerDuplicate(e)
        PROVE  Known'
    BY <1>16 DEF RefuseEvent, AnswerDuplicate
  <1> QED BY <1>1, <1>2, <1>3, <1>4, <1>5, <1>6, <1>7, <1>8, <1>9, <1>10,
             <1>11, <1>12, <1>13, <1>14, <1>15, <1>16, Zenon DEF Next

(* Orders agree with accounts, receipts and attempts after every step.      *)
LEMMA OrdersStep ==
  ASSUME IInv, Next PROVE OrdersMatchAccounts'
  <1>0. TypeOK /\ OrdersMatchAccounts /\ Honoured /\ HandoffAgrees /\ Known
        /\ Failed /\ \A q \in Purchases : Rows(q)
    BY DEF IInv
  <1> USE <1>0, OrderNames DEF TypeOK, Rows, OrdersMatchAccounts, Opened, PerformanceOrder,
          HandoffAgrees, TooLate, orders, accounts, handoff, inbox
  <1>1. ASSUME NEW p \in Purchases, NEW f \in Offers, CreateOrder(p, f)
        PROVE  OrdersMatchAccounts'
    BY <1>1 DEF CreateOrder
  <1>2. ASSUME NEW o \in Orders, NEW t \in Clocks, PrepareForPayment(o, t)
        PROVE  OrdersMatchAccounts'
    BY <1>2 DEF PrepareForPayment
  <1>3. ASSUME NEW o \in Orders, NEW t \in Clocks, ExpireObligation(o, t)
        PROVE  OrdersMatchAccounts'
    BY <1>3 DEF ExpireObligation
  <1>4. ASSUME NEW o \in Orders, RecordAttempt(o)
        PROVE  OrdersMatchAccounts'
    BY <1>4 DEF RecordAttempt
  <1>5. ASSUME NEW o \in Orders, CheckoutEnds(o)
        PROVE  OrdersMatchAccounts'
    BY <1>5 DEF CheckoutEnds
  <1>6. ASSUME NEW e \in Events, NEW o \in Orders, NEW type \in Types, IssueEvent(e, o, type)
        PROVE  OrdersMatchAccounts'
    BY <1>6 DEF IssueEvent, EventRows
  <1>7. ASSUME NEW e \in Events, NEW o \in Orders, NEW t \in Clocks, FailPayment(e, o, t)
        PROVE  OrdersMatchAccounts'
    BY <1>7 DEF FailPayment, RecordEvent
  <1>8. ASSUME NEW e \in Events, NEW o \in Orders, NEW t \in Clocks, IgnoreConfirmation(e, o, t)
        PROVE  OrdersMatchAccounts'
    BY <1>8 DEF IgnoreConfirmation, RecordEvent
  <1>9. ASSUME NEW e \in Events, NEW p \in Purchases, NEW t \in Clocks, ConfirmEvaluation(e, p, t)
        PROVE  OrdersMatchAccounts'
    BY <1>9 DEF ConfirmEvaluation, RecordEvent, Pay
  <1>10. ASSUME NEW e \in Events, NEW p \in Purchases, NEW t \in Clocks, ConfirmPerformance(e, p, t)
        PROVE  OrdersMatchAccounts'
    <2> DEFINE o == PerformanceOrder(p)
    <2>1. /\ o \in Orders /\ o[1] = p
          /\ o = IF family[p] = "INSTANT" THEN Initial(p) ELSE Activation(p)
          /\ Opened(o) <=> performance[p] # 0
      BY PerformanceOrderIs
    <2>2. Pay(o, ~Opened(o)) BY <1>10, ConfirmEffect
    <2> HIDE DEF o
    <2>3. /\ order[o] \in {"pending_payment", "fulfilled"}
          /\ order[o] = "fulfilled" <=> performance[p] # 0
          /\ order' = [order EXCEPT ![o] = "fulfilled"] /\ receipts' = receipts \cup {o}
          /\ attempt'[o] # "failed" /\ \A q \in Orders : q # o => attempt'[q] = attempt[q]
          /\ UNCHANGED family
      BY <2>1, <2>2, PayEffect
    <2>4. /\ ~TooLate(o, t) /\ Discharge(p, performance[p] = 0) /\ UNCHANGED <<evaluation, due>>
          /\ performance' = IF performance[p] = 0 THEN [performance EXCEPT ![p] = t]
                                                   ELSE performance
      BY <1>10 DEF ConfirmPerformance, o
    <2>5. t \in Nat /\ t # 0 BY CommerceAssumption DEF Clocks, Times
    <2>6. performance'[p] # 0 /\ \A q \in Purchases : q # p => performance'[q] = performance[q]
      BY <2>4, <2>5
    <2>7. CASE family[p] = "INSTANT" BY <2>1, <2>3, <2>4, <2>5, <2>6, <2>7 DEF Discharge
    <2>8. CASE family[p] # "INSTANT" BY <2>1, <2>3, <2>4, <2>5, <2>6, <2>8 DEF Discharge
    <2> QED BY <2>7, <2>8
  <1>11. ASSUME NEW p \in Purchases, PassOne(p)
        PROVE  OrdersMatchAccounts'
    BY <1>11 DEF PassOne
  <1>12. ASSUME NEW p \in Purchases, PassFlex(p)
        PROVE  OrdersMatchAccounts'
    BY <1>12 DEF PassFlex
  <1>13. ASSUME NEW p \in Purchases, EndEvaluation(p)
        PROVE  OrdersMatchAccounts'
    BY <1>13 DEF EndEvaluation
  <1>14. ASSUME ChangeReadiness
        PROVE  OrdersMatchAccounts'
    BY <1>14 DEF ChangeReadiness
  <1>15. ASSUME Tick
        PROVE  OrdersMatchAccounts'
    BY <1>15 DEF Tick
  <1>16. ASSUME NEW e \in Events, RefuseEvent(e) \/ AnswerDuplicate(e)
        PROVE  OrdersMatchAccounts'
    BY <1>16 DEF RefuseEvent, AnswerDuplicate
  <1> QED BY <1>1, <1>2, <1>3, <1>4, <1>5, <1>6, <1>7, <1>8, <1>9, <1>10,
             <1>11, <1>12, <1>13, <1>14, <1>15, <1>16, Zenon DEF Next

(* The handoff to the Performance account is kept by every step.            *)
LEMMA HandoffStep ==
  ASSUME IInv, Next PROVE HandoffAgrees'
  <1>0. TypeOK /\ OrdersMatchAccounts /\ Honoured /\ HandoffAgrees /\ Known
        /\ Failed /\ \A q \in Purchases : Rows(q)
    BY DEF IInv
  <1> USE <1>0, OrderNames DEF TypeOK, Rows, OrdersMatchAccounts, Opened, PerformanceOrder,
          HandoffAgrees, TooLate, orders, accounts, handoff, inbox
  <1>1. ASSUME NEW p \in Purchases, NEW f \in Offers, CreateOrder(p, f)
        PROVE  HandoffAgrees'
    BY <1>1 DEF CreateOrder
  <1>2. ASSUME NEW o \in Orders, NEW t \in Clocks, PrepareForPayment(o, t)
        PROVE  HandoffAgrees'
    BY <1>2 DEF PrepareForPayment
  <1>3. ASSUME NEW o \in Orders, NEW t \in Clocks, ExpireObligation(o, t)
        PROVE  HandoffAgrees'
    BY <1>3 DEF ExpireObligation
  <1>4. ASSUME NEW o \in Orders, RecordAttempt(o)
        PROVE  HandoffAgrees'
    BY <1>4 DEF RecordAttempt
  <1>5. ASSUME NEW o \in Orders, CheckoutEnds(o)
        PROVE  HandoffAgrees'
    BY <1>5 DEF CheckoutEnds
  <1>6. ASSUME NEW e \in Events, NEW o \in Orders, NEW type \in Types, IssueEvent(e, o, type)
        PROVE  HandoffAgrees'
    BY <1>6 DEF IssueEvent, EventRows
  <1>7. ASSUME NEW e \in Events, NEW o \in Orders, NEW t \in Clocks, FailPayment(e, o, t)
        PROVE  HandoffAgrees'
    BY <1>7 DEF FailPayment, RecordEvent
  <1>8. ASSUME NEW e \in Events, NEW o \in Orders, NEW t \in Clocks, IgnoreConfirmation(e, o, t)
        PROVE  HandoffAgrees'
    BY <1>8 DEF IgnoreConfirmation, RecordEvent
  <1>9. ASSUME NEW e \in Events, NEW p \in Purchases, NEW t \in Clocks, ConfirmEvaluation(e, p, t)
        PROVE  HandoffAgrees'
    BY <1>9 DEF ConfirmEvaluation, RecordEvent, Pay
  <1>10. ASSUME NEW e \in Events, NEW p \in Purchases, NEW t \in Clocks, ConfirmPerformance(e, p, t)
        PROVE  HandoffAgrees'
    <2> DEFINE o == PerformanceOrder(p)
    <2>1. /\ o \in Orders /\ o[1] = p
          /\ o = IF family[p] = "INSTANT" THEN Initial(p) ELSE Activation(p)
          /\ Opened(o) <=> performance[p] # 0
      BY PerformanceOrderIs
    <2>2. Pay(o, ~Opened(o)) BY <1>10, ConfirmEffect
    <2> HIDE DEF o
    <2>3. /\ order[o] \in {"pending_payment", "fulfilled"}
          /\ order[o] = "fulfilled" <=> performance[p] # 0
          /\ order' = [order EXCEPT ![o] = "fulfilled"] /\ receipts' = receipts \cup {o}
          /\ attempt'[o] # "failed" /\ \A q \in Orders : q # o => attempt'[q] = attempt[q]
          /\ UNCHANGED family
      BY <2>1, <2>2, PayEffect
    <2>4. /\ ~TooLate(o, t) /\ Discharge(p, performance[p] = 0) /\ UNCHANGED <<evaluation, due>>
          /\ performance' = IF performance[p] = 0 THEN [performance EXCEPT ![p] = t]
                                                   ELSE performance
      BY <1>10 DEF ConfirmPerformance, o
    <2>5. t \in Nat /\ t # 0 BY CommerceAssumption DEF Clocks, Times
    <2>6. performance'[p] # 0 /\ \A q \in Purchases : q # p => performance'[q] = performance[q]
      BY <2>4, <2>5
    <2>7. CASE family[p] = "INSTANT" BY <2>1, <2>3, <2>4, <2>5, <2>6, <2>7 DEF Discharge
    <2>8. CASE family[p] # "INSTANT" BY <2>1, <2>3, <2>4, <2>5, <2>6, <2>8 DEF Discharge
    <2> QED BY <2>7, <2>8
  <1>11. ASSUME NEW p \in Purchases, PassOne(p)
        PROVE  HandoffAgrees'
    BY <1>11 DEF PassOne
  <1>12. ASSUME NEW p \in Purchases, PassFlex(p)
        PROVE  HandoffAgrees'
    BY <1>12 DEF PassFlex
  <1>13. ASSUME NEW p \in Purchases, EndEvaluation(p)
        PROVE  HandoffAgrees'
    BY <1>13 DEF EndEvaluation
  <1>14. ASSUME ChangeReadiness
        PROVE  HandoffAgrees'
    BY <1>14 DEF ChangeReadiness
  <1>15. ASSUME Tick
        PROVE  HandoffAgrees'
    BY <1>15 DEF Tick
  <1>16. ASSUME NEW e \in Events, RefuseEvent(e) \/ AnswerDuplicate(e)
        PROVE  HandoffAgrees'
    BY <1>16 DEF RefuseEvent, AnswerDuplicate
  <1> QED BY <1>1, <1>2, <1>3, <1>4, <1>5, <1>6, <1>7, <1>8, <1>9, <1>10,
             <1>11, <1>12, <1>13, <1>14, <1>15, <1>16, Zenon DEF Next

(* What an event adds to what was said.                                     *)
LEMMA SaidAfter ==
  ASSUME NEW e \in Events, NEW o \in Orders, NEW type \in Types, NEW t,
         refused \subseteq recorded, RecordEvent(e, o, type, t), UNCHANGED issued
  PROVE  /\ Said(o, type)' # {}
         /\ \A q \in Orders, s \in Types :
              /\ Said(q, s) \subseteq Said(q, s)'
              /\ q # o \/ s # type => Said(q, s)' = Said(q, s)
  BY DEF RecordEvent, Said

LEMMA ConfirmedSaid ==
  ASSUME NEW e \in Events, NEW o \in Orders, NEW t,
         refused \subseteq recorded, RecordEvent(e, o, "confirmed", t), UNCHANGED issued
  PROVE  /\ \A q \in Orders, s \in Types : Said(q, s) \subseteq Said(q, s)'
         /\ \A q \in Orders : q # o => Said(q, "confirmed")' = Said(q, "confirmed")
  <1>1. "confirmed" \in Types BY DEF Types
  <1> HIDE DEF Said, RecordEvent
  <1> QED BY <1>1, SaidAfter

(* A refused delivery and a duplicate are not among it.                     *)
LEMMA SaidStays ==
  ASSUME NEW e \in Events, RefuseEvent(e) \/ AnswerDuplicate(e)
  PROVE  \A q \in Orders, s \in Types : Said(q, s)' = Said(q, s)
  BY DEF RefuseEvent, AnswerDuplicate, Said

(* An order fails when a failure was recorded.                              *)
LEMMA FailedStep ==
  ASSUME IInv, Next PROVE Failed'
  <1>0. TypeOK /\ Failed BY DEF IInv
  <1> USE <1>0, OrderNames DEF TypeOK, Failed, orders, accounts, handoff, inbox
  <1>1. ASSUME NEW p \in Purchases, NEW f \in Offers, CreateOrder(p, f)
        PROVE  Failed'
    BY <1>1 DEF CreateOrder, Said
  <1>2. ASSUME NEW o \in Orders, NEW t \in Clocks, PrepareForPayment(o, t)
        PROVE  Failed'
    BY <1>2 DEF PrepareForPayment, Said
  <1>3. ASSUME NEW o \in Orders, NEW t \in Clocks, ExpireObligation(o, t)
        PROVE  Failed'
    BY <1>3 DEF ExpireObligation, Said
  <1>4. ASSUME NEW o \in Orders, RecordAttempt(o)
        PROVE  Failed'
    BY <1>4 DEF RecordAttempt, Said
  <1>5. ASSUME NEW o \in Orders, CheckoutEnds(o)
        PROVE  Failed'
    BY <1>5 DEF CheckoutEnds, Said
  <1>6. ASSUME NEW e \in Events, NEW o \in Orders, NEW type \in Types, IssueEvent(e, o, type)
        PROVE  Failed'
    BY <1>6 DEF IssueEvent, EventRows, Said
  <1>7. ASSUME NEW e \in Events, NEW o \in Orders, NEW t \in Clocks, FailPayment(e, o, t)
        PROVE  Failed'
    <2>1. RecordEvent(e, o, "failed", t) /\ UNCHANGED issued BY <1>7 DEF FailPayment
    <2> QED BY <1>7, <2>1, SaidAfter DEF FailPayment, Types
  <1>8. ASSUME NEW e \in Events, NEW o \in Orders, NEW t \in Clocks, IgnoreConfirmation(e, o, t)
        PROVE  Failed'
    <2>1. RecordEvent(e, o, "confirmed", t) /\ UNCHANGED issued BY <1>8 DEF IgnoreConfirmation
    <2> QED BY <1>8, <2>1, SaidAfter DEF IgnoreConfirmation, Types
  <1>9. ASSUME NEW e \in Events, NEW p \in Purchases, NEW t \in Clocks, ConfirmEvaluation(e, p, t)
        PROVE  Failed'
    <2>1. RecordEvent(e, Initial(p), "confirmed", t) /\ UNCHANGED issued BY <1>9 DEF ConfirmEvaluation
    <2> QED BY <1>9, <2>1, SaidAfter DEF ConfirmEvaluation, Pay, Types
  <1>10. ASSUME NEW e \in Events, NEW p \in Purchases, NEW t \in Clocks, ConfirmPerformance(e, p, t)
        PROVE  Failed'
    <2>1. RecordEvent(e, PerformanceOrder(p), "confirmed", t) /\ UNCHANGED issued BY <1>10 DEF ConfirmPerformance
    <2> QED BY <1>10, <2>1, SaidAfter DEF ConfirmPerformance, Pay, PerformanceOrder, Discharge, Clocks, Types
  <1>11. ASSUME NEW p \in Purchases, PassOne(p)
        PROVE  Failed'
    BY <1>11 DEF PassOne, Said
  <1>12. ASSUME NEW p \in Purchases, PassFlex(p)
        PROVE  Failed'
    BY <1>12 DEF PassFlex, Said
  <1>13. ASSUME NEW p \in Purchases, EndEvaluation(p)
        PROVE  Failed'
    BY <1>13 DEF EndEvaluation, Said
  <1>14. ASSUME ChangeReadiness
        PROVE  Failed'
    BY <1>14 DEF ChangeReadiness, Said
  <1>15. ASSUME Tick
        PROVE  Failed'
    BY <1>15 DEF Tick, Said
  <1>16. ASSUME NEW e \in Events, RefuseEvent(e) \/ AnswerDuplicate(e)
        PROVE  Failed'
    BY <1>16, SaidStays DEF RefuseEvent, AnswerDuplicate, Types
  <1> QED BY <1>1, <1>2, <1>3, <1>4, <1>5, <1>6, <1>7, <1>8, <1>9, <1>10,
             <1>11, <1>12, <1>13, <1>14, <1>15, <1>16, Zenon DEF Next

(* What was acknowledged stays honoured.                                    *)
LEMMA HonouredStep ==
  ASSUME IInv, Next PROVE Honoured'
  <1>0. TypeOK /\ OrdersMatchAccounts /\ Honoured /\ HandoffAgrees /\ Known
        /\ Failed /\ \A q \in Purchases : Rows(q)
    BY DEF IInv
  <1> USE <1>0, OrderNames DEF TypeOK, Rows, Known, Honoured, Said, orders, accounts, handoff, inbox
  <1>1. ASSUME NEW p \in Purchases, NEW f \in Offers, CreateOrder(p, f)
        PROVE  Honoured'
    BY <1>1 DEF CreateOrder
  <1>2. ASSUME NEW o \in Orders, NEW t \in Clocks, PrepareForPayment(o, t)
        PROVE  Honoured'
    BY <1>2 DEF PrepareForPayment
  <1>3. ASSUME NEW o \in Orders, NEW t \in Clocks, ExpireObligation(o, t)
        PROVE  Honoured'
    BY <1>3 DEF ExpireObligation
  <1>4. ASSUME NEW o \in Orders, RecordAttempt(o)
        PROVE  Honoured'
    BY <1>4 DEF RecordAttempt
  <1>5. ASSUME NEW o \in Orders, CheckoutEnds(o)
        PROVE  Honoured'
    BY <1>5 DEF CheckoutEnds
  <1>6. ASSUME NEW e \in Events, NEW o \in Orders, NEW type \in Types, IssueEvent(e, o, type)
        PROVE  Honoured'
    BY <1>6 DEF IssueEvent, EventRows
  <1>7. ASSUME NEW e \in Events, NEW o \in Orders, NEW t \in Clocks, FailPayment(e, o, t)
        PROVE  Honoured'
    BY <1>7 DEF FailPayment, RecordEvent
  <1>8. ASSUME NEW e \in Events, NEW o \in Orders, NEW t \in Clocks, IgnoreConfirmation(e, o, t)
        PROVE  Honoured'
    <2>1. RecordEvent(e, o, "confirmed", t) /\ UNCHANGED issued /\ UNCHANGED order
      BY <1>8 DEF IgnoreConfirmation
    <2>2. Said(o, "failed") # {} BY <1>0, <1>8 DEF IgnoreConfirmation, Failed
    <2>3. \A q \in Orders, s \in Types : Said(q, s) \subseteq Said(q, s)'
      BY <2>1, SaidAfter DEF Types
    <2>4. \A q \in Orders : q # o => Said(q, "confirmed")' = Said(q, "confirmed")
      BY <2>1, SaidAfter DEF Types
    <2> HIDE DEF Said
    <2> QED BY <2>1, <2>2, <2>3, <2>4 DEF Types
  <1>9. ASSUME NEW e \in Events, NEW p \in Purchases, NEW t \in Clocks, ConfirmEvaluation(e, p, t)
        PROVE  Honoured'
    <2>1. RecordEvent(e, Initial(p), "confirmed", t) /\ UNCHANGED issued
      BY <1>9 DEF ConfirmEvaluation
    <2>2. Initial(p) \in Orders BY PerformanceOrderIs
    <2>3. order' = [order EXCEPT ![Initial(p)] = "fulfilled"]
      BY <1>9, <2>2, ConfirmEffect, PayEffect
    <2> HIDE DEF Said
    <2>r. refused \subseteq recorded
      OBVIOUS
    <2>4. /\ \A q \in Orders, s \in Types : Said(q, s) \subseteq Said(q, s)'
          /\ \A q \in Orders : q # Initial(p) => Said(q, "confirmed")' = Said(q, "confirmed")
      BY ONLY <1>9, <2>1, <2>2, <2>r, ConfirmedSaid
    <2> QED BY <2>2, <2>3, <2>4 DEF Types
  <1>10. ASSUME NEW e \in Events, NEW p \in Purchases, NEW t \in Clocks, ConfirmPerformance(e, p, t)
        PROVE  Honoured'
    <2>1. RecordEvent(e, PerformanceOrder(p), "confirmed", t) /\ UNCHANGED issued
      BY <1>10 DEF ConfirmPerformance
    <2>2. PerformanceOrder(p) \in Orders BY PerformanceOrderIs
    <2>3. order' = [order EXCEPT ![PerformanceOrder(p)] = "fulfilled"]
      BY <1>10, <2>2, ConfirmEffect, PayEffect
    <2> HIDE DEF Said
    <2>r. refused \subseteq recorded
      OBVIOUS
    <2>4. /\ \A q \in Orders, s \in Types : Said(q, s) \subseteq Said(q, s)'
          /\ \A q \in Orders : q # PerformanceOrder(p) => Said(q, "confirmed")' = Said(q, "confirmed")
      BY ONLY <1>10, <2>1, <2>2, <2>r, ConfirmedSaid
    <2> QED BY <2>2, <2>3, <2>4 DEF Types
  <1>11. ASSUME NEW p \in Purchases, PassOne(p)
        PROVE  Honoured'
    BY <1>11 DEF PassOne
  <1>12. ASSUME NEW p \in Purchases, PassFlex(p)
        PROVE  Honoured'
    <2>1. \A q \in Orders : Said(q, "confirmed")' = Said(q, "confirmed")
                         /\ Said(q, "failed")' = Said(q, "failed")
      BY <1>12 DEF PassFlex
    <2>2. \A q \in Orders : order[q] # "none" => order'[q] = order[q]
      BY <1>12 DEF PassFlex
    <2>3. \A q \in Orders : order[q] = "fulfilled" => order'[q] = "fulfilled"
      BY <2>2
    <2> HIDE DEF Said
    <2> QED BY <2>1, <2>3
  <1>13. ASSUME NEW p \in Purchases, EndEvaluation(p)
        PROVE  Honoured'
    BY <1>13 DEF EndEvaluation
  <1>14. ASSUME ChangeReadiness
        PROVE  Honoured'
    BY <1>14 DEF ChangeReadiness
  <1>15. ASSUME Tick
        PROVE  Honoured'
    BY <1>15 DEF Tick
  <1>16. ASSUME NEW e \in Events, RefuseEvent(e) \/ AnswerDuplicate(e)
        PROVE  Honoured'
    BY <1>16, SaidStays DEF RefuseEvent, AnswerDuplicate, Types
  <1> QED BY <1>1, <1>2, <1>3, <1>4, <1>5, <1>6, <1>7, <1>8, <1>9, <1>10,
             <1>11, <1>12, <1>13, <1>14, <1>15, <1>16, Zenon DEF Next

-----------------------------------------------------------------------------
(* The theorems.                                                            *)

(* The invariant holds at the start.                                        *)
LEMMA Initially ==
  ASSUME Init PROVE IInv
  <1>1. TypeOK BY CommerceAssumption DEF Init, TypeOK, Times
  <1>2. \A q \in Purchases : Rows(q) BY OrderNames DEF Init, Rows
  <1>3. OrdersMatchAccounts BY DEF Init, OrdersMatchAccounts
  <1>4. Honoured /\ Failed BY DEF Init, Honoured, Failed, Said
  <1>5. HandoffAgrees /\ Known BY DEF Init, HandoffAgrees, Known
  <1> QED BY <1>1, <1>2, <1>3, <1>4, <1>5 DEF IInv

(* Orders, accounts, obligations and events together, for any purchases,    *)
(* events, windows and clocks.                                              *)
THEOREM CommerceInvariant == Spec => []IInv
  <1>1. Init => IInv BY Initially
  <1>2. IInv /\ [Next]_vars => IInv'
    <2>1. ASSUME IInv, Next PROVE IInv'
      <3>1. TypeOK' BY <2>1, TypeStep DEF IInv
      <3> QED BY <2>1, <3>1, RowsStep, KnownStep, OrdersStep, HandoffStep, FailedStep,
                 HonouredStep DEF IInv
    <2>2. ASSUME IInv, UNCHANGED vars PROVE IInv'
      BY <2>2 DEF IInv, vars, orders, accounts, handoff, inbox, TypeOK, OrdersMatchAccounts, Opened,
         PerformanceOrder, Honoured, Said, HandoffAgrees, Known, Failed, Rows
    <2> QED BY <2>1, <2>2
  <1> QED BY <1>1, <1>2, PTL DEF Spec

(* Every variable of the purchases keeps its type (TypeOK).                 *)
THEOREM TypeInvariant == Spec => []TypeOK
  <1>1. IInv => TypeOK BY DEF IInv
  <1> QED BY <1>1, CommerceInvariant, PTL

(* An order is fulfilled exactly when its account is open and its receipt   *)
(* written, and no order is ever left merely paid.                          *)
THEOREM OrdersAgree == Spec => []OrdersMatchAccounts
  <1>1. IInv => OrdersMatchAccounts BY DEF IInv
  <1> QED BY <1>1, CommerceInvariant, PTL

(* A confirmation that was answered with success has fulfilled its order,   *)
(* or the same order had an accepted failure, or the event's id had been    *)
(* taken by a refused delivery, whatever is repeated, reordered or rolled   *)
(* back.                                                                    *)
THEOREM PaymentsAreHonoured == Spec => []AcknowledgedIsHonoured
  <1>1. ASSUME TypeOK, Honoured PROVE AcknowledgedIsHonoured
    <2> SUFFICES ASSUME NEW e \in acknowledged \ refused, issued[e].type = "confirmed"
                 PROVE  \/ order[issued[e].order] = "fulfilled"
                        \/ Said(issued[e].order, "failed") # {}
      BY DEF AcknowledgedIsHonoured
    <2>1. e \in recorded \ refused /\ issued[e].order \in Orders
      BY <1>1 DEF TypeOK, EventRows
    <2>2. e \in Said(issued[e].order, "confirmed") BY <2>1 DEF Said
    <2> QED BY <1>1, <2>1, <2>2 DEF Honoured
  <1>2. IInv => AcknowledgedIsHonoured BY <1>1 DEF IInv
  <1> QED BY <1>2, CommerceInvariant, PTL

(* An obligation still due has no Performance account, and none is opened   *)
(* for a payment after the deadline.                                        *)
THEOREM HandoffIsKept == Spec => []HandoffAgrees
  <1>1. IInv => HandoffAgrees BY DEF IInv
  <1> QED BY <1>1, CommerceInvariant, PTL

-----------------------------------------------------------------------------
(* How often an order has failed.                                           *)

Failures(o) == reopened[o] + (IF order[o] = "payment_failed" THEN 1 ELSE 0)
Counted == IsFiniteSet(recorded) /\ EventsCountOnce

(* A step that fails no order, and forgets no event.                        *)
FailsNone ==
  /\ \A q \in Orders : Failures(q)' = Failures(q)
  /\ \A q \in Orders : Said(q, "failed") \subseteq Said(q, "failed")'
  /\ recorded' = recorded \/ \E e \in Events : recorded' = recorded \cup {e}

(* Only a failure event that was not recorded before fails an order.        *)
LEMMA WhatFails ==
  ASSUME IInv, Next
  PROVE  FailsNone \/ \E e \in Events, o \in Orders, t \in Clocks : FailPayment(e, o, t)
  <1>0. TypeOK /\ OrdersMatchAccounts BY DEF IInv
  <1> USE <1>0, OrderNames DEF TypeOK, Failures, orders, accounts, handoff, inbox
  <1>1. ASSUME NEW p \in Purchases, NEW f \in Offers, CreateOrder(p, f)
        PROVE  FailsNone
    <2>1. \A q \in Orders : Failures(q)' = Failures(q)
      BY <1>1 DEF CreateOrder
    <2> QED BY <1>1, <2>1 DEF CreateOrder, FailsNone, Said
  <1>2. ASSUME NEW o \in Orders, NEW t \in Clocks, PrepareForPayment(o, t)
        PROVE  FailsNone
    <2>1. \A q \in Orders : Failures(q)' = Failures(q)
      BY <1>2, SMT DEF PrepareForPayment
    <2> QED BY <1>2, <2>1 DEF PrepareForPayment, FailsNone, Said
  <1>3. ASSUME NEW o \in Orders, NEW t \in Clocks, ExpireObligation(o, t)
        PROVE  FailsNone
    BY <1>3 DEF ExpireObligation, FailsNone, Said
  <1>4. ASSUME NEW o \in Orders, RecordAttempt(o)
        PROVE  FailsNone
    BY <1>4 DEF RecordAttempt, FailsNone, Said
  <1>5. ASSUME NEW o \in Orders, CheckoutEnds(o)
        PROVE  FailsNone
    BY <1>5 DEF CheckoutEnds, FailsNone, Said
  <1>6. ASSUME NEW e \in Events, NEW o \in Orders, NEW type \in Types, IssueEvent(e, o, type)
        PROVE  FailsNone
    <2>1. \A q \in Orders : Failures(q)' = Failures(q)
      BY <1>6 DEF IssueEvent
    <2> QED BY <1>6, <2>1 DEF IssueEvent, FailsNone, Said
  <1>7. ASSUME NEW e \in Events, NEW o \in Orders, NEW t \in Clocks, IgnoreConfirmation(e, o, t)
        PROVE  FailsNone
    <2>1. RecordEvent(e, o, "confirmed", t) /\ UNCHANGED issued BY <1>7 DEF IgnoreConfirmation
    <2> QED BY <1>7, <2>1, SaidAfter DEF IgnoreConfirmation, RecordEvent, FailsNone, Types
  <1>8. ASSUME NEW e \in Events, NEW p \in Purchases, NEW t \in Clocks, ConfirmEvaluation(e, p, t)
        PROVE  FailsNone
    <2>1. RecordEvent(e, Initial(p), "confirmed", t) /\ UNCHANGED issued
      BY <1>8 DEF ConfirmEvaluation
    <2>2. \A q \in Orders : Failures(q)' = Failures(q)
      BY <1>8, ConfirmEffect, PayEffect
    <2> QED BY <2>1, <2>2, SaidAfter DEF RecordEvent, FailsNone, Types
  <1>9. ASSUME NEW e \in Events, NEW p \in Purchases, NEW t \in Clocks, ConfirmPerformance(e, p, t)
        PROVE  FailsNone
    <2>1. RecordEvent(e, PerformanceOrder(p), "confirmed", t) /\ UNCHANGED issued
      BY <1>9 DEF ConfirmPerformance
    <2>2. \A q \in Orders : Failures(q)' = Failures(q)
      BY <1>9, ConfirmEffect, PayEffect, PerformanceOrderIs
    <2> QED BY <2>1, <2>2, SaidAfter, PerformanceOrderIs DEF RecordEvent, FailsNone, Types
  <1>10. ASSUME NEW p \in Purchases, PassOne(p)
        PROVE  FailsNone
    BY <1>10 DEF PassOne, FailsNone, Said
  <1>11. ASSUME NEW p \in Purchases, PassFlex(p)
        PROVE  FailsNone
    <2>1. \A q \in Orders : Failures(q)' = Failures(q)
      BY <1>11 DEF PassFlex
    <2> QED BY <1>11, <2>1 DEF PassFlex, FailsNone, Said
  <1>12. ASSUME NEW p \in Purchases, EndEvaluation(p)
        PROVE  FailsNone
    BY <1>12 DEF EndEvaluation, FailsNone, Said
  <1>13. ASSUME ChangeReadiness
        PROVE  FailsNone
    BY <1>13 DEF ChangeReadiness, FailsNone, Said
  <1>14. ASSUME Tick
        PROVE  FailsNone
    BY <1>14 DEF Tick, FailsNone, Said
  <1>15. ASSUME NEW e \in Events, RefuseEvent(e) \/ AnswerDuplicate(e)
        PROVE  FailsNone
    <2>1. \A q \in Orders : Failures(q)' = Failures(q)
      BY <1>15 DEF RefuseEvent, AnswerDuplicate
    <2> QED BY <1>15, <2>1, SaidStays DEF RefuseEvent, AnswerDuplicate, FailsNone, Types
  <1> QED BY <1>1, <1>2, <1>3, <1>4, <1>5, <1>6, <1>7,
             <1>8, <1>9, <1>10, <1>11, <1>12, <1>13, <1>14, <1>15, Zenon DEF Next

(* A failure event that fails its order is one more event, as it is one     *)
(* failure more.                                                            *)
LEMMA CountStep ==
  ASSUME IInv, Counted, Next PROVE Counted'
  <1>0. TypeOK /\ IsFiniteSet(recorded) BY DEF IInv, Counted
  <1>1. \A q \in Orders : /\ IsFiniteSet(Said(q, "failed"))
                          /\ Cardinality(Said(q, "failed")) \in Nat
                          /\ Failures(q) \in Nat
                          /\ Failures(q) <= Cardinality(Said(q, "failed"))
    <2> TAKE q \in Orders
    <2>1. Said(q, "failed") \in SUBSET recorded BY DEF Said
    <2>2. IsFiniteSet(Said(q, "failed")) BY <1>0, <2>1, FS_Subset
    <2>3. Failures(q) \in Nat BY <1>0 DEF TypeOK, Failures
    <2>4. Failures(q) <= Cardinality(Said(q, "failed"))
      BY DEF Counted, EventsCountOnce, Failures
    <2> QED BY <2>2, <2>3, <2>4, FS_CardinalityType
  <1>2. CASE FailsNone
    <2>1. IsFiniteSet(recorded') BY <1>0, <1>2, FS_AddElement DEF FailsNone
    <2>2. ASSUME NEW q \in Orders
          PROVE  Failures(q)' <= Cardinality(Said(q, "failed"))'
      <3>1. Said(q, "failed")' \in SUBSET (recorded') BY DEF Said
      <3>2. IsFiniteSet(Said(q, "failed")') BY <2>1, <3>1, FS_Subset
      <3>3. Said(q, "failed") \in SUBSET (Said(q, "failed")') BY <1>2 DEF FailsNone
      <3>4. Cardinality(Said(q, "failed")) <= Cardinality(Said(q, "failed")')
        BY <3>2, <3>3, FS_Subset
      <3>5. Cardinality(Said(q, "failed")') \in Nat BY <3>2, FS_CardinalityType
      <3>6. Failures(q)' = Failures(q) BY <1>2 DEF FailsNone
      <3> QED BY <1>1, <3>4, <3>5, <3>6
    <2> QED BY <2>1, <2>2 DEF Counted, EventsCountOnce, Failures
  <1>3. ASSUME NEW e \in Events, NEW o \in Orders, NEW t \in Clocks, FailPayment(e, o, t)
        PROVE  Counted'
    <2>1. RecordEvent(e, o, "failed", t) /\ UNCHANGED <<issued, reopened>>
      BY <1>3 DEF FailPayment
    <2>2. IsFiniteSet(recorded') BY <1>0, <2>1, FS_AddElement DEF RecordEvent
    <2>3. Said(o, "failed")' = Said(o, "failed") \cup {e} /\ e \notin Said(o, "failed")
      BY <1>0, <2>1 DEF TypeOK, RecordEvent, Said
    <2>4. Cardinality(Said(o, "failed")') = Cardinality(Said(o, "failed")) + 1
      BY <1>1, <2>3, FS_AddElement
    <2>5. Failures(o)' <= Failures(o) + 1
      BY <1>0, <1>3, <2>1, SMT DEF FailPayment, Failures, TypeOK
    <2>6. \A q \in Orders : q # o => /\ Said(q, "failed")' = Said(q, "failed")
                                    /\ Failures(q)' = Failures(q)
      BY <1>0, <1>3, <2>1, SaidAfter DEF FailPayment, Failures, TypeOK, Types
    <2>7. Failures(o)' \in Nat
      BY <1>0, <1>3, <2>1, SMT DEF FailPayment, Failures, TypeOK
    <2>8. Failures(o)' <= Cardinality(Said(o, "failed"))'
      BY <1>1, <2>4, <2>5, <2>7
    <2>9. \A q \in Orders : Failures(q)' <= Cardinality(Said(q, "failed"))'
      BY <1>1, <2>6, <2>8
    <2> QED BY <2>2, <2>9 DEF Counted, EventsCountOnce, Failures
  <1> QED BY <1>2, <1>3, WhatFails

(* One failure event fails an order once: an order is never made payable    *)
(* again more often than the provider has said that its payment failed,     *)
(* however often the events are delivered.                                  *)
THEOREM FailuresAreCounted == Spec => []EventsCountOnce
  <1>1. Init => Counted
    <2> SUFFICES ASSUME Init PROVE Counted
      OBVIOUS
    <2>1. IsFiniteSet(recorded) BY FS_EmptySet DEF Init
    <2>2. \A o \in Orders : Said(o, "failed") = {} /\ reopened[o] = 0 /\ order[o] = "none"
      BY DEF Init, Said
    <2> QED BY <2>1, <2>2, FS_EmptySet DEF Counted, EventsCountOnce
  <1>2. IInv /\ Counted /\ [Next]_vars => Counted'
    <2>1. ASSUME IInv, Counted, UNCHANGED vars PROVE Counted'
      BY <2>1 DEF Counted, EventsCountOnce, Said, vars, orders, inbox
    <2> QED BY <2>1, CountStep
  <1>3. Counted => EventsCountOnce BY DEF Counted
  <1> QED BY <1>1, <1>2, <1>3, CommerceInvariant, PTL DEF Spec
=============================================================================

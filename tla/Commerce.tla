------------------------------ MODULE Commerce ------------------------------
(***************************************************************************)
(* What one trader buys: the purchase orders and their checkouts, the      *)
(* provider's payment events (commerce.ts, payment-events.ts), and the     *)
(* accounts that a payment activates (activation.ts, v2-provisioning.ts).  *)
(*                                                                         *)
(* A ONE purchase is an evaluation whose pass opens the Performance        *)
(* account.  The pass of a FLEX evaluation creates an obligation and a     *)
(* second order, to be paid before a deadline.  An INSTANT purchase is a   *)
(* Performance account.                                                    *)
(*                                                                         *)
(* An event is handled in one transaction under the order's row lock, from *)
(* its record to the account it opens: when anything fails nothing of it   *)
(* remains, and the provider may deliver it again.  The transaction reads  *)
(* its clock before it has the lock.  Events are delivered late, more than *)
(* once, in any order or never.  A delivery that is not signed, that names *)
(* no order there is or that has another amount is refused and yet         *)
(* recorded: a later delivery of the same id is a duplicate.               *)
(***************************************************************************)
EXTENDS Naturals, FiniteSets

CONSTANTS Purchases,
          Offers,   \* the product families on sale
          Events,   \* the ids of payment events
          None,
          Window,   \* the time to pay an activation
          Wait,     \* bound: the longest wait for a row lock
          MaxTime   \* bound: the clock

ASSUME CommerceAssumption ==
  /\ Offers \subseteq {"ONE", "FLEX", "INSTANT"}
  /\ Window \in Nat /\ Wait \in Nat /\ MaxTime \in Nat \ {0}

VARIABLES family,      \* the product family of a purchase
          order,       \* the status of each row of app.purchase_orders
          attempt,     \* the status of each row of app.payment_attempts
          receipts,    \* the orders with a row in app.receipts
          evaluation,  \* the Evaluation account of a purchase
          performance, \* when its Performance account was activated, or 0
          obligation,  \* app.flex_activation_obligations
          due,         \* the deadline of the activation order
          issued,      \* what the provider says, by event id
          recorded,    \* the event ids in app.payment_events
          refused,     \* those of a delivery that was refused
          acknowledged,\* the issued events that were answered with success
          opening,     \* checkouts that have yet to record their attempt
          reopened,    \* how often a failed order was made payable again
          ready,       \* the policies may be activated
          now

orders == <<family, order, attempt, receipts, reopened>>
accounts == <<evaluation, performance>>
handoff == <<obligation, due>>
inbox == <<recorded, refused, acknowledged>>
vars == <<orders, accounts, handoff, issued, inbox, opening, ready, now>>

Kinds == {"initial_purchase", "flex_activation"}
Orders == Purchases \X Kinds
Initial(p) == <<p, "initial_purchase">>
Activation(p) == <<p, "flex_activation">>
Times == 1..MaxTime
Types == {"confirmed", "failed"}
EventRows == [order: Orders, type: Types, at: Times]

TypeOK ==
  /\ family \in [Purchases -> Offers \cup {"none"}]
  /\ order \in [Orders -> {"none", "pending_payment", "payment_failed", "paid", "fulfilled"}]
  /\ attempt \in [Orders -> {"none", "initiated", "confirmed", "failed"}]
  /\ receipts \subseteq Orders
  /\ evaluation \in [Purchases -> {"none", "active", "passed", "ended"}]
  /\ performance \in [Purchases -> {0} \cup Times]
  /\ obligation \in [Purchases -> {"none", "activation_due", "paid", "fulfilled", "expired"}]
  /\ due \in [Purchases -> Nat]
  /\ issued \in [Events -> EventRows \cup {None}]
  /\ recorded \subseteq Events /\ refused \subseteq recorded
  /\ recorded \ refused \subseteq acknowledged
  /\ acknowledged \subseteq {e \in recorded : issued[e] # None}
  /\ opening \subseteq Orders
  /\ reopened \in [Orders -> Nat]
  /\ ready \in BOOLEAN /\ now \in Times

Init ==
  /\ family = [p \in Purchases |-> "none"]
  /\ order = [o \in Orders |-> "none"] /\ attempt = [o \in Orders |-> "none"]
  /\ receipts = {} /\ reopened = [o \in Orders |-> 0]
  /\ evaluation = [p \in Purchases |-> "none"]
  /\ performance = [p \in Purchases |-> 0]
  /\ obligation = [p \in Purchases |-> "none"] /\ due = [p \in Purchases |-> 0]
  /\ issued = [e \in Events |-> None]
  /\ recorded = {} /\ refused = {} /\ acknowledged = {}
  /\ opening = {} /\ ready = TRUE /\ now = 1

-----------------------------------------------------------------------------
(* Orders and checkouts.                                                    *)

(* A request that is sent again finds its order by the idempotency key.     *)
CreateOrder(p, offer) ==
  /\ order[Initial(p)] = "none" /\ ready
  /\ family' = [family EXCEPT ![p] = offer]
  /\ order' = [order EXCEPT ![Initial(p)] = "pending_payment"]
  /\ UNCHANGED <<attempt, receipts, reopened, accounts, handoff, issued, inbox,
                 opening, ready, now>>

TooLate(o, t) == o[2] = "flex_activation" /\ t > due[o[1]]

(* The clocks of a transaction that has waited for the row.                 *)
Clocks == {t \in Times : t <= now /\ now <= t + Wait}

(* preparePurchaseOrderForPayment: a failed order is payable again.         *)
PrepareForPayment(o, t) ==
  /\ order[o] \in {"pending_payment", "payment_failed"} /\ ~TooLate(o, t)
  /\ order' = [order EXCEPT ![o] = "pending_payment"]
  /\ reopened' = IF order[o] = "payment_failed" THEN [reopened EXCEPT ![o] = @ + 1]
                                                ELSE reopened
  /\ opening' = opening \cup {o}
  /\ UNCHANGED <<family, attempt, receipts, accounts, handoff, issued, inbox, ready, now>>

(* After the deadline it marks the obligation instead.                      *)
ExpireObligation(o, t) ==
  /\ order[o] # "none" /\ TooLate(o, t) /\ obligation[o[1]] = "activation_due"
  /\ obligation' = [obligation EXCEPT ![o[1]] = "expired"]
  /\ UNCHANGED <<orders, accounts, due, issued, inbox, opening, ready, now>>

(* recordPaymentAttempt, a transaction of its own: one row per order.       *)
RecordAttempt(o) ==
  /\ o \in opening /\ opening' = opening \ {o}
  /\ attempt' = [attempt EXCEPT ![o] = "initiated"]
  /\ UNCHANGED <<family, order, receipts, reopened, accounts, handoff, issued, inbox,
                 ready, now>>

CheckoutEnds(o) ==
  /\ o \in opening /\ opening' = opening \ {o}
  /\ UNCHANGED <<orders, accounts, handoff, issued, inbox, ready, now>>

(* The provider's sandbox signs an event for any order there is.            *)
IssueEvent(e, o, type) ==
  /\ issued[e] = None /\ order[o] # "none"
  /\ issued' = [issued EXCEPT ![e] = [order |-> o, type |-> type, at |-> now]]
  /\ UNCHANGED <<orders, accounts, handoff, inbox, opening, ready, now>>

-----------------------------------------------------------------------------
(* The payment events.                                                      *)

(* A wrong RecordEvent: an event that is delivered again is handled again.  *)
RecordAgain(e, o, type, t) ==
  /\ issued[e] # None
  /\ issued[e].order = o /\ issued[e].type = type /\ issued[e].at <= t
  /\ recorded' = recorded \cup {e} /\ acknowledged' = acknowledged \cup {e}
  /\ UNCHANGED refused

(* recordPaymentEvent: an event id is recorded once, and what the event     *)
(* then does is answered with success.                                      *)
RecordEvent(e, o, type, t) ==
  /\ issued[e] # None /\ e \notin recorded
  /\ issued[e].order = o /\ issued[e].type = type /\ issued[e].at <= t
  /\ recorded' = recorded \cup {e} /\ acknowledged' = acknowledged \cup {e}
  /\ UNCHANGED refused

(* invalid_signature, unknown_order, amount_mismatch: the id is recorded    *)
(* before the delivery is checked, whether the provider issued it or not.   *)
RefuseEvent(e) ==
  /\ e \notin recorded
  /\ recorded' = recorded \cup {e} /\ refused' = refused \cup {e}
  /\ UNCHANGED <<orders, accounts, handoff, issued, acknowledged, opening, ready, now>>

(* duplicate: success, whatever became of the id when it was recorded.      *)
AnswerDuplicate(e) ==
  /\ issued[e] # None /\ e \in recorded
  /\ acknowledged' = acknowledged \cup {e}
  /\ UNCHANGED <<orders, accounts, handoff, issued, recorded, refused, opening, ready, now>>

FailPayment(e, o, t) ==
  /\ RecordEvent(e, o, "failed", t)
  /\ order' = [order EXCEPT ![o] = IF @ = "pending_payment" THEN "payment_failed" ELSE @]
  /\ attempt' = [attempt EXCEPT ![o] =
                   IF order[o] = "pending_payment" /\ @ # "none" THEN "failed" ELSE @]
  /\ UNCHANGED <<family, receipts, reopened, accounts, handoff, issued, opening, ready, now>>

(* A wrong IgnoreConfirmation: the event is kept when activation fails.     *)
IgnoreBlocked(e, o, t) ==
  /\ RecordEvent(e, o, "confirmed", t)
  /\ order[o] = "payment_failed" \/ ~ready
  /\ UNCHANGED <<orders, accounts, handoff, issued, opening, ready, now>>

(* ignored_order_state: the trader paid for an order that has failed.       *)
IgnoreConfirmation(e, o, t) ==
  /\ RecordEvent(e, o, "confirmed", t)
  /\ order[o] = "payment_failed"
  /\ UNCHANGED <<orders, accounts, handoff, issued, opening, ready, now>>

(* A wrong Pay: opening the account does not fulfil the order.              *)
PayUnfulfilled(o, created) ==
  /\ order[o] \in {"pending_payment", "paid", "fulfilled"}
  /\ order' = [order EXCEPT ![o] = IF @ = "pending_payment" THEN "paid" ELSE @]
  /\ attempt' = [attempt EXCEPT ![o] =
                   IF order[o] = "pending_payment" /\ @ # "none" THEN "confirmed" ELSE @]
  /\ receipts' = IF order[o] = "pending_payment" THEN receipts \cup {o} ELSE receipts
  /\ UNCHANGED <<family, reopened>>

(* The order is paid, and fulfilled when its account is opened for it.      *)
Pay(o, created) ==
  /\ order[o] \in {"pending_payment", "paid", "fulfilled"}
  /\ order' = [order EXCEPT ![o] = IF created THEN "fulfilled"
                                   ELSE IF @ = "pending_payment" THEN "paid" ELSE @]
  /\ attempt' = [attempt EXCEPT ![o] =
                   IF order[o] = "pending_payment" /\ @ # "none" THEN "confirmed" ELSE @]
  /\ receipts' = IF order[o] = "pending_payment" THEN receipts \cup {o} ELSE receipts
  /\ UNCHANGED <<family, reopened>>

(* activateEvaluationAccountInTransaction.                                  *)
ConfirmEvaluation(e, p, t) ==
  LET created == evaluation[p] = "none" IN
  /\ family[p] # "INSTANT"
  /\ RecordEvent(e, Initial(p), "confirmed", t)
  /\ created => ready
  /\ Pay(Initial(p), created)
  /\ evaluation' = IF created THEN [evaluation EXCEPT ![p] = "active"] ELSE evaluation
  /\ UNCHANGED <<performance, handoff, issued, opening, ready, now>>

PerformanceOrder(p) == IF family[p] = "INSTANT" THEN Initial(p) ELSE Activation(p)

(* A wrong Discharge: the obligation is not marked paid first.              *)
DischargePaid(p, created) ==
  obligation' = [obligation EXCEPT ![p] = IF @ = "paid" /\ created THEN "fulfilled" ELSE @]

(* The obligation of an activation order that is paid for.                  *)
Discharge(p, created) ==
  obligation' = [obligation EXCEPT ![p] =
    IF @ \in {"activation_due", "paid"} THEN IF created THEN "fulfilled" ELSE "paid" ELSE @]

(* activateV2PerformanceFromOrderInTransaction.                             *)
ConfirmPerformance(e, p, t) ==
  LET o == PerformanceOrder(p)
      created == performance[p] = 0
  IN
  /\ RecordEvent(e, o, "confirmed", t)
  /\ ~TooLate(o, t) /\ ready
  /\ Pay(o, created)
  /\ performance' = IF created THEN [performance EXCEPT ![p] = t] ELSE performance
  /\ Discharge(p, created)
  /\ UNCHANGED <<evaluation, due, issued, opening, ready, now>>

-----------------------------------------------------------------------------
(* The evaluation is passed, or ends otherwise; the world moves on.         *)

(* A ONE pass opens the Performance account in the same transaction.        *)
PassOne(p) ==
  /\ family[p] = "ONE" /\ evaluation[p] = "active" /\ ready
  /\ evaluation' = [evaluation EXCEPT ![p] = "passed"]
  /\ performance' = IF performance[p] = 0 THEN [performance EXCEPT ![p] = now] ELSE performance
  /\ UNCHANGED <<orders, handoff, issued, inbox, opening, ready, now>>

(* createFlexActivationObligationInTransaction.                             *)
PassFlex(p) ==
  /\ family[p] = "FLEX" /\ evaluation[p] = "active"
  /\ evaluation' = [evaluation EXCEPT ![p] = "passed"]
  /\ obligation' = [obligation EXCEPT ![p] = IF @ = "none" THEN "activation_due" ELSE @]
  /\ due' = [due EXCEPT ![p] = IF obligation[p] = "none" THEN now + Window ELSE @]
  /\ order' = [order EXCEPT ![Activation(p)] = IF @ = "none" THEN "pending_payment" ELSE @]
  /\ UNCHANGED <<family, attempt, receipts, reopened, performance, issued, inbox, opening,
                 ready, now>>

EndEvaluation(p) ==
  /\ evaluation[p] = "active"
  /\ evaluation' = [evaluation EXCEPT ![p] = "ended"]
  /\ UNCHANGED <<orders, performance, handoff, issued, inbox, opening, ready, now>>

(* A calendar or a calibration is published or withdrawn.                   *)
ChangeReadiness ==
  /\ ready' = ~ready
  /\ UNCHANGED <<orders, accounts, handoff, issued, inbox, opening, now>>

Tick ==
  /\ now < MaxTime /\ now' = now + 1
  /\ UNCHANGED <<orders, accounts, handoff, issued, inbox, opening, ready>>

-----------------------------------------------------------------------------

Next ==
  \/ \E p \in Purchases : (\E f \in Offers : CreateOrder(p, f)) \/ PassOne(p) \/ PassFlex(p) \/ EndEvaluation(p)
  \/ \E o \in Orders :
       \/ \E t \in Clocks : PrepareForPayment(o, t) \/ ExpireObligation(o, t)
       \/ RecordAttempt(o) \/ CheckoutEnds(o)
  \/ \E e \in Events :
       \/ RefuseEvent(e) \/ AnswerDuplicate(e)
       \/ \E o \in Orders :
            \/ \E type \in Types : IssueEvent(e, o, type)
            \/ \E t \in Clocks : FailPayment(e, o, t) \/ IgnoreConfirmation(e, o, t)
       \/ \E p \in Purchases, t \in Clocks :
            ConfirmEvaluation(e, p, t) \/ ConfirmPerformance(e, p, t)
  \/ ChangeReadiness \/ Tick

Spec == Init /\ [][Next]_vars

-----------------------------------------------------------------------------
(* The events of an order that were accepted.                               *)
Said(o, type) ==
  {e \in recorded \ refused : issued[e].order = o /\ issued[e].type = type}

(* The account that an order pays for.                                      *)
Opened(o) == IF o = PerformanceOrder(o[1]) THEN performance[o[1]] # 0
                                           ELSE evaluation[o[1]] # "none"

(* Between transactions an order is fulfilled exactly when its account is   *)
(* open and its receipt written, never merely paid, and the attempts never  *)
(* say otherwise.                                                           *)
OrdersMatchAccounts ==
  \A o \in Orders :
    /\ order[o] # "paid"
    /\ order[o] = "fulfilled" <=> o \in receipts
    /\ order[o] # "none" => (order[o] = "fulfilled" <=> Opened(o))
    /\ attempt[o] = "confirmed" => order[o] = "fulfilled"
    /\ attempt[o] = "failed" => order[o] # "fulfilled"

(* A confirmation that was answered with success is honoured: its order is  *)
(* fulfilled, unless a failure of the same order had been accepted, too, or *)
(* the id had been taken by a delivery that was refused.                    *)
AcknowledgedIsHonoured ==
  \A e \in acknowledged \ refused :
    issued[e].type = "confirmed" =>
      order[issued[e].order] = "fulfilled" \/ Said(issued[e].order, "failed") # {}

(* Nobody is asked to pay for an activation that has happened, and none     *)
(* happens for a payment that came after the deadline.                      *)
HandoffAgrees ==
  \A p \in Purchases :
    family[p] = "FLEX" =>
      /\ obligation[p] = "fulfilled" => performance[p] # 0
      /\ performance[p] # 0 => /\ obligation[p] \in {"fulfilled", "expired"}
                               /\ performance[p] <= due[p]

(* One failure event fails an order once, however often it is delivered.    *)
EventsCountOnce ==
  \A o \in Orders :
    reopened[o] + (IF order[o] = "payment_failed" THEN 1 ELSE 0)
      <= Cardinality(Said(o, "failed"))
=============================================================================

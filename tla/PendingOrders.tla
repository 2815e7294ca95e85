---------------------------- MODULE PendingOrders ----------------------------
(***************************************************************************)
(* The pending orders of one account on one symbol                         *)
(* (packages/database/src/pending-orders.ts): a trader who creates, edits  *)
(* and cancels them, and the scans that the leader's ticks start.          *)
(*                                                                         *)
(* Everything that locks the account's row is one step, but for an edit,   *)
(* which reads the order under that lock and writes it later: a            *)
(* cancellation takes no account lock and may commit in between.  A scan   *)
(* is started by its tick, reads its candidates without a lock and then    *)
(* runs one transaction for each; scans of successive ticks overlap.       *)
(*                                                                         *)
(* All orders buy, bid and ask are one price, and what risk.ts makes of    *)
(* the account after a fill is any verdict it may reach (AccountTrading    *)
(* has the amounts).  A rejected creation leaves no row.                   *)
(***************************************************************************)
EXTENDS Integers, FiniteSets, FiniteSetsExt, RiskVerdicts

CONSTANTS Orders,        \* the pending orders a trader may create
          Kind,          \* buy_limit or buy_stop, of an order
          Prices,
          Lots,
          Slippage,      \* what a fill adds to the price
          ExposureLimit, \* account_exposure_limits of the symbol's bucket
          Scans,         \* bound: the scans in flight at a time
          MaxVersion     \* bound: the edits of an order

ASSUME PendingAssumption ==
  /\ Kind \in [Orders -> {"buy_limit", "buy_stop"}]
  /\ Prices \subseteq Int /\ Lots \subseteq Nat \ {0}
  /\ Slippage \in Nat /\ ExposureLimit \in Nat
  /\ MaxVersion \in Nat

VARIABLES status,   \* the account's status
          pending,  \* app.pending_orders
          orders,   \* the trade order with key pending-order:<id>
          held,     \* the open lots of the position an order opened
          other,    \* the open lots of the bucket opened by market orders
          edit,     \* the modification that holds the account's row
          scan,     \* the scans in flight
          jammed    \* whether scans of the symbol throw before their end

vars == <<status, pending, orders, held, other, edit, scan, jammed>>

OrderStatuses == {"none", "active", "filled", "failed", "cancelled"}
Settled == {"filled", "failed", "cancelled"}

Edits == [id: Orders, version: Nat, lots: Lots, trigger: Prices]
Rows == [id: Orders, trigger: Int]
Idle == [st |-> "idle", price |-> 0, rows |-> {}]

TypeOK ==
  /\ status \in Statuses
  /\ pending \in [Orders -> [st: OrderStatuses, lots: Nat, trigger: Int,
                             version: Nat, entry: Int, execution: BOOLEAN]]
  /\ orders \in [Orders -> {"none", "filled", "rejected"}]
  /\ held \in [Orders -> Nat] /\ other \in Nat
  /\ edit \in SUBSET Edits /\ Cardinality(edit) <= 1
  /\ scan \in [Scans -> [st: {"idle", "ticked", "rows"}, price: Int, rows: SUBSET Rows]]
  /\ jammed \in BOOLEAN

Absent == [st |-> "none", lots |-> 0, trigger |-> 0, version |-> 0, entry |-> 0,
           execution |-> FALSE]

Init ==
  /\ status = "active"
  /\ pending = [id \in Orders |-> Absent]
  /\ orders = [id \in Orders |-> "none"]
  /\ held = [id \in Orders |-> 0]
  /\ other = 0
  /\ edit = {}
  /\ scan = [s \in Scans |-> Idle]
  /\ jammed = FALSE

-----------------------------------------------------------------------------
(* Prices and exposure.                                                    *)

\* A wrong trigger: a price exactly on the trigger does not count.
MetBeyond(id, trigger, p) ==
  IF Kind[id] = "buy_limit" THEN p < trigger ELSE p > trigger
\* isPendingOrderTriggered
Met(id, trigger, p) ==
  IF Kind[id] = "buy_limit" THEN p <= trigger ELSE p >= trigger
\* isPendingOrderCreationPriceValid
ValidTrigger(id, trigger, p) ==
  IF Kind[id] = "buy_limit" THEN trigger < p ELSE trigger > p

\* computeFillPrice, then clampPendingOrderFillPrice
FillPrice(id, p) ==
  IF Kind[id] = "buy_limit" /\ pending[id].trigger < p + Slippage
  THEN pending[id].trigger ELSE p + Slippage

OpenLots == other + MapThenSumSet(LAMBDA id : held[id], Orders)
\* A wrong limit at the fill: the lots that other fills opened are not read.
WithinLimitAlone(lots) == lots <= ExposureLimit
\* isWithinAggregateExposureLimit: the other pending orders do not count.
WithinLimit(lots) == OpenLots + lots <= ExposureLimit

\* openPosition and createPendingOrder
MayOpen == status \in {"active", "pass_pending"}

\* No transaction holds the account's row.
AccountFree == edit = {}

Flat(lotsOf, lots) == lots = 0 /\ \A id \in Orders : lotsOf[id] = 0

\* What an evaluation leaves: a breach closes every position, their quote is fresh.
Evaluate(verdict, lotsOf, lots) ==
  /\ status' = verdict
  /\ IF verdict = "breached" /\ status # "breached"
     THEN held' = [id \in Orders |-> 0] /\ other' = 0
     ELSE held' = lotsOf /\ other' = lots

-----------------------------------------------------------------------------
(* The trader.                                                             *)

\* createPendingOrder.  `seen` is the quote the handler read before it waited
\* for the account: any tick of the past.
Create(id, lots, trigger, seen) ==
  /\ AccountFree
  /\ pending[id].st = "none"
  /\ MayOpen
  /\ ValidTrigger(id, trigger, seen)
  /\ WithinLimit(lots)
  /\ pending' = [pending EXCEPT ![id] =
       [Absent EXCEPT !.st = "active", !.lots = lots, !.trigger = trigger]]
  /\ UNCHANGED <<status, orders, held, other, edit, scan, jammed>>

\* modifyPendingOrder up to its UPDATE: the account's status is not asked, the
\* exposure only when the quantity grows, the price only when it changes.
ModifyRead(id, lots, trigger, seen) ==
  /\ AccountFree
  /\ pending[id].st = "active"
  /\ pending[id].version < MaxVersion
  /\ lots > pending[id].lots => WithinLimit(lots)
  /\ trigger # pending[id].trigger => ValidTrigger(id, trigger, seen)
  /\ edit' = {[id |-> id, version |-> pending[id].version,
               lots |-> lots, trigger |-> trigger]}
  /\ UNCHANGED <<status, pending, orders, held, other, scan, jammed>>

\* The UPDATE compares the version, not the status.
ModifyWrite == \E e \in edit :
  /\ pending' = IF pending[e.id].version # e.version THEN pending
                ELSE [pending EXCEPT ![e.id] = [@ EXCEPT !.lots = e.lots,
                        !.trigger = e.trigger, !.version = e.version + 1]]
  /\ edit' = {}
  /\ UNCHANGED <<status, orders, held, other, scan, jammed>>

Active == {id \in Orders : pending[id].st = "active"}

\* cancelPendingOrder and cancelAllPendingOrders: updates of active orders, with
\* no lock on the account and no new version.
Cancel(ids) ==
  /\ ids # {} /\ ids \subseteq Active
  /\ pending' = [id \in Orders |->
       IF id \in ids THEN [pending[id] EXCEPT !.st = "cancelled"] ELSE pending[id]]
  /\ UNCHANGED <<status, orders, held, other, edit, scan, jammed>>

\* openPosition and closePosition by the trader, and the worker's evaluation,
\* which closes nothing.
MarketOpen(lots) ==
  /\ AccountFree /\ MayOpen /\ WithinLimit(lots)
  /\ \E verdict \in Verdicts(status, FALSE) : Evaluate(verdict, held, other + lots)
  /\ UNCHANGED <<pending, orders, edit, scan, jammed>>

MarketClose(lotsOf, lots) ==
  /\ AccountFree
  /\ status \in {"active", "soft_locked", "breached"}
  /\ \E verdict \in Verdicts(status, Flat(lotsOf, lots)) : Evaluate(verdict, lotsOf, lots)
  /\ UNCHANGED <<pending, orders, edit, scan, jammed>>

Close == \/ \E id \in Orders, left \in {0} \cup Lots :
              left < held[id] /\ MarketClose([held EXCEPT ![id] = left], other)
         \/ \E left \in {0} \cup Lots : left < other /\ MarketClose(held, left)

WorkerEvaluate ==
  /\ AccountFree
  /\ status' \in Finalizations(status, Flat(held, other))
  /\ UNCHANGED <<pending, orders, held, other, edit, scan, jammed>>

-----------------------------------------------------------------------------
(* The scans.                                                              *)

\* An accepted tick: the leader starts a scan for it and does not wait for the
\* scans of the ticks before.
Tick(p, s) ==
  /\ scan[s].st = "idle"
  /\ scan' = [scan EXCEPT ![s] = [st |-> "ticked", price |-> p, rows |-> {}]]
  /\ UNCHANGED <<status, pending, orders, held, other, edit, jammed>>

\* The scan that has worked off its rows is over.
WithRows(s, rows) ==
  scan' = [scan EXCEPT ![s] =
    IF rows = {} THEN Idle ELSE [st |-> "rows", price |-> @.price, rows |-> rows]]

\* The candidates: the active orders, outside any transaction, of which those
\* are kept whose trigger, as read, is met.
ScanRead(s) ==
  /\ scan[s].st = "ticked"
  /\ WithRows(s, {[id |-> id, trigger |-> pending[id].trigger] :
       id \in {i \in Active : Met(i, pending[i].trigger, scan[s].price)}})
  /\ UNCHANGED <<status, pending, orders, held, other, edit, jammed>>

\* A wrong claim: the order's status is not asked again.
AnyStatusClaimed(id) == pending[id].st # "none"
\* The SELECT ... FOR UPDATE and the UPDATE at the end ask for an active order.
StillActive(id) == pending[id].st = "active"
\* A wrong claim: the trigger is that of the row read before the lock.
MetAsRead(row, p) == Met(row.id, row.trigger, p)
MetAsClaimed(row, p) == Met(row.id, pending[row.id].trigger, p)

\* A wrong settlement: the result of openPosition is not looked at.
AlwaysFilled(result) == "filled"
SettledAs(result) == IF result = "filled" THEN "filled" ELSE "failed"

\* One transaction: claim, openPosition under the order's own key, settlement.
\* `gated` stands for the refusals of openPosition that are not modelled.
Claimed(row, p) == \E gated \in BOOLEAN :
  LET id == row.id
      result == IF MayOpen /\ WithinLimit(pending[id].lots) /\ ~gated
                THEN "filled" ELSE "rejected"
  IN  /\ orders[id] = "none"
      /\ orders' = [orders EXCEPT ![id] = result]
      /\ pending' = [pending EXCEPT ![id] = [@ EXCEPT !.st = SettledAs(result),
                       !.execution = TRUE,
                       !.entry = IF result = "filled" THEN FillPrice(id, p) ELSE 0]]
      /\ IF result = "filled"
         THEN \E verdict \in Verdicts(status, FALSE) :
                Evaluate(verdict, [held EXCEPT ![id] = pending[id].lots], other)
         ELSE UNCHANGED <<status, held, other>>

\* The account's specification set has no such symbol: the order fails before
\* a trade order is placed.
Unspecified(id) ==
  /\ pending' = [pending EXCEPT ![id] = [@ EXCEPT !.st = "failed"]]
  /\ UNCHANGED <<status, orders, held, other>>

Trigger(s, row) ==
  /\ scan[s].st = "rows" /\ row \in scan[s].rows
  /\ AccountFree
  /\ WithRows(s, scan[s].rows \ {row})
  /\ IF StillActive(row.id) /\ MetAsClaimed(row, scan[s].price)
     THEN Claimed(row, scan[s].price) \/ Unspecified(row.id)
     ELSE UNCHANGED <<status, pending, orders, held, other>>
  /\ UNCHANGED <<edit, jammed>>

\* One scan covers the orders of every account.  A row of another account that
\* throws, a query that fails, an epoch that is no longer the leader's: while
\* there is such a thing any scan may drop what is left of it, and nothing says
\* that it goes away.
Jam == /\ jammed' = ~jammed
       /\ UNCHANGED <<status, pending, orders, held, other, edit, scan>>

Abort(s) ==
  /\ jammed
  /\ scan[s].st # "idle"
  /\ scan' = [scan EXCEPT ![s] = Idle]
  /\ UNCHANGED <<status, pending, orders, held, other, edit, jammed>>

-----------------------------------------------------------------------------
Trader == \/ \E id \in Orders, lots \in Lots, trigger, seen \in Prices :
               \/ Create(id, lots, trigger, seen)
               \/ ModifyRead(id, lots, trigger, seen)
          \/ ModifyWrite
          \/ \E id \in Orders : Cancel({id})
          \/ Cancel(Active)
          \/ \E lots \in Lots : MarketOpen(lots)
          \/ Close

ScanStep(s) == ScanRead(s) \/ (\E row \in scan[s].rows : Trigger(s, row))

Next == \/ Trader
        \/ WorkerEvaluate
        \/ Jam
        \/ \E p \in Prices, s \in Scans : Tick(p, s)
        \/ \E s \in Scans : ScanStep(s) \/ Abort(s)

Spec == Init /\ [][Next]_vars

\* Transactions end and scans go on; nothing is assumed of the feed.
FairSpec == /\ Spec
            /\ WF_vars(ModifyWrite)
            /\ \A s \in Scans : WF_vars(ScanStep(s))

-----------------------------------------------------------------------------
(* Properties.                                                             *)

\* A pending order and the trade order of its trigger never diverge: it is
\* filled with a filled one, a rejected one makes it fail, it carries the order's
\* id exactly when there is one (an order that is active, cancelled or failed for
\* want of a specification has none), and no position but of a filled order
\* (triggerPendingOrders).
SettledWithItsOrder == \A id \in Orders :
  /\ pending[id].st = "filled" <=> orders[id] = "filled"
  /\ orders[id] = "rejected" => pending[id].st = "failed"
  /\ pending[id].execution <=> orders[id] # "none"
  /\ pending[id].st # "filled" => held[id] = 0

\* "A Buy Limit must never fill above its limit price", and a stop never below
\* its own, by the trigger the trader edited last.
FilledWithinTrigger == \A id \in Orders : pending[id].st = "filled" =>
  IF Kind[id] = "buy_limit" THEN pending[id].entry <= pending[id].trigger
  ELSE pending[id].entry >= pending[id].trigger + Slippage

\* TRADING-ORDER-003: orders that were each created within the limit do not
\* exceed it together, whatever scans fill them.
ExposureStaysWithinLimit == OpenLots <= ExposureLimit

\* An order that was settled, by the trader or by a tick, stays as it ended.
SettledStaysSettled ==
  [][\A id \in Orders : pending[id].st \in Settled => pending'[id].st = pending[id].st]_vars

\* A tick opens nothing for an account that may not open: one that was locked
\* or breached after the order was created or its candidates were read.
TriggersOpenOnlyWhenAllowed ==
  [][(\E id \in Orders : held'[id] > held[id])
       => status \in {"active", "pass_pending"}]_vars

\* An order that ticks keep meeting does not stay active on its trigger for ever,
\* whatever scans overlapped or came too early, once no row of another account
\* makes them throw: the code promises no more (one scan covers all accounts).
MetTriggersSettle == \A id \in Orders, t, p \in Prices :
  /\ IF Kind[id] = "buy_limit" THEN p <= t ELSE p >= t
  /\ []<><<\E s \in Scans : Tick(p, s)>>_vars
  /\ <>[]~jammed
  => []<>(pending[id].st # "active" \/ pending[id].trigger # t)
=============================================================================

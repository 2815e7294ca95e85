# WARIBA platform: verification project

TLA+ models of the server-side core of the WARIBA trading platform, TLC
configurations that check them on small instances, and TLAPS proofs of theorems
that hold for every value of their constants. Paths are relative to the
repository; `trading.ts:1215` without a directory is a file of
`packages/database/src` unless the section says otherwise.

Each module is translated from the code. Comments in the modules name the
function a definition stands for; `PROJECT.json` gives the lines.

## 1. The system

WARIBA sells evaluation accounts. A trader buys an account, trades it on
simulated markets under a Daily Loss and a Maximum Loss, passes when a profit
target and a Best Day rule are met, continues on a Performance account and asks
for payouts. State is in PostgreSQL; three programs work on it: the web
application, the realtime service (quotes, orders, market-triggered actions;
several replicas of which one leads), and the worker (daily finalization,
retention and reconciliation jobs).

### Components

| Component | State | Operations | What makes it correct |
|---|---|---|---|
| Realtime leadership (`realtime-leadership.ts`, `services/realtime/src/leadership.ts`) | one row: leader, fencing epoch, expiry; a token in each replica | acquire/renew on a timer, expire at stop, assert inside a transaction | an epoch has one owner; two replicas never both lead; a fenced transaction commits only under the current epoch; an expired lease is taken again |
| Risk rules (`packages/domain/src/risk-math.ts`, `state-machines.ts`, `packages/policies/src/risk-engine.ts`) | none | floors, limits, Best Day, recommended status, status table | floors trail and never fall; statuses follow the table |
| Account risk and daily finalization (`risk.ts`, `daily-finalization.ts`, worker job) | `evaluation_accounts.status`, `ledger_entries`, `daily_snapshots` | evaluate after each trade; close an elapsed day; open a day; worker poll | a day ends on its ledger's balance; a finalized day is frozen; every elapsed day is finalized; no live account stays under its floor |
| Trading commands (`trading.ts`, `accounts.ts`) | `orders`, `fills`, `positions`, the account's version | open, close, Close All, modify, replay by idempotency key, forced closes of a breach | a command is decided once; ledger and positions agree; exposure limits hold; a breach closes what it can |
| Pending orders (`pending-orders.ts`) | `pending_orders` | create, modify, cancel, cancel all, trigger by a tick | an order is settled once, with its trade order and within its trigger; a cancelled order never triggers; a met trigger is settled in the end |
| Position protections, reduction queue (`position-protections.ts`, `position-reduction-queue.ts`) | stop/target columns; `position_reduction_queue` | set, queue, cancel, execute or trigger by a tick | no lot is closed twice; a reduction ends as its order, for good; a queued reduction of an open position and a stop that is reached are executed in the end |
| Price alerts (`price-alerts.ts`, `alert-monitor.ts`) | `price_alerts` with the last observed side | create, evaluate per tick | an alert fires on a crossing only, and once |
| Realtime gateway (`websocket.ts`, `order-handler.ts`, `registry.ts`) | connections, subscriptions, the tick gate | authenticate, subscribe, submit, fan out results | no command of a revoked session; results in sequence |
| Market data (`market.ts`, `market-history-*.ts`, `market-bars.ts`) | latest tick per symbol, candles, bars | tick, aggregate, backfill, repair | a candle is that of its ticks |
| Payouts, Performance cycles, reconciliation (`payouts.ts`, `performance.ts`, `financial-reconciliation.ts`, `packages/application/src/control-payouts-actions.ts`) | payout requests, cycles, ledger entries, integrity holds; the provider's records | request, approve, reject, submit, reconcile, settle, reverse; hold and clear | the ledger agrees with the requests; what was approved is covered by the balance; a day supports one payout; cycles pay in turn |
| Treasury (`treasury.ts`) | reserve entries | record, report | a report: no payout reads it |
| Commerce, activation and provisioning (`packages/application/src/commerce.ts`, `payment-events.ts`, `activation.ts`, `v2-provisioning.ts`) | purchase orders, attempts, receipts, payment events, accounts, FLEX obligations | checkout, provider callback, activate, pass, expire | an order is fulfilled exactly when its account is open; an accepted payment is honoured; obligation and account agree |
| Support requests and contestations (`support-tickets.ts`, `contestations.ts`, `control-support.ts`, `control-contestations.ts`) | requests, contestations, replacement accounts, each row with owner and version | create, reply, contest; assign, answer, resolve, review, decide, correct | operators act on what they saw; a request ends after its contestation; one contestation per decision, one replacement per contestation |
| Identity reviews, other control operations (`identity-reviews.ts`, `control-operations.ts`) | reviews | staff workflows of the same pattern | version and owner are checked |
| Web client (`apps/web/lib/realtime-client.ts`) | last sequence seen per account | apply, gap, resubscribe | results applied in order |
| Adapters, contracts, views, UI | none | I/O and presentation | - |

### How they interact

* A command reaches `order-handler.ts`, which reads the clock and all quotes and
  calls one function of `trading.ts`. That function is one transaction: it locks
  the account's row, replays or decides the order, posts to the ledger and ends in
  `evaluateAndApplyAccountRiskInTransaction` (`risk.ts`), which first closes the
  elapsed day and opens the current one. A recommended transition that the status
  table does not list aborts the whole transaction.
* The worker polls for accounts with an elapsed open day and runs two
  transactions on each: close the day, then evaluate (which turns a
  `pass_pending` into a `passed`). It shares the row lock with the commands.
* A tick accepted by the leader starts the trigger families (pending orders,
  protections, reduction queue). Each runs transactions that first prove the
  fencing epoch and then call `trading.ts`.
* A pass opens a Performance account (ONE) or an obligation to pay for one (FLEX) in
  the transaction of the status; an INSTANT purchase opens it when it is paid.
* A payout request runs on the realtime service, its review and payment on the web
  application. Both meet trading in the ledger, in the cycle's freeze and in the
  integrity hold, which `findExposureIncreaseRejection` reads.
* A contestation comes with a support request and has a version of its own; a
  correction opens a replacement account.

### What is hard

Clocks read before a lock is waited for; transactions that decide with the
instant of their BEGIN; several actors closing the same day; two transactions of
one job with a crash in between; evaluations nested in forced closes nested in a
Close All on one account row held in memory; commands resent under the same key;
a lease with clocks, crashes and restarts; a payout created in three commits and
settled by a provider that answers late; payment events that arrive twice or in
either order; pages that are acted from long after they were built.
`PROJECT.json` lists each such hazard
at its line with the properties that cover it, or says why none does.

## 2. Modules

| Module | Models | State and actions |
|---|---|---|
| `FencedWriter` | the promise of the lease to the financial writers (abstract) | `epoch`, `holder`, `lastWrite`; `Grant`, `Commit` |
| `RealtimeLeadership` | row, coordinators and fenced transactions | one action per await: `RefreshBegin` (BEGIN fixes `current_timestamp`), `RefreshCommit` (row lock, decision, update), `RefreshDeliver` (`this.token = ...`), `RefreshFail`, `Stop`, `Expire`, `Crash`, `Restart`; per family `Capture`, `Begin`, `Assert`, `Commit`, `NextCandidate`, `Abandon`; the clock's `Tick` |
| `RiskRules` | risk arithmetic, status table and recommended status as operators | - |
| `AccountBook` | one account's status, ledger and daily rows, with the functions the transactions run on them | functions only: `EnsureTodaySnapshot`, `FinalizeElapsedDay`, `FinalizeDailyBoundary`, `Evaluated`, ... |
| `DailyRisk` | commands, worker and midnight on that book | `Trade` (open, close, modify, on the day of a clock read up to `Lag` days before), `WorkerStart`, `WorkerFinalize`, `WorkerEvaluate`, `WorkerCrash`, `Midnight`; `SpecInTime` restricts `Trade` to `TradeInTime` |
| `DecidedOrders` | the promise of idempotency and of gapless versions (abstract) | `orders`, `version`; `Decide` |
| `AccountTrading` | the trading commands on book, positions and orders | `Open`, `Close`, `CloseAll`, `Modify` (each a whole transaction, replays and forced closes included), `Quote`, `Midnight` |
| `PendingOrders` | the pending orders of an account: trader commands against the scans that ticks start | `Create`, `ModifyRead` and `ModifyWrite` (the edit reads under the account's lock and writes later), `Cancel` (no account lock), `MarketOpen`, `Close`, `WorkerEvaluate`; `Tick`, `ScanRead` (candidates, no lock), `Trigger` (one transaction: claim, then open and settle, or fail for want of a specification), `Jam` and `Abort` (a scan that something outside the account cuts off) |
| `RiskVerdicts` | the statuses an evaluation may leave, for the modules that keep no amounts | operators: `Verdicts`, `MayRollBack`, `Finalizations` |
| `PositionReductions` | positions and everything that reduces them: immediate closes, the reduction queue, stop losses and take profits, breaches | `Open`, `Close`, `Modify`, `QueueRead` and `QueueWrite` (no account lock), `Cancel` (one guarded update), `WorkerEvaluate`; per scan of the queue `ReducerTick`, `ReducerRead`, `Execute` (claim, close or replay, settle), `ReducerAbort`; per scan of the protections `GuardTick`, `GuardRead`, `Protect`, `GuardAbort`; `Jam` (the rows of other accounts) |
| `PayoutMath` | the sums of a payout, each rounded to cents as the code does | operators |
| `PayoutBook` | the promise to the treasury: cycles pay in turn, once (abstract) | `paidIn`, `undone`; `Pay`, `Undo` |
| `Payouts` | requests, cycles, ledger and hold of one Performance account | creation in three commits (`CheckRequest`, `InsertRequest`, `FreezeCycle`, `CreationEnds`); `Approve`, `RefuseApproval`; `ReadForRejection`, `Reject` (no lock between them); `SubmitToProvider`, `RecordSubmission`; `AskProvider`, `SettlePaid`, `RecordFailure`; the `...Ends` of each (replay, error or crash); `ReversePayout`; `PlaceHold`, `ClearHold`, `LedgerFault`; trading and days as far as payouts read them |
| `Commerce` | purchases of the three families, their payment events and the accounts they open | `CreateOrder`, `PrepareForPayment`, `ExpireObligation`, `RecordAttempt`, `CheckoutEnds`; `IssueEvent`, and per delivery one of `FailPayment`, `IgnoreConfirmation`, `ConfirmEvaluation`, `ConfirmPerformance`, `RefuseEvent` (signature, order or amount: the id is recorded all the same), `AnswerDuplicate`; `PassOne`, `PassFlex`, `EndEvaluation`, `ChangeReadiness`, `Tick` |
| `Contestations` | support requests and contestations, the trader and the operators | `CreateTicket`, `OpenContestation`, `TraderReply`; `OpenPage`, then `AssignTicket`, `AnswerTicket`, `ResolveTicket`, `AssignContestation`, `ReviewContestation`, `DecideContestation`, `IssueReplacement`, each from the page the operator has open |
| `RealtimeLeadership_proofs`, `DailyRisk_proofs`, `AccountTrading_proofs`, `PendingOrders_proofs`, `PositionReductions_proofs`, `Payouts_proofs`, `Commerce_proofs`, `Contestations_proofs` | theorems | - |
| `MC*` | small values for TLC | - |

`PendingOrders` and `PositionReductions` EXTEND `RiskVerdicts`: of the account they
keep the status and the open lots, and an evaluation may give any verdict that
the rules can reach from the status. They are two views of the work that a tick
starts, one of what increases exposure and one of what reduces it. The fence of
their transactions is that of `RealtimeLeadership`. The code's scans go through the
rows of all accounts of a symbol, and a transaction that throws drops the rows behind
it (`websocket.ts:420`, `:455`, `:508` log the error). Both modules follow one account:
while `jammed` says that a row of another account throws, that a query fails or that the
lease is lost, any scan may be cut off (`Abort`, `ReducerAbort`, `GuardAbort`). `Jam`
starts and ends this at any time, any number of times, or never ends it. Rows of the
account itself that throw (`ReplayThrows`, `CloseThrows`) cut a scan off, too.

`AccountTrading` and `DailyRisk` both EXTEND `AccountBook`, which EXTENDS
`RiskRules`: they are two views of the same account. `DailyRisk` keeps of a
command what it posts and what it leaves unrealized, and follows days and worker
in full; `AccountTrading` keeps positions, orders, versions and quotes, and lets
days pass without the worker. `RealtimeLeadership` implements `FencedWriter` and
`AccountTrading` implements `DecidedOrders`, and `Payouts` implements `PayoutBook`,
each by INSTANCE ... WITH and a PROPERTY of a run. `Payouts` takes of an order or a
position only whether there is one and what its close earns; `Commerce` takes of an
Evaluation account only that it passes or ends.

Operators whose comment begins with "A wrong" are deliberate mistakes that the
specification never uses; they serve to confirm that each property notices one.

### Abstractions

* Money is an integer, a price is what one lot is worth, slippage is part of the
  commission, and positions are long. Rates of the policy are the amounts they
  come to on the nominal balance.
* The ledger is kept as its balances: `bal[d]` sums the entries whose
  `occurred_at` is on day d or before, which is how both the live balance and
  the balance at a boundary are computed.
* Short-duration eligibility is off, so account, program and risk balances are one.
* A command is one step: it holds the account's row from its first statement to
  its commit. The worker's run is three, with crashes between them. Its clock is
  read at the step; in the code it is read just before the second transaction
  waits for the row.
* `findExposureIncreaseRejection` is a free refusal (`gated`): any outcome of
  that gate is explored. In `PendingOrders` it also stands for the other rejections
  that `openPositionInTransaction` records as a trade order (stale quote, V2 pre-trade).
  A trigger that finds no specification of the symbol (`pending-orders.ts:558-578`) places
  no trade order; it is a disjunct of its own (`Unspecified`).
* Pending orders buy, on one symbol, and bid and ask are one price; selling is the
  mirror image. The price of a trader's command is any tick of the past.
* In `PositionReductions` an idempotency key is of one kind of close at a time or of
  both (first sent as immediate, then queued, or the reverse), or of a modification
  first; the key of an open is taken to be its own (a reduction queued under it would be
  settled as executed by the replay of that open and close nothing). Keys of protections
  and breaches are derived and never clash, so only the lots they close are counted.
  A position is opened once and is long. A tick is fresh for the
  transactions it starts, while an immediate close may find its quote stale.
* `Payouts` compares ledger and requests entry by entry, where the code compares
  sums. Three histories serve the properties alone: `counted` (the days an approval
  rested on), `lapsed` (requests seen approved with an unfrozen cycle) and `overtaken`
  (requests that a late rejection took). The provider is a set of the requests it
  knows; which outcome it gives is free, and two operators may be given two. The
  ratio of consistency is compared exactly, not rounded at its fourth decimal. Sums asked
  for are whole cents. The message allows more decimals (`decimalString`,
  `packages/contracts/src/performance.ts:74`), and the code takes the gross of the unrounded sum
  but stores the rounded one: there the cash may be a cent above what is stored as asked for.
* In `Commerce` a transaction's timestamp is read up to `Wait` instants before the row
  lock is held. A payment event that throws (policy not ready, deadline passed) rolls
  back whole and may be delivered again, so it is no step. A delivery of another amount, of
  an unknown order or with a bad signature is refused and takes its event id (`RefuseEvent`),
  before or after the provider issues an event under it. `recorded` is the table of ids;
  `refused` and `acknowledged` say what was answered and serve the properties.
* In `Contestations` a handler that refuses changes nothing and is no step. Whether a
  decision can be corrected by a replacement account is a constant, since nothing
  after the decision changes it.
* Audit rows, outbox, metrics and logs are left out.

## 3. Runs

Every run uses a bounded clock or bounded keys, so a behaviour may come to a
stop; deadlock is therefore not checked.

| Run | Instance | What it shows |
|---|---|---|
| `leadership_fence` | 2 replicas, 1 family, lease 2, time 0..3, 1 outage, clocks agree | `EpochHasOneOwner`, `OneLeader` (no two replicas both see themselves leading), `Fenced` (implements `FencedWriter`) |
| `leadership_live` | lease 1, time 0..1, 2 outages, fair | `LeaseIsTaken` |
| `daily_core` | days 0..2, losses and wins of 1, limits 1 and 2, target 2, 1 worker crash, fair worker, commands up to a day late that no step of the new day overtakes (`SpecInTime`, `Lag` = 1) | `FloorIsTrailing`, `EodIsTheLedger`, `SettledAboveFloor`, `SettledAccountsOnlyAdvance`, `ElapsedDaysAreFinalized` |
| `daily_late` | the same with commands that may be overtaken (`Spec`, `Lag` = 1) and a wider swing upwards | `FinalizedIsFrozen` |
| `pending_orders` | a limit and a stop order of one lot, exposure limit 1, 3 prices, slippage 1, 2 overlapping scans, 1 edit per order, jams | `SettledWithItsOrder`, `FilledWithinTrigger`, `ExposureStaysWithinLimit`, `SettledStaysSettled` |
| `pending_live` | one stop order of one or two lots, limit 2, 3 prices, 2 scans, jams, fair | `MetTriggersSettle` |
| `reductions` | 1 position of 2 lots, 2 keys, partial closes of 1 lot, 1 price, 2 scans of the queue and 2 of the protections | `ExecutedWithItsOrder`, `LotsAreAccountedFor`, `SettledStaysSettled` |
| `reductions_live` | the same with 1 key, 2 prices, 1 scan of the protections, jams of both families, fair | `QueuedReductionsSettle`, `StopsFire` |
| `trading_commands` | 2 symbols in a bucket of 3 lots, 2 positions, 3 keys, 2 days | `LedgerMatchesPositions` (with the types), `ExposureStaysWithinLimit`, `DecidedOnce` (implements `DecidedOrders`), `FilledCommandsLeaveNoBreach`, `BreachClosesWhatItCan` |
| `payouts` | 2 requests, 2 cycles with caps and splits of their own, 3 days, 1 performance day required, troubles (holds, locks, faults) on day 2 | `LedgerFollowsRequests`, `BufferCoversApprovals`, `DaysCountOnce`, `OnlyApprovedIsSent`, `CashWithinCap`, `CyclesPayInTurn` (implements `PayoutBook`) |
| `commerce` | 1 purchase of any family with its activation order, 3 events, 3 instants, window 1, waits of 1 | `OrdersMatchAccounts`, `AcknowledgedIsHonoured`, `HandoffAgrees`, `EventsCountOnce` |
| `contestations` | 2 requests, 2 decisions of which 1 can be corrected, 2 operators, 6 changes | `ClosedIsDecided`, `OneLiveContestation`, `CorrectedMeansReplaced`, `ActsOnWhatIsShown`, `CasesMoveForward` |

Bounds and why they are enough:

* Leadership: the lease can expire, be taken over and expire again within three
  instants; one outage is a crash followed by a restart under the same
  INSTANCE_ID, a stop, or a lost answer. Two outages are needed for liveness
  (a refresh that fails twice), with a shorter clock. Skewed clocks are covered
  by the theorems for every skew; `OneLeader` is about agreeing clocks by
  nature: a replica whose clock is behind keeps its token longer than the row.
* Days: a day, the day after and one more give a row opened by a trade, a row opened by
  the worker, a gap, and a floor carried over two finalizations. A command a day late is
  one that a midnight passes while it waits; the theorems hold for any `Lag`. The
  loss limit of 2 with amounts of 1 gives equity above, on and below each floor.
  The swing bound (`MaxSwing`) keeps the balance near the nominal one; in
  `daily_late` amounts are wins only, so that the floor reaches its cap at the nominal
  balance and beyond (the swing is 3, the loss limit 2).
* Trading: two positions are the least with which a breach or a Close All has a
  second child after the first one changed the account; three keys allow a
  retry between any two commands.
* Pending orders: a limit of one lot lets each order pass alone and not both; two
  scans are the least that overlap; one edit per order gives a claim whose row
  differs from the one the scan read, and an edit that a cancellation overtakes.
  Three prices leave one below, on and above each trigger. The scans are
  interchangeable, hence the symmetry of `pending_orders` (none in the fair run).
* Reductions: two lots allow a partial close and a second one that is then no longer
  valid; two keys let two queued entries, or an immediate and a queued close,
  compete for them; two scans of a family are the least that overlap. Keys and scans are
  interchangeable in `reductions`, hence its symmetry (none in the fair run).
  Which level is hit does not matter for safety, so one price is enough there;
  two give a stop that is reached and one that is not. `reductions` has no jams
  (`Jams` = {}): they cut scans off, which safety notices no more than a scan that is slow.
* Payouts: two requests compete for one cycle or follow each other over two; the
  second cycle ends the account's cycles and opens the review; the sum asked for is
  below one cap and above the other. Three days give a day
  before a payout, the day of it and one after. The sums are chosen so that a result
  of a day qualifies it, the request exceeds the cap of one cycle, and roundings occur.
  That trouble begins on one day only loses its repetition, not its interleaving with
  the steps of a request.
* Commerce: a FLEX purchase has two orders, so that events of both are under way;
  three events are a failure, a confirmation and one more of either kind, any of which may
  first come in a delivery that is refused. Three
  instants lie before, on and after a deadline. Purchases share nothing, so one is
  enough; the theorems cover any number.
* Contestations: six changes are two requests with their contestations and all that
  a full correction takes on one of them. Requests and operators are interchangeable,
  hence the symmetry.

Fairness. In `RealtimeLeadership`: the refresh timer fires, the database serves
its statements, and a transaction that holds the row ends; nothing is assumed of
crashes, restarts or ticks. In `DailyRisk`: the poll timer fires
(`WorkerStart`) and a run that started goes on (`RunGoesOn`); its transactions
wait for row locks only, and every holder is a bounded transaction. No trader is
assumed to trade and midnight need not come. In `PendingOrders`: an edit that
holds the account's row commits, and a scan goes on; that ticks keep meeting the
trigger is a premise of `MetTriggersSettle`, not an assumption on the feed. In
`PositionReductions` likewise a scan goes on once its tick has started it, to its end
or an error, and the ticks are premises of both properties. All three have a second
premise, since the code does not guarantee more: from some time on no row of another
account makes the scans of that symbol throw (`<>[]~jammed`). `QueuedReductionsSettle`
also needs that no row of the account itself is stuck for ever (`Stuck`, below). A failed
query or a lease that moves are such troubles that pass; a row that throws at every tick
starves the rows behind it, and nothing in the code sets it aside. The two about
reductions leave out the
statuses in which the code cannot close: under a soft lock a close that reaches the
objective is rolled back each time, under `pass_pending` it is rejected.

### Departures met while reading

What a comment, a decision record or the ruleset says and the code does not do.

* The comment of the worker's job says that it can only advance an account to passed
  (`services/worker/src/jobs/daily-finalization.ts:29-31`). It values open positions at
  nothing (`:79`), so an account that they carry may be breached or locked by it.
  `SettledAccountsOnlyAdvance` is therefore stated for accounts without positions.
* ONE-015 lets an account pass only with its positions closed (`DECISION_LOG.md:225`).
  An account in `pass_pending` may open again, the engine goes on recommending
  `pass_pending` (`risk-engine.ts:278-291`), and the worker passes it with the position
  open (`risk.ts:290`).
* The version conflict of a close is said to be unreachable under the row lock
  (`trading.ts:859-861`). When a child of a Close All breaches the account, the forced
  closes advance the version while the loop goes on with the older row (`:1071`,
  `:1215`): the next child throws, and the whole Close All, the breach included, is
  rolled back (`outcome` = "version_conflict" in `AccountTrading`).
* Closing is said to stay allowed under a soft lock (`trading.ts:738`). A close that
  reaches the target is recommended `pass_pending` (`risk-engine.ts:284`), which
  `state-machines.ts:44` does not list for `soft_locked`: it is rolled back every
  time, and so are a queued reduction and a stop loss (`RolledBack`).
* Trading permissions are said to be unchanged under `pass_pending`
  (`trading.ts:376-377`). Opening is; closing and modifying are rejected
  (`trading.ts:743`, `1314`), a queued reduction fails, and a triggered stop leaves a
  rejected order with each tick (`position-protections.ts:94`).
* A queued reduction whose position was closed otherwise is never looked at again
  (`position-reduction-queue.ts:308`): it stays queued until its trader cancels it.
* The executor is said to settle every row still queued for an open position on the symbol
  (`position-reduction-queue.ts:286-287`). One scan covers all accounts
  (`:294-310`), and a row whose transaction throws leaves the loop (`:313`): the rows behind
  it, of whatever account, are not tried, and the next tick meets the same row again, in an
  order of rows that the query leaves open. A row queued under the key of a filled stop or
  target modification throws for ever, as its replay finds no fill (`trading.ts:178`,
  `:221`), and one whose close is rolled back does so as long as the soft lock lasts.
  Stops (`position-protections.ts:58-113`) and pending orders
  (`pending-orders.ts:519-536`) are scanned the same way. Hence the premises of
  `QueuedReductionsSettle`, `StopsFire` and `MetTriggersSettle`.
* A reduction that is queued under the key of an immediate close which was rejected
  as stale replays that rejection at the first fresh tick and fails
  (`position-reduction-queue.ts:325`, `trading.ts:686`): the fallback needs a new key.
* A scan that is still in flight may trigger an order that was created or edited
  after its tick, at a price older than the order (`pending-orders.ts:536`); the same
  goes for a stop that was set after the tick (`position-protections.ts:85`).
* The soft lock is said to hold until the next reset (`DECISION_LOG.md:230`,
  ONE-020); it ends as soon as an evaluation finds equity above the daily floor
  (`risk-engine.ts:289`).
* The `onClose` hook is said to release the lease
  (`services/realtime/src/index.ts:176`); a refresh in flight at `stop()` may commit
  after the expiry and take the lease again, so that a standby waits it out.
* `modify` is said to be safe by its check of the row's status and version
  (`WARIBA_System_Architecture_v1.0.md:984`). Its UPDATE compares the version only and
  a cancellation leaves the version alone (`pending-orders.ts:419`, `461`): an edit
  overtaken by a cancellation is written and acknowledged as active. The order
  stays cancelled, which is `SettledStaysSettled`.
* The ruleset cancels pending orders at a breach (`WARIBA_RULESET_v1.1.json:498`) and
  ONE-015 lets an account pass only with its orders closed; the code does neither
  (`trading.ts:1083`, `risk.ts:264`). They stay active until a tick rejects them,
  which the theorem `OpensOnlyWhenAllowed` states.
* A `pass_pending` account that loses the objective again stays `pass_pending`
  (`risk-engine.ts:278-291`), although `trading.ts:375` says that the status means
  the objective is satisfied.
* A trade that crosses the boundary before the worker opens the new day on a
  balance that already holds the trade (`risk.ts:194`, `219`), what
  `daily-finalization.ts:94-97` sets out to avoid for the first day.
* `order-handler.ts:168` reads the clock before the command waits for the account. If midnight
  passes meanwhile, the properties still hold as long as no step of the new day comes first
  (`TradeInTime`). A command that the worker or another command of the new day overtakes books on
  a finalized day, or opens a row behind a newer one, which is then never the most recent open
  row (`daily-finalization.ts:193`). TLC then finds `EodIsTheLedger`, `SettledAboveFloor` and
  `SettledAccountsOnlyAdvance` violated within three days. So the properties of the daily rows
  are stated for `SpecInTime`; `FinalizedIsFrozen` and the bounds of the floors hold of `Spec`.
* A breach leaves positions with a stale quote open, and the rejected forced
  close has spent its only key (`trading.ts:755-763`, `1101`).
* The retry of a filled modification throws instead of answering
  (`trading.ts:221`); in `AccountTrading` the outcome "no_fill".
* A payout request is said to be created in one transaction (`payouts.ts:233-240`). The
  realtime service passes its plain connection (`payout-handler.ts:24`): check, insert and
  freeze commit one by one. An approval does not ask for the freeze, so
  `BufferCoversApprovals` leaves out the requests seen approved without it (`lapsed`).
* A rejection reads without a lock and updates by id (`payouts.ts:701`, `710`): it may
  overtake an approval, and a request that the provider has and pays then says rejected
  (`overtaken`). It cannot overtake a payment: the check on a closed cycle refuses it.
* A settlement that finds a mismatch throws, which rolls back the hold and the incident
  that the reconciliation has just written (`payouts.ts:772`); it asks neither for an
  integrity hold nor whether the excess is still there.
* A payout of nothing is possible: with the balance on the floor and the days
  completed, a request is approved with 0 and its settlement closes the cycle.
* A payment that waits for the order's row behind the expiry of its obligation carries
  the timestamp it read before (`commerce.ts:557`): the account is opened and the
  obligation stays expired, although the two sides are said never to disagree
  (`flex-activation.ts:64-70`). Hence the "expired" in `HandoffAgrees`.
* A confirmation that arrives while the order is `payment_failed` is recorded and ignored
  (`commerce.ts:626`); its redelivery is a duplicate, so a payment made after a retry of
  the checkout may never be honoured. `AcknowledgedIsHonoured` names the case.
* An event is recorded before its delivery is checked (`commerce.ts:566-605`), and the id of one
  that is refused (401, 404 or 409) stays. When the provider delivers the event again and the
  cause is gone (a rotated secret, an order that is now visible, a corrected amount), it is a
  duplicate, answered 200 (`webhooks/payments/sandbox/route.ts:77-85`), and the payment is never
  honoured. `payment-events.ts:21-22` says that the caller of a duplicate returns the original
  result; this one returns success whatever the result was. In the model the id is then
  both in `refused` and in `acknowledged`, and `AcknowledgedIsHonoured` leaves it out.
* The expiry that `v2-provisioning.ts:229` writes is rolled back by the throw at `:236`.
* An attempt recorded late says "initiated" after its order was paid (`commerce.ts:496`).
* The link to its contestation is said to prevent any second replacement account
  (`DECISION_LOG.md:410`, UX-SUPPORT-004). It prevents a second one for the contestation;
  once corrected, the same decision may be contested again and corrected again
  (`control-contestations.ts:591-631` does not look for an earlier one).
* The request is said to stay open until the dispute is decided (`control-support.ts:510-517`).
  It may be closed while the correction is due or Finance and Compliance examine it;
  their later messages go to a closed conversation. `ClosedIsDecided` is about the review.
* `finance_compliance_review` has no exit in the code, and its decision can never be
  contested again. A case that is assigned stays with its operator for good.
* A reply of the trader advances the version of the request, not that of its
  contestation: a decision may still be taken over an unread reply.

## 4. Proofs

Run `tlapm` on each of the eight `_proofs` modules. Each of these proves its module's `TypeOK`, which
most runs do not repeat. The assumptions are the ASSUMEs of the modules (types of the constants), nothing else
unless the theorem says so. No proof module EXTENDS another, so that each can be read
and checked by itself.

* **LeaseInvariant, EpochOwnership, Fencing.** For any set of replicas and
  families, any lease, any clock skews and any number of outages.
  `EpochHasOneOwner` is not inductive: it says nothing of how large the epochs
  are that replicas carry, so a takeover might collide with one. The invariant
  `IInv` adds that whatever is carried was granted (`CarriedWasGranted`: no carried
  epoch exceeds the row's), that an epoch has one carrier (`OneCarrier`), that a
  carrier of the row's epoch is its leader (`RowCarrier`), and that a transaction
  which holds the row carries the row's epoch for its own instance
  (`LockedIsCurrent`), which `RowFree` keeps true while it is held. Taking over
  adds one to the row's epoch, above everything carried. `Fencing` maps every step
  to a `Grant`, a `Commit` or a stutter of `FencedWriter`: a commit uses
  `LockedIsCurrent`. Clocks play no part, which is the point of a fence.
* **CoverInvariant, LeadershipIsExclusive.** Epochs alone would let two instances both
  believe that they lead; that they do not is a matter of time. `TInv` says that a token
  which has not expired, held or in an answer on its way, is covered by the row (its
  instance is the leader there and `expires` is no sooner), and orders the clocks of a
  refresh: an answer is granted from the time its transaction began, and a token on
  hand never outlasts that grant. A takeover needs an expired row, judged by a clock
  that lies behind, so no token it deprives is still alive. `TInv` holds for every skew;
  `OneLeader` needs the hypothesis that no instance's clock is behind the database's
  (`Skew[n] >= 0`), as `Leads` compares the token with the instance's own clock. The
  code has no such guarantee, which is why commits are fenced.
* **TypeInvariant, FloorsStayBounded, FinalizedStaysFrozen.** For all limits,
  amounts, any `Lag` and any number of days and crashes. Every step either leaves
  the book alone or is one transaction of some day (`StepMoves`): posts, then at
  most one finalization of an open row, then at most one insertion of an absent
  row, then a status. The invariants are proved of these pieces.
* **ChainInvariant, EodStaysOnTheLedger, FloorTrails, SettledStaysAbove, SettledOnlyAdvance.**
  Of `SpecInTime`, for any `Lag`: midnight may pass while a command waits for the account,
  but no command and no worker of a later day overtakes it, or it might open a row before the
  last one and the chain would break. A day that no row is later than is as good as today
  (`NewestInOrder`). `IInv` says that the book is in order (`Chain`: finalized rows lie before the open
  one, no row lies after today, each row starts on the floor its predecessor ended with, and
  that floor is the one the highest end of day balance so far gives; the balance has not
  moved since the last row ended), that a live account without positions is above the
  floor of its open row, and that an active one is clear of the soft lock. The
  evaluation gives the last two, and the worker's first transaction, which opens the next
  row on the balance at the boundary, keeps them: the new floor is at most the larger of
  the old one and that balance less the maximum loss (`CatchUpIsHarmless`).
  `EodIsTheLedger` needs besides that a finalized day lies before today
  (`ClosedOnTheLedger`); the other theorems follow from `IInv` without another induction.
* **Invariant, LedgerHolds, ExposureHolds, DecidedHolds, FilledHolds, BreachHolds**
  (`AccountTrading_proofs`). For any symbols, buckets, limits, lots, prices, commission, days and
  numbers of keys and positions. A command runs whole transactions one inside the other: a
  Close All hands one account row from close to close, any of which may breach the account and force
  closes of its own, throw, or replay an order. These are recursive functions of the positions gone through;
  what holds of them is proved by counting up (`CountUp`), each time for a predicate that the proof
  names, as an operator cannot be handed to an induction theorem. The argument has three layers. A *close* ends in one of
  three ways (`WritesNothing`, `Refuses`, `Fills`) and, whichever it is, `Goes`: lots only shrink, the
  ledger keeps up with the positions, a breach stays. *Several closes* keep `From`: the orders of the
  command are in sequence (`Ordered`), and an account that was breached on the way has nothing
  open that a fresh quote would close (`Calm`). A *command* that commits makes `Good` what was `Held`.
  `IInv` is `TypeOK` and `Held`: the four properties' state part, that no daily row lies after today
  (an evaluation then judges by the row of the day), and that an account that is not breached holds no
  order of a forced close. The last one is what makes a breach effective: a forced close under a key
  that is already used would be replayed, and its position stay open. An order's version must
  count the orders before it, which holds inside a transaction although the version in memory
  and the row's may differ: after forced closes the row is ahead, and then the next write throws and
  everything is rolled back (`VersionHolds`). `DecidedHolds` maps a command to one `Decide` of `DecidedOrders`, or
  to a stutter when it replays, throws or is no command.
* **PendingInvariant, SettledTogether, FillsWithinTrigger, SettledForGood,
  OpensOnlyWhenAllowed.** For any orders, kinds, prices, lots, limits, numbers of
  scans, edits and errors. `FilledWithinTrigger` is not inductive: an edit written to
  a filled order would move the trigger under its entry. `EditedNotTriggered` adds
  that the order of an edit under way is active or cancelled: claims wait for the
  account's row, which the edit holds, and only a cancellation does not. The two
  action properties follow from what a claim does (`ClaimedEffect`). `SettledTogether` also
  says of an order that failed for want of a specification that it has no trade order and
  no position.
* **ExposureIsLimited.** For finitely many orders, as a table of orders is. A fill adds
  the lots of an order that held none (`SettledWithItsOrder`), after a check that reads the sum
  under the account's lock; everything else makes no term of it larger.
* **ReductionInvariant, TypeInvariant, EndsAsItsOrder, EndedForGood.** For any
  positions, lots, keys, levels and numbers of scans and errors.
  `ExecutedWithItsOrder` and `TypeOK` need to know that a queued row names a position
  (`QueuedHasPosition`), since `Execute` closes the row's position and not the one that the
  scan read; `EndedForGood` needs that an insert finds its key free
  (`RequestedIsUnqueued`, in the code the unique index), or it would overwrite an
  ended row.
* **LotsAccounted.** For finitely many keys. `Conserved` adds to `LotsAreAccountedFor` that an
  undecided key has taken no lots, so that its decision adds exactly what the position
  gives up, and that nothing was closed of a position that was not opened yet.
* **The sums** of `ExposureIsLimited` and `LotsAccounted`. What `MapThenSumSet` computes over any finite set: the induction
  theorems of the library take an operator and cannot be instantiated, so each induction
  is a choice of a smallest counterexample among the subsets of a finite set
  (`SmallestSubset`, from the well-foundedness of strict inclusion). First, the function by
  which the fold is defined exists (`AddsExists`: the partial ones on smaller subsets
  agree) and is unique; then any element may be taken out of the sum (`SumTakesOut`), from which
  changing one term, leaving out zeros and monotony follow. Both modules hold these lemmas.
* **PayoutInvariant, LedgerAgrees, BufferIsKept, NoDayPaysTwice, ApprovedBeforeSent,
  PaysInTurn.** For any requests, cycles, caps, splits, days and sums. The invariant adds
  to the properties which cycle a request may be of while it is in each step (a paid
  request's cycle is closed, an approved one is of the cycle that its days were counted
  in), and that the frozen cycle keeps exposure, and so the balance, where the approval
  left it. `PaysInTurn` maps a settlement to `Pay`, a reversal to `Undo` and everything
  else to a stutter; that the cycle before has paid follows from the closed cycles being
  exactly the paid ones, in order.
* **CashStaysWithinCap.** For any cap, split, sum asked for and base. Only an approval sets a base,
  and never above the gross of the cap or of the net sum asked for (`Capped`); that the trader's
  share of such a base, rounded as the code rounds it, is within both is arithmetic on
  quotients (`NetWithinCap`).
* **CommerceInvariant, OrdersAgree, PaymentsAreHonoured, HandoffIsKept.** For any number of
  purchases and events, any window, waits and clocks. `OrdersMatchAccounts` is inductive only
  together with the receipts and attempts, and `HandoffAgrees` needs that an accepted
  event was issued and that an activation order exists exactly with its obligation.
* **FailuresAreCounted.** `EventsCountOnce` is inductive given that finitely many events are
  recorded: only a failure event that was not recorded before fails an order
  (`WhatFails`), and recording it makes the set that is counted larger by one (`CountStep`).
* **ContestationInvariant, EndsDecided, ContestedOnce, CorrectionsAreReal, ActsOnShown,
  MovesForward.** For any requests, decisions and operators. `ActsOnShown` needs that a page
  never shows a version the row has not had, and that the same version means the same
  row: every write advances it.

### Only model-checked

* Liveness (`LeaseIsTaken`, `ElapsedDaysAreFinalized`, `MetTriggersSettle`,
  `QueuedReductionsSettle`, `StopsFire`), which TLAPS does not do.
* The operators of `RiskRules`, `PayoutMath` and `AccountBook` as such: what is proved of them is what
  the theorems above need.

## 5. Not modelled

* Price alerts (`price-alerts.ts`): evaluations of successive ticks run concurrently, so an
  older tick may move the observed side backwards; an alert informs and moves no money.
* The realtime gateway (sessions, subscriptions, fan-out) and the web client's sequence
  gate: they order what is shown. Of the gateway the models take the moment a command
  reads clock and quotes, and the capture of the fencing token.
* Market data and its history: feeds, aggregation, backfill. Quotes are an input.
* Identity reviews and the other control operations: the pattern of versions and
  owners of `Contestations` again; their effect on an account, the compliance flags, is
  the action `ChangeStanding` of `Payouts`.
* The margin rules of V2 accounts (arithmetic over policy data in one function), the
  treasury reserve (a report), adapters, contracts, views and user interface.

All safety and action properties that the passing runs check are theorems, `OneLeader` for clocks that
are not behind and those on the daily rows (`FinalizedIsFrozen` and the bounds aside) for commands that no
step of a later day overtakes. What is left to prove goes with
what is left to model: the parts above.

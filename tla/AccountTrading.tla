--------------------------- MODULE AccountTrading ---------------------------
(***************************************************************************)
(* The trading commands of one Evaluation account                          *)
(* (packages/database/src/trading.ts): open, close, Close All, modify, and *)
(* the closes a breach forces, on the account's book, positions and        *)
(* orders.                                                                 *)
(*                                                                         *)
(* Every command is one transaction that starts with the account's row     *)
(* lock, so it is one step, built from functions on the account; an        *)
(* exception anywhere in it rolls the whole step back.  Positions are      *)
(* long, a price is what one lot is worth, slippage is part of the         *)
(* commission, and the trader may send any idempotency key again.          *)
(***************************************************************************)
EXTENDS AccountBook, Sequences

CONSTANTS Symbols,
          Bucket,       \* the exposure bucket of a symbol
          ExposureLimit,\* account_exposure_limits of a bucket
          Lots,         \* requested quantities
          Prices,
          Commission,   \* commission of a lot
          MaxKeys,      \* bound: idempotency keys a trader uses
          MaxPositions  \* bound: positions opened

ASSUME TradingAssumption ==
  /\ Lots \subseteq Nat \ {0} /\ Prices \subseteq Int
  /\ Commission \in Nat /\ ExposureLimit \in Nat
  /\ MaxKeys \in Nat /\ MaxPositions \in Nat

VARIABLES acc,      \* the account's rows
          quotes,   \* the latest tick of each symbol, as the commands read it
          today,    \* the UTC day
          outcome   \* how the last command ended: committed, or what it threw

vars == <<acc, quotes, today, outcome>>

Quotes == [Symbols -> [price: Prices, stale: BOOLEAN]]
Positions == [symbol: Symbols, opened: Nat, open: Nat, entry: Prices, pnl: Int]

\* A trader's key k is <<k, 0>>; <<k, p>> is the child of Close All k that
\* closes position p and <<0, p>> the close of p that a breach forces.
Keys == (0..MaxKeys) \X (0..MaxPositions)
Orders == [key: Keys, kind: {"open", "close", "close_all", "modify"},
           st: {"filled", "rejected", "account_not_active"}, seq: Nat]
Accounts == [book: Books, version: Nat, positions: Seq(Positions), orders: Seq(Orders)]

TypeOK ==
  /\ acc \in Accounts
  /\ quotes \in Quotes
  /\ today \in Days
  /\ outcome \in {"committed", "version_conflict", "invalid_transition", "no_fill"}

Init ==
  /\ acc = [book |-> Activated, version |-> 0, positions |-> <<>>, orders |-> <<>>]
  /\ quotes \in [Symbols -> [price: Prices, stale: {FALSE}]]
  /\ today = 0
  /\ outcome = "committed"

-----------------------------------------------------------------------------
(* The account.                                                            *)

Placed(a, key) == \E i \in DOMAIN a.orders : a.orders[i].key = key
OpenPositions(a) == {p \in DOMAIN a.positions : a.positions[p].open > 0}
UnrealizedOf(a, p) == (quotes[a.positions[p].symbol].price - a.positions[p].entry) * a.positions[p].open

\* The sum of a list of amounts.
Total(amounts) ==
  LET sum[n \in 0..Len(amounts)] == IF n = 0 THEN 0 ELSE sum[n - 1] + amounts[n]
  IN  sum[Len(amounts)]

\* loadAccountFinancials values every open position, on a stale quote too; a
\* position with no lot left open comes to nothing.
Unrealized(a) == Total([p \in DOMAIN a.positions |-> UnrealizedOf(a, p)])
Equity(a) == Balance(a.book) + Unrealized(a)

\* isWithinAggregateExposureLimit
OpenLots(a, symbols) ==
  Total([p \in DOMAIN a.positions |->
           IF a.positions[p].symbol \in symbols THEN a.positions[p].open ELSE 0])
BucketLots(a, symbol) == OpenLots(a, {s \in Symbols : Bucket[s] = Bucket[symbol]})
\* A wrong limit: the other symbols of the bucket do not count.
SymbolWithinLimit(a, symbol, lots) == OpenLots(a, {symbol}) + lots <= ExposureLimit
WithinExposureLimit(a, symbol, lots) == BucketLots(a, symbol) + lots <= ExposureLimit

\* A transaction under way: the account it has written so far, the account row
\* the code holds (version and status as it last read or computed them), whether
\* an evaluation has just breached the account, and what was thrown.
Started(a) == [acc |-> a, version |-> a.version, status |-> a.book.status,
               breached |-> FALSE, thrown |-> "nothing"]
Throw(t, error) == [t EXCEPT !.thrown = error]

\* replayExistingOrder answers with the order and its fill; the order of a
\* modification and the master of a Close All, once filled, have no fill, and
\* loadFillSummary throws.
Replay(t, key) ==
  IF \E i \in DOMAIN t.acc.orders :
       /\ t.acc.orders[i].key = key
       /\ t.acc.orders[i].kind \in {"modify", "close_all"}
       /\ t.acc.orders[i].st = "filled"
  THEN Throw(t, "no_fill") ELSE [t EXCEPT !.breached = FALSE]

\* A wrong write: the version is not compared.
VersionIgnored(t) == TRUE
\* Every write updates the account where its version is the one held.
VersionHolds(t) == t.version = t.acc.version

\* The order row, and the account's version with it.
Record(t, key, kind, st) ==
  [t EXCEPT !.version = t.version + 1, !.acc.version = t.version + 1,
            !.acc.orders = Append(t.acc.orders,
              [key |-> key, kind |-> kind, st |-> st, seq |-> t.version + 1])]

\* evaluateAndApplyAccountRiskInTransaction at the end of a command.
Evaluate(t) ==
  LET risk == Evaluated(t.acc.book, today, Unrealized(t.acc), OpenPositions(t.acc) # {}, "trade_order")
  IN  IF ~risk.commits THEN Throw(t, "invalid_transition")
      ELSE [t EXCEPT !.acc.book = risk.book, !.breached = risk.breaches]

-----------------------------------------------------------------------------
(* Closing.                                                                *)

ClosableStatuses == {"active", "soft_locked", "breached"}

\* closePositionLocked up to its evaluation: lots = 0 is a full close.
CloseAllowed(t, p, lots) ==
  /\ p \in OpenPositions(t.acc)
  /\ t.status \in ClosableStatuses
  /\ ~quotes[t.acc.positions[p].symbol].stale
  /\ lots < t.acc.positions[p].open

\* A wrong fill: the position forgets what it realized before.
PnlOverwritten(a, p, closed, pnl) ==
  [a EXCEPT !.positions[p].open = @ - closed, !.positions[p].pnl = pnl,
            !.book = Post(a.book, today, pnl - Commission * closed)]
Realize(a, p, closed, pnl) ==
  [a EXCEPT !.positions[p].open = @ - closed, !.positions[p].pnl = @ + pnl,
            !.book = Post(a.book, today, pnl - Commission * closed)]

\* The not-active rejection is told apart: it comes after the position's check.
RejectedAs(t, p, allowing) ==
  IF p \in OpenPositions(t.acc) /\ t.status \notin allowing
  THEN "account_not_active" ELSE "rejected"

FillClose(t, key, p, lots) ==
  LET position == t.acc.positions[p]
      closed == IF lots = 0 THEN position.open ELSE lots
      pnl == (quotes[position.symbol].price - position.entry) * closed
      filled == Record(t, key, "close", "filled")
  IN  Evaluate([filled EXCEPT !.acc = Realize(filled.acc, p, closed, pnl)])

CloseOne(t, key, p, lots) ==
  IF t.thrown # "nothing" THEN t
  ELSE IF Placed(t.acc, key) THEN Replay(t, key)
  ELSE IF ~VersionHolds(t) THEN Throw(t, "version_conflict")
  ELSE IF ~CloseAllowed(t, p, lots)
       THEN [Record(t, key, "close", RejectedAs(t, p, ClosableStatuses)) EXCEPT !.breached = FALSE]
  ELSE FillClose(t, key, p, lots)

\* A wrong breach: only the oldest position is closed.
ForceFirst(t) ==
  LET fresh == Started(t.acc)
      first == CHOOSE p \in OpenPositions(t.acc) : \A q \in OpenPositions(t.acc) : p <= q
  IN  IF OpenPositions(t.acc) = {} THEN t ELSE CloseOne(fresh, <<0, first>>, first, 0)
\* closeAllOpenPositionsOnBreach reads the account again and closes what it can.
\* The evaluations of these closes find the account breached already.
ForceClosed(t) ==
  LET after[p \in 0..Len(t.acc.positions)] ==
        IF p = 0 THEN Started(t.acc)
        ELSE IF p \in OpenPositions(t.acc) THEN CloseOne(after[p - 1], <<0, p>>, p, 0)
        ELSE after[p - 1]
  IN  after[Len(t.acc.positions)]

\* The tail of a command: what a breach forces.  The version the command's
\* caller goes on with is the one computed before the forced closes.
Settle(t) ==
  IF t.thrown # "nothing" \/ ~t.breached THEN t
  ELSE LET forced == ForceClosed(t)
       IN  [t EXCEPT !.acc = forced.acc, !.thrown = forced.thrown]

ClosePositionLocked(t, key, p, lots) == Settle(CloseOne(t, key, p, lots))

\* closeAllPositions: the master order takes no version of its own; its children
\* go through closePositionLocked on the account row handed from one to the next.
MasterPlaced(a, k) ==
  [Started(a) EXCEPT !.acc.orders = Append(a.orders,
     [key |-> <<k, 0>>, kind |-> "close_all", st |-> "filled", seq |-> a.version])]
ChildrenClosed(a, k) ==
  LET after[p \in 0..Len(a.positions)] ==
        IF p = 0 THEN MasterPlaced(a, k)
        ELSE IF p \in OpenPositions(a) THEN ClosePositionLocked(after[p - 1], <<k, p>>, p, 0)
        ELSE after[p - 1]
  IN  after[Len(a.positions)]
\* The master ends filled if every child is, on the version of the last one.
MasterEnded(done, master, k) ==
  LET complete == \A i \in DOMAIN done.acc.orders :
                    done.acc.orders[i].key[1] = k => done.acc.orders[i].st = "filled"
  IN  [done EXCEPT !.acc.orders[master] =
         [@ EXCEPT !.seq = done.version, !.st = IF complete THEN "filled" ELSE "rejected"]]
CloseAllOf(a, k) == MasterEnded(ChildrenClosed(a, k), Len(a.orders) + 1, k)

-----------------------------------------------------------------------------
(* Commands.                                                               *)

\* The transaction commits, or an exception rolls it back.
Ends(t) ==
  /\ acc' = IF t.thrown = "nothing" THEN t.acc ELSE acc
  /\ outcome' = IF t.thrown = "nothing" THEN "committed" ELSE t.thrown
  /\ UNCHANGED <<quotes, today>>

\* Any key used before, or the next one.
ClientKeys == {k \in 1..MaxKeys : k = 1 \/ Placed(acc, <<k - 1, 0>>)}

\* openPosition.  `gated` is a refusal of findExposureIncreaseRejection.
OpeningStatus(status) == status \in {"active", "pass_pending"}
OpenPosition(k, symbol, lots, gated) ==
  LET t == Started(acc)
      allowed == /\ OpeningStatus(t.status) /\ ~gated /\ ~quotes[symbol].stale
                 /\ WithinExposureLimit(acc, symbol, lots)
      filled == Record(t, <<k, 0>>, "open", "filled")
      opened == [symbol |-> symbol, opened |-> lots, open |-> lots,
                 entry |-> quotes[symbol].price, pnl |-> 0]
  IN  /\ Len(acc.positions) < MaxPositions
      /\ IF Placed(acc, <<k, 0>>) THEN Ends(Replay(t, <<k, 0>>))
         ELSE IF ~allowed
         THEN Ends(Record(t, <<k, 0>>, "open",
                IF OpeningStatus(t.status) THEN "rejected" ELSE "account_not_active"))
         ELSE Ends(Settle(Evaluate([filled EXCEPT
                !.acc.positions = Append(acc.positions, opened),
                !.acc.book = Post(acc.book, today, -Commission * lots)])))

ClosePosition(k, p, lots) == Ends(ClosePositionLocked(Started(acc), <<k, 0>>, p, lots))

CloseAllPositions(k) ==
  IF Placed(acc, <<k, 0>>) THEN Ends(Started(acc)) ELSE Ends(CloseAllOf(acc, k))

ModifyPositionRisk(k, p) ==
  LET t == Started(acc)
      allowed == /\ p \in OpenPositions(acc)
                 /\ t.status \in {"active", "soft_locked"}
                 /\ ~quotes[acc.positions[p].symbol].stale
  IN  IF Placed(acc, <<k, 0>>) THEN Ends(Replay(t, <<k, 0>>))
      ELSE IF ~allowed
      THEN Ends(Record(t, <<k, 0>>, "modify",
                RejectedAs(t, p, {"active", "soft_locked"})))
      ELSE Ends(Settle(Evaluate(Record(t, <<k, 0>>, "modify", "filled"))))

Tick(symbol, price, stale) ==
  /\ quotes' = [quotes EXCEPT ![symbol] = [price |-> price, stale |-> stale]]
  /\ quotes' # quotes
  /\ UNCHANGED <<acc, today, outcome>>

Midnight ==
  /\ today < MaxDay
  /\ today' = today + 1
  /\ UNCHANGED <<acc, quotes, outcome>>

Open == \E k \in ClientKeys, s \in Symbols, lots \in Lots, gated \in BOOLEAN :
          OpenPosition(k, s, lots, gated)
Close == \E k \in ClientKeys, p \in DOMAIN acc.positions, lots \in {0} \cup Lots :
           ClosePosition(k, p, lots)
CloseAll == \E k \in ClientKeys : CloseAllPositions(k)
Modify == \E k \in ClientKeys, p \in DOMAIN acc.positions : ModifyPositionRisk(k, p)
Quote == \E s \in Symbols, price \in Prices, stale \in BOOLEAN : Tick(s, price, stale)

Next == Open \/ Close \/ CloseAll \/ Modify \/ Quote \/ Midnight

Spec == Init /\ [][Next]_vars

-----------------------------------------------------------------------------
(* Properties.                                                             *)

Live(a) == a.book.status \in {"active", "soft_locked", "pass_pending"}

\* A retried command decides nothing twice and nothing decided ever changes,
\* whatever was retried, rejected, or closed by a breach in the middle of a
\* command; the versions the client's sequence gate reads have no gap.
Decided == INSTANCE DecidedOrders WITH orders <- acc.orders, version <- acc.version
DecidedOnce == Decided!Spec

\* The ledger tells the same story as the positions, none of which is closed
\* beyond what it holds: the balance is the nominal balance, what the positions
\* realized, less the commission of every lot.
LedgerMatchesPositions ==
  TypeOK /\ Balance(acc.book) = Nominal + Total([p \in DOMAIN acc.positions |->
    acc.positions[p].pnl
      - Commission * (2 * acc.positions[p].opened - acc.positions[p].open)])

\* The open lots of a bucket never exceed its limit.
ExposureStaysWithinLimit == \A s \in Symbols : BucketLots(acc, s) <= ExposureLimit

\* A filled command leaves no account live on or under its floor, all open
\* positions valued at the quotes the command read.
FilledCommandsLeaveNoBreach ==
  [][/\ Len(acc'.orders) > Len(acc.orders)
     /\ acc'.orders[Len(acc'.orders)].st = "filled"
     /\ acc'.orders[Len(acc'.orders)].kind # "close_all"
     /\ Live(acc')
     => Equity(acc)' > FloorInForce(acc'.book)]_vars

\* maximum_loss.close_positions_on_breach: when a command breaches the account,
\* every position with a fresh quote is closed in the same transaction.
BreachClosesWhatItCan ==
  [][acc.book.status # "breached" /\ acc'.book.status = "breached" =>
       \A p \in OpenPositions(acc') : quotes[acc'.positions[p].symbol].stale]_vars
=============================================================================

------------------------- MODULE PositionReductions -------------------------
(***************************************************************************)
(* The positions of one account on one symbol and everything that reduces  *)
(* them: immediate closes, the queue of reductions that were asked for     *)
(* while the market was stale (position-reduction-queue.ts), stop losses   *)
(* and take profits (position-protections.ts) and the closes of a breach.  *)
(*                                                                         *)
(* A command that locks the account's row is one step.  Queuing locks      *)
(* nothing: it reads the position and inserts its row later.  Cancelling   *)
(* is one guarded update.  Both families of scans are started by ticks,    *)
(* read their candidates without a lock and run one transaction for each;  *)
(* scans of successive ticks overlap.  A tick is fresh for its own scans.  *)
(* One scan works off the rows of every account: a row that throws drops   *)
(* the rows behind it, and `jammed` says which scans meet such a row of    *)
(* another account, or an error, at the moment.                            *)
(*                                                                         *)
(* An idempotency key names a close: the immediate one, the queued one, or *)
(* both, when the trader sends it first as one and then as the other.  A   *)
(* modification may have spent it, too.                                    *)
(* Positions are long and there are no amounts: an evaluation gives any    *)
(* verdict that RiskVerdicts allows.                                       *)
(***************************************************************************)
EXTENDS Integers, FiniteSetsExt, RiskVerdicts

CONSTANTS Positions,
          Opened,       \* the lots a position is opened with
          Keys,         \* the idempotency keys of closes
          Quantities,   \* the lots a partial close may ask for
          Prices,
          NoLevel,      \* a protection that is not set
          Reducers,     \* bound: the scans for reductions in flight at a time
          Guards,       \* bound: the scans for protections in flight at a time
          Jams          \* bound: the families of scans that may be jammed

ASSUME ReductionAssumption ==
  /\ Opened \in [Positions -> Nat \ {0}]
  /\ Quantities \subseteq Nat \ {0}
  /\ Prices \subseteq Int /\ NoLevel \notin Int
  /\ Jams \subseteq {"reductions", "protections"}

VARIABLES status,    \* the account's status
          position,  \* app.positions
          orders,    \* the trade order under each key
          derived,   \* lots closed under derived keys: protections and breaches
          queue,     \* app.position_reduction_queue, by key
          request,   \* the queue requests that have read their position
          reducer,   \* the scans for reductions
          guard,     \* the scans for protections
          jammed     \* the scans that something outside the account makes throw

vars == <<status, position, orders, derived, queue, request, reducer, guard, jammed>>

Full == 0            \* the quantity of a close in mode "full"
Asked == Quantities \cup {Full}
Levels == Prices \cup {NoLevel}

Requests == [key: Keys, pos: Positions, lots: Asked]
Unplaced == [result |-> "none", pos |-> NoLevel, lots |-> 0]
Unqueued == [st |-> "none", pos |-> NoLevel, lots |-> 0]
Settled == {"executed", "failed", "cancelled"}

TypeOK ==
  /\ status \in Statuses
  /\ position \in [Positions -> [st: {"none", "open", "closed"}, lots: Nat,
                                 stop: Levels, target: Levels]]
  /\ \A p \in Positions : position[p].st = "open" <=> position[p].lots > 0
  /\ orders \in [Keys -> [result: {"none", "filled", "rejected", "modified"},
                          pos: Positions \cup {NoLevel}, lots: Nat]]
  /\ derived \in [Positions -> Nat]
  /\ queue \in [Keys -> [st: {"none", "queued"} \cup Settled,
                         pos: Positions \cup {NoLevel}, lots: Asked]]
  /\ request \subseteq Requests
  /\ reducer \in [Reducers -> [st: {"idle", "ticked", "rows"}, rows: SUBSET Keys]]
  /\ guard \in [Guards -> [st: {"idle", "ticked", "rows"}, price: Prices \cup {0},
                           rows: SUBSET Positions]]
  /\ jammed \subseteq Jams

IdleReducer == [st |-> "idle", rows |-> {}]
IdleGuard == [st |-> "idle", price |-> 0, rows |-> {}]

Init ==
  /\ status = "active"
  /\ position = [p \in Positions |->
       [st |-> "none", lots |-> 0, stop |-> NoLevel, target |-> NoLevel]]
  /\ orders = [k \in Keys |-> Unplaced]
  /\ derived = [p \in Positions |-> 0]
  /\ queue = [k \in Keys |-> Unqueued]
  /\ request = {}
  /\ reducer = [r \in Reducers |-> IdleReducer]
  /\ guard = [g \in Guards |-> IdleGuard]
  /\ jammed = {}

IsOpen(p) == position[p].st = "open"

-----------------------------------------------------------------------------
(* closePositionLocked.                                                    *)

With(p, lots) == [position EXCEPT ![p].lots = lots,
                                  ![p].st = IF lots = 0 THEN "closed" ELSE "open"]
FlatIn(positions) == \A p \in Positions : positions[p].lots = 0

\* isPartialCloseQuantityValid: a partial close leaves something open.
ValidQuantity(p, q) == q = Full \/ q < position[p].lots
ClosableStatuses == {"active", "soft_locked", "breached"}
CloseAllowed(p, q) == /\ IsOpen(p)
                      /\ status \in ClosableStatuses
                      /\ ValidQuantity(p, q)

\* A wrong full close: it takes what was opened, not what is left.
LotsOpened(p, q) == IF q = Full THEN Opened[p] ELSE q
LotsOf(p, q) == IF q = Full THEN position[p].lots ELSE q

\* Risk is evaluated after the command; a breach closes all that is left, at the
\* quote of the command, which is fresh, under keys of its own.
Evaluate(positions, byKeys) ==
  \E verdict \in Verdicts(status, FlatIn(positions)) :
    /\ status' = verdict
    /\ IF verdict = "breached" /\ status # "breached"
       THEN /\ position' = [p \in Positions |-> IF positions[p].st = "open"
                 THEN [positions[p] EXCEPT !.lots = 0, !.st = "closed"] ELSE positions[p]]
            /\ derived' = [p \in Positions |-> byKeys[p] + positions[p].lots]
       ELSE position' = positions /\ derived' = byKeys

\* The close reaches the objective under a soft lock: all is rolled back.
RolledBack(p, q) ==
  MayRollBack(status, FlatIn(With(p, position[p].lots - LotsOf(p, q))))

\* A wrong replay: a key that was decided is decided again.
NeverPlaced(k) == FALSE
\* findExistingOrder: a key is decided once.
Placed(k) == orders[k].result # "none"

\* The order that the close under key k leaves, and its effect.
CloseLocked(k, p, q, allowed) ==
  IF allowed
  THEN /\ orders' = [orders EXCEPT ![k] =
            [result |-> "filled", pos |-> p, lots |-> LotsOf(p, q)]]
       /\ Evaluate(With(p, position[p].lots - LotsOf(p, q)), derived)
  ELSE /\ orders' = [orders EXCEPT ![k] = [result |-> "rejected", pos |-> p, lots |-> 0]]
       /\ UNCHANGED <<status, position, derived>>

-----------------------------------------------------------------------------
(* The trader and the worker.                                              *)

\* openPosition, with its levels.
Open(p, stop, target) ==
  /\ position[p].st = "none"
  /\ status \in {"active", "pass_pending"}
  /\ Evaluate([position EXCEPT ![p] =
       [st |-> "open", lots |-> Opened[p], stop |-> stop, target |-> target]], derived)
  /\ UNCHANGED <<orders, queue, request, reducer, guard, jammed>>

\* closePosition at the market; a stale quote is refused.
Close(k, p, q) ==
  /\ position[p].st # "none" /\ ~Placed(k)
  /\ \E stale \in BOOLEAN : CloseLocked(k, p, q, CloseAllowed(p, q) /\ ~stale)
  /\ UNCHANGED <<queue, request, reducer, guard, jammed>>

\* modifyPositionRisk: the quote is fresh; the level is compared with nothing.
\* Its order has a key of its own, or one that a close is sent with later.
Modify(p, level) ==
  /\ IsOpen(p) /\ status \in {"active", "soft_locked"}
  /\ \/ Evaluate([position EXCEPT ![p].stop = level], derived)
     \/ Evaluate([position EXCEPT ![p].target = level], derived)
  /\ \/ UNCHANGED orders
     \/ \E k \in Keys : /\ ~Placed(k)
                       /\ orders' = [orders EXCEPT ![k] =
                            [result |-> "modified", pos |-> p, lots |-> 0]]
  /\ UNCHANGED <<queue, request, reducer, guard, jammed>>

\* queuePositionReduction up to its INSERT: the market is stale, the position
\* open, the quantity valid as read.  Bound: one such request at a time.
QueueRead(k, p, q) ==
  /\ queue[k].st = "none"
  /\ IsOpen(p) /\ ValidQuantity(p, q)
  /\ request = {}
  /\ request' = {[key |-> k, pos |-> p, lots |-> q]}
  /\ UNCHANGED <<status, position, orders, derived, queue, reducer, guard, jammed>>

QueueWrite == \E r \in request :
  /\ queue' = [queue EXCEPT ![r.key] = [st |-> "queued", pos |-> r.pos, lots |-> r.lots]]
  /\ request' = request \ {r}
  /\ UNCHANGED <<status, position, orders, derived, reducer, guard, jammed>>

\* cancelQueuedReduction: one guarded update.
Cancel(k) ==
  /\ queue[k].st = "queued"
  /\ queue' = [queue EXCEPT ![k].st = "cancelled"]
  /\ UNCHANGED <<status, position, orders, derived, request, reducer, guard, jammed>>

Jam ==
  /\ jammed' \in SUBSET Jams
  /\ UNCHANGED <<status, position, orders, derived, queue, request, reducer, guard>>

WorkerEvaluate ==
  /\ status' \in Finalizations(status, FlatIn(position))
  /\ UNCHANGED <<position, orders, derived, queue, request, reducer, guard, jammed>>

-----------------------------------------------------------------------------
(* The scans for reductions.                                               *)

ReducerTick(r) ==
  /\ reducer[r].st = "idle"
  /\ reducer' = [reducer EXCEPT ![r].st = "ticked"]
  /\ UNCHANGED <<status, position, orders, derived, queue, request, guard, jammed>>

ReducerRows(r, rows) ==
  reducer' = [reducer EXCEPT ![r] =
    IF rows = {} THEN IdleReducer ELSE [st |-> "rows", rows |-> rows]]

\* Queued rows of open positions.
ReducerRead(r) ==
  /\ reducer[r].st = "ticked"
  /\ ReducerRows(r, {k \in Keys : queue[k].st = "queued" /\ IsOpen(queue[k].pos)})
  /\ UNCHANGED <<status, position, orders, derived, queue, request, guard, jammed>>

\* A wrong claim: the row's status is not asked again.
AnyClaimed(k) == queue[k].st # "none"
StillQueued(k) == queue[k].st = "queued"

\* Wrong settlements: a rejected close counts as executed, or is tried again.
AlwaysExecuted(result) == "executed"
TriedAgain(result) == IF result = "filled" THEN "executed" ELSE "queued"
SettledAs(result) == IF result = "filled" THEN "executed" ELSE "failed"

\* The replay of a modification under the row's key finds no fill and throws.
ReplayThrows(k) == orders[k].result = "modified"
\* So does the close when the status table refuses what risk recommends.
CloseThrows(k) == /\ ~Placed(k) /\ CloseAllowed(queue[k].pos, queue[k].lots)
                  /\ RolledBack(queue[k].pos, queue[k].lots)

\* One transaction: claim, close under the row's key or replay it, settlement.
Execute(r, k) ==
  /\ k \in reducer[r].rows
  /\ ReducerRows(r, reducer[r].rows \ {k})
  /\ IF ~StillQueued(k) THEN UNCHANGED <<status, position, orders, derived, queue>>
     ELSE /\ ~ReplayThrows(k)
          /\ IF Placed(k) THEN UNCHANGED <<status, position, orders, derived>>
             ELSE CloseLocked(k, queue[k].pos, queue[k].lots,
                              CloseAllowed(queue[k].pos, queue[k].lots))
          /\ queue' = [queue EXCEPT ![k].st = SettledAs(orders'[k].result)]
  /\ UNCHANGED <<request, guard, jammed>>

\* A transaction throws, of this account or of another's: the rest of the scan
\* is dropped, the row that threw stays queued.
ReducerAbort(r) ==
  /\ reducer[r].st # "idle"
  /\ \/ "reductions" \in jammed
     \/ \E k \in reducer[r].rows : StillQueued(k) /\ (ReplayThrows(k) \/ CloseThrows(k))
  /\ reducer' = [reducer EXCEPT ![r] = IdleReducer]
  /\ UNCHANGED <<status, position, orders, derived, queue, request, guard, jammed>>

-----------------------------------------------------------------------------
(* The scans for protections.                                              *)

\* A wrong stop: a price exactly on the level does not count.
HitBelow(p, price) ==
  \/ position[p].stop # NoLevel /\ price < position[p].stop
  \/ position[p].target # NoLevel /\ price > position[p].target
\* resolvePositionProtectionTrigger
Hit(p, price) ==
  \/ position[p].stop # NoLevel /\ price <= position[p].stop
  \/ position[p].target # NoLevel /\ price >= position[p].target

GuardTick(g, price) ==
  /\ guard[g].st = "idle"
  /\ guard' = [guard EXCEPT ![g].st = "ticked", ![g].price = price]
  /\ UNCHANGED <<status, position, orders, derived, queue, request, reducer, jammed>>

GuardRows(g, rows) ==
  guard' = [guard EXCEPT ![g] =
    IF rows = {} THEN IdleGuard ELSE [st |-> "rows", price |-> @.price, rows |-> rows]]

GuardRead(g) ==
  /\ guard[g].st = "ticked"
  /\ GuardRows(g, {p \in Positions : IsOpen(p) /\
       (position[p].stop # NoLevel \/ position[p].target # NoLevel)})
  /\ UNCHANGED <<status, position, orders, derived, queue, request, reducer, jammed>>

\* One transaction: the position as it is under the lock, closed in full under a
\* key made of position, protection and tick; a rejected one leaves an order only.
Protect(g, p) ==
  /\ p \in guard[g].rows
  /\ GuardRows(g, guard[g].rows \ {p})
  /\ IF IsOpen(p) /\ Hit(p, guard[g].price) /\ CloseAllowed(p, Full)
     THEN Evaluate(With(p, 0), [derived EXCEPT ![p] = @ + LotsOf(p, Full)])
     ELSE UNCHANGED <<status, position, derived>>
  /\ UNCHANGED <<orders, queue, request, reducer, jammed>>

GuardAbort(g) ==
  /\ guard[g].st # "idle"
  /\ \/ "protections" \in jammed
     \/ \E p \in guard[g].rows : /\ Hit(p, guard[g].price)
                                 /\ CloseAllowed(p, Full) /\ RolledBack(p, Full)
  /\ guard' = [guard EXCEPT ![g] = IdleGuard]
  /\ UNCHANGED <<status, position, orders, derived, queue, request, reducer, jammed>>

-----------------------------------------------------------------------------
Trader == \/ \E p \in Positions, stop, target \in Levels : Open(p, stop, target)
          \/ \E p \in Positions, level \in Levels : Modify(p, level)
          \/ \E k \in Keys, p \in Positions, q \in Asked : Close(k, p, q) \/ QueueRead(k, p, q)
          \/ QueueWrite
          \/ \E k \in Keys : Cancel(k)

ReducerStep(r) == ReducerRead(r) \/ ReducerAbort(r) \/ \E k \in reducer[r].rows : Execute(r, k)
GuardStep(g) == GuardRead(g) \/ GuardAbort(g) \/ \E p \in guard[g].rows : Protect(g, p)

Next == \/ Trader
        \/ WorkerEvaluate
        \/ Jam
        \/ \E r \in Reducers : ReducerTick(r) \/ ReducerStep(r)
        \/ \E g \in Guards : GuardStep(g) \/ \E price \in Prices : GuardTick(g, price)

Spec == Init /\ [][Next]_vars

\* A scan, once started, goes on; nothing is assumed of the feed or the trader.
FairSpec == /\ Spec
            /\ \A r \in Reducers : WF_vars(ReducerStep(r))
            /\ \A g \in Guards : WF_vars(GuardStep(g))

-----------------------------------------------------------------------------
(* Properties.                                                             *)

\* A queued reduction ends as its close does, also when it replays an immediate
\* close of the same key (executeQueuedReductions).
ExecutedWithItsOrder == \A k \in Keys :
  /\ queue[k].st = "executed" => orders[k].result = "filled"
  /\ queue[k].st = "failed" => orders[k].result = "rejected"

\* What is open of a position is what was opened less what orders closed: no key
\* closes twice, and queued, immediate, protective and forced closes never take
\* the same lots.
LotsAreAccountedFor == \A p \in Positions : position[p].st # "none" =>
  position[p].lots + derived[p]
    + MapThenSumSet(LAMBDA k : orders[k].lots, {k \in Keys : orders[k].pos = p}) = Opened[p]

\* "allow cancellation only if it has not executed", and the reverse: a reduction
\* that ended, by its trader or by a scan, stays as it ended.
SettledStaysSettled ==
  [][\A k \in Keys : queue[k].st \in Settled => queue'[k].st = queue[k].st]_vars

\* A row that no scan can settle: it is queued under the key of a modification.
\* A scan that meets it gives up the rows behind it.
Stuck(k) == StillQueued(k) /\ ReplayThrows(k) /\ IsOpen(queue[k].pos)

Left(k, p) == StillQueued(k) /\ queue[k].pos = p /\ IsOpen(p) /\ status # "soft_locked"

\* A queued reduction of a position that stays open is not left behind by ticks,
\* whatever scans overlapped, failed or came too early, once no row of another
\* account and no stuck row makes them throw.  Under a soft lock its close may be
\* rolled back each time.
QueuedReductionsSettle == \A k \in Keys, p \in Positions :
  /\ []<><<\E r \in Reducers : ReducerTick(r)>>_vars
  /\ <>[]("reductions" \notin jammed)
  /\ <>[](\A j \in Keys : ~Stuck(j))
  => []<>~Left(k, p)

\* Nor is an open position whose stop loss ticks keep reaching, in the statuses
\* that let it close, once no row of another account makes the scans throw.
StopsFire == \A p \in Positions, stop, price \in Prices :
  /\ price <= stop
  /\ []<><<\E g \in Guards : GuardTick(g, price)>>_vars
  /\ <>[]("protections" \notin jammed)
  => []<>(~IsOpen(p) \/ position[p].stop # stop \/ status \notin {"active", "breached"})
=============================================================================

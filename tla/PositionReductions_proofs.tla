---------------------- MODULE PositionReductions_proofs ----------------------
(***************************************************************************)
(* Theorems about PositionReductions, for any positions, lots, keys,       *)
(* levels and number of overlapping scans.                                 *)
(***************************************************************************)
EXTENDS PositionReductions, FiniteSetTheorems, WellFoundedInduction, TLAPS

\* A request that has read its position finds its key free when it inserts.
RequestedIsUnqueued == \A r \in request : queue[r.key].st = "none"

\* The bound of QueueRead.
OneRequest == \A r, s \in request : r = s

QueuedHasPosition == \A k \in Keys : queue[k].st # "none" => queue[k].pos \in Positions

IInv == /\ TypeOK /\ ExecutedWithItsOrder
        /\ RequestedIsUnqueued /\ OneRequest /\ QueuedHasPosition

-----------------------------------------------------------------------------
(* The building blocks.                                                    *)

Position == [st: {"none", "open", "closed"}, lots: Nat, stop: Levels, target: Levels]
TradeOrder == [result: {"none", "filled", "rejected", "modified"},
               pos: Positions \cup {NoLevel}, lots: Nat]
Entry == [st: {"none", "queued"} \cup Settled, pos: Positions \cup {NoLevel}, lots: Asked]
ReducerState == [st: {"idle", "ticked", "rows"}, rows: SUBSET Keys]
GuardState == [st: {"idle", "ticked", "rows"}, price: Prices \cup {0}, rows: SUBSET Positions]

OpenHasLots(positions) == \A p \in Positions : positions[p].st = "open" <=> positions[p].lots > 0

\* What a transaction on the account may do to status, positions and derived lots.
AccountTypes ==
  /\ status' \in Statuses
  /\ position' \in [Positions -> Position] /\ OpenHasLots(position')
  /\ derived' \in [Positions -> Nat]

\* An evaluation, with the closes of a breach, keeps the types.
LEMMA EvaluateTypes ==
  ASSUME status \in Statuses,
         NEW positions \in [Positions -> Position], OpenHasLots(positions),
         NEW byKeys \in [Positions -> Nat], Evaluate(positions, byKeys)
  PROVE  AccountTypes
<1>1. PICK verdict \in Verdicts(status, FlatIn(positions)) : Evaluate(positions, byKeys)!(verdict)
  BY DEF Evaluate
<1>2. status' \in Statuses
  BY <1>1 DEF Verdicts, Statuses
<1>3. CASE verdict = "breached" /\ status # "breached"
  <2> DEFINE shut(r) == [r EXCEPT !.lots = 0, !.st = "closed"]
             closed(r) == IF r.st = "open" THEN shut(r) ELSE r
  <2>1. \A r \in Position : shut(r) \in Position /\ shut(r).st = "closed" /\ shut(r).lots = 0
    <3> DEFINE set(r, z) == [r EXCEPT !.lots = z, !.st = "closed"]
    <3>1. \A r \in Position, z \in Nat :
            set(r, z) \in Position /\ set(r, z).st = "closed" /\ set(r, z).lots = z
      BY DEF Position
    <3>2. \A r \in Position : shut(r) = set(r, 0)
      OBVIOUS
    <3> HIDE DEF shut, set
    <3> QED BY <3>1, <3>2
  <2>2. position' = [p \in Positions |-> closed(positions[p])]
    BY <1>1, <1>3
  <2>3. derived' = [p \in Positions |-> byKeys[p] + positions[p].lots]
    BY <1>1, <1>3
  <2> HIDE DEF shut
  <2>4. \A p \in Positions : /\ position'[p] \in Position
                             /\ position'[p].st = "open" <=> position'[p].lots > 0
    <3> SUFFICES ASSUME NEW p \in Positions
                 PROVE  /\ position'[p] \in Position
                        /\ position'[p].st = "open" <=> position'[p].lots > 0
      OBVIOUS
    <3>1. positions[p] \in Position /\ (positions[p].st = "open" <=> positions[p].lots > 0)
      BY DEF OpenHasLots
    <3>2. CASE positions[p].st = "open"
      BY <2>1, <2>2, <3>1, <3>2
    <3>3. CASE positions[p].st # "open"
      BY <2>2, <3>1, <3>3
    <3> QED BY <3>2, <3>3
  <2>5. \A p \in Positions : byKeys[p] + positions[p].lots \in Nat
    BY DEF Position
  <2>6. position' \in [Positions -> Position] /\ derived' \in [Positions -> Nat]
    BY <2>2, <2>3, <2>4, <2>5
  <2> QED BY <1>2, <2>4, <2>6 DEF AccountTypes, OpenHasLots
<1>4. CASE ~(verdict = "breached" /\ status # "breached")
  <2>1. position' = positions /\ derived' = byKeys
    BY <1>1, <1>4
  <2> QED BY <1>2, <2>1 DEF AccountTypes
<1> QED BY <1>3, <1>4

\* A reduction keeps a position open exactly while lots are left.
LEMMA WithTypes ==
  ASSUME TypeOK, NEW p \in Positions, NEW lots \in Nat
  PROVE  With(p, lots) \in [Positions -> Position] /\ OpenHasLots(With(p, lots))
<1> DEFINE new == [position[p] EXCEPT !.lots = lots,
                                      !.st = IF lots = 0 THEN "closed" ELSE "open"]
<1>1. position \in [Positions -> Position] /\ OpenHasLots(position)
  BY DEF TypeOK, Position, OpenHasLots
<1>2. new \in Position /\ (new.st = "open" <=> new.lots > 0)
  <2> DEFINE set(l, s) == [position[p] EXCEPT !.lots = l, !.st = s]
  <2>1. \A l \in Nat, s \in {"open", "closed"} :
          set(l, s) \in Position /\ set(l, s).lots = l /\ set(l, s).st = s
    BY <1>1 DEF Position
  <2>2. new = set(lots, IF lots = 0 THEN "closed" ELSE "open")
    OBVIOUS
  <2> HIDE DEF new, set
  <2>3. CASE lots = 0
    BY <2>1, <2>2, <2>3
  <2>4. CASE lots # 0
    BY <2>1, <2>2, <2>4
  <2> QED BY <2>3, <2>4
<1>3. With(p, lots) = [position EXCEPT ![p] = new]
  BY <1>1 DEF With
<1> HIDE DEF new
<1> QED BY <1>1, <1>2, <1>3 DEF OpenHasLots

\* What is left after a close that is allowed is a number of lots.
LEMMA ClosedLots ==
  ASSUME TypeOK, ReductionAssumption, NEW p \in Positions, NEW q \in Asked, CloseAllowed(p, q)
  PROVE  LotsOf(p, q) \in Nat /\ position[p].lots - LotsOf(p, q) \in Nat
<1>1. position[p].lots \in Nat
  BY DEF TypeOK
<1>2. CASE q = Full
  BY <1>1, <1>2 DEF LotsOf
<1>3. CASE q # Full
  <2>1. q \in Nat /\ q < position[p].lots
    BY <1>3 DEF CloseAllowed, ValidQuantity, Asked, ReductionAssumption
  <2> QED BY <1>1, <1>3, <2>1 DEF LotsOf
<1> QED BY <1>2, <1>3

\* The close under a key decides that key and no other.
LEMMA CloseEffect ==
  ASSUME TypeOK, ReductionAssumption, NEW k \in Keys, NEW p \in Positions, NEW q \in Asked,
         NEW allowed \in BOOLEAN, allowed => CloseAllowed(p, q), CloseLocked(k, p, q, allowed)
  PROVE  /\ AccountTypes
         /\ orders' \in [Keys -> TradeOrder]
         /\ orders'[k].result \in {"filled", "rejected"}
         /\ \A i \in Keys : i # k => orders'[i] = orders[i]
<1>1. orders \in [Keys -> TradeOrder] /\ status \in Statuses /\ derived \in [Positions -> Nat]
  BY DEF TypeOK, TradeOrder
<1>2. CASE allowed
  <2> DEFINE left == position[p].lots - LotsOf(p, q)
             new == [result |-> "filled", pos |-> p, lots |-> LotsOf(p, q)]
  <2>1. LotsOf(p, q) \in Nat /\ left \in Nat
    BY <1>2, ClosedLots
  <2>2. new \in TradeOrder /\ new.result = "filled"
    BY <2>1 DEF TradeOrder
  <2>3. orders' = [orders EXCEPT ![k] = new] /\ Evaluate(With(p, left), derived)
    BY <1>2 DEF CloseLocked
  <2> HIDE DEF left, new
  <2>4. AccountTypes
    <3>1. With(p, left) \in [Positions -> Position] /\ OpenHasLots(With(p, left))
      BY <2>1, WithTypes
    <3> QED BY <1>1, <2>3, <3>1, EvaluateTypes
  <2> QED BY <1>1, <2>2, <2>3, <2>4
<1>3. CASE ~allowed
  <2> DEFINE new == [result |-> "rejected", pos |-> p, lots |-> 0]
  <2>1. new \in TradeOrder /\ new.result = "rejected"
    BY DEF TradeOrder
  <2>2. orders' = [orders EXCEPT ![k] = new] /\ UNCHANGED <<status, position, derived>>
    BY <1>3 DEF CloseLocked
  <2> HIDE DEF new
  <2>3. AccountTypes
    BY <2>2 DEF AccountTypes, TypeOK, Position, OpenHasLots
  <2> QED BY <1>1, <2>1, <2>2, <2>3
<1> QED BY <1>2, <1>3

\* A scan that drops a row keeps its type.
LEMMA ReducerTypes ==
  ASSUME TypeOK, NEW r \in Reducers, NEW rows \in SUBSET Keys, ReducerRows(r, rows)
  PROVE  reducer' \in [Reducers -> ReducerState]
<1>1. IdleReducer \in ReducerState /\ [st |-> "rows", rows |-> rows] \in ReducerState
  BY DEF IdleReducer, ReducerState
<1> QED BY <1>1 DEF ReducerRows, TypeOK, ReducerState

LEMMA GuardTypes ==
  ASSUME TypeOK, NEW g \in Guards, NEW rows \in SUBSET Positions, GuardRows(g, rows)
  PROVE  guard' \in [Guards -> GuardState]
<1>1. guard[g].price \in Prices \cup {0} /\ guard \in [Guards -> GuardState]
  BY DEF TypeOK, GuardState
<1>2. /\ IdleGuard \in GuardState
      /\ [st |-> "rows", price |-> guard[g].price, rows |-> rows] \in GuardState
  BY <1>1 DEF IdleGuard, GuardState
<1> QED BY <1>1, <1>2 DEF GuardRows

\* A step that decides no key and leaves the queue alone.
LEMMA AccountStep ==
  ASSUME IInv, AccountTypes, guard' \in [Guards -> GuardState],
         reducer' \in [Reducers -> ReducerState], jammed' \subseteq Jams,
         UNCHANGED <<orders, queue, request>>
  PROVE  IInv'
<1>1. TypeOK'
  BY DEF IInv, TypeOK, AccountTypes, Position, OpenHasLots, ReducerState, GuardState
<1> QED BY <1>1 DEF IInv, ExecutedWithItsOrder, RequestedIsUnqueued, OneRequest,
                    QueuedHasPosition

\* The same, with the scans left alone.
LEMMA TraderStep ==
  ASSUME IInv, AccountTypes, UNCHANGED <<orders, queue, request, reducer, guard, jammed>>
  PROVE  IInv'
<1>1. /\ guard' \in [Guards -> GuardState] /\ reducer' \in [Reducers -> ReducerState]
      /\ jammed' \subseteq Jams
  BY DEF IInv, TypeOK, GuardState, ReducerState
<1> QED BY <1>1, AccountStep

LEMMA SameAccount ==
  ASSUME TypeOK, UNCHANGED <<status, position, derived>>
  PROVE  AccountTypes
BY DEF AccountTypes, TypeOK, Position, OpenHasLots

-----------------------------------------------------------------------------
(* The inductive invariant.                                                *)

THEOREM InitInvariant == Init => IInv
<1> SUFFICES ASSUME Init PROVE IInv
  OBVIOUS
<1>1. /\ IdleReducer \in ReducerState /\ IdleGuard \in GuardState
      /\ Unplaced \in TradeOrder /\ Unqueued \in Entry
  BY DEF IdleReducer, IdleGuard, ReducerState, GuardState, Unplaced, Unqueued, TradeOrder,
         Entry, Settled, Asked, Full
<1>2. [st |-> "none", lots |-> 0, stop |-> NoLevel, target |-> NoLevel] \in Position
  BY DEF Position, Levels
<1>3. position \in [Positions -> Position] /\ OpenHasLots(position)
  BY <1>2 DEF Init, OpenHasLots
<1>4. TypeOK
  BY <1>1, <1>3 DEF Init, TypeOK, Statuses, Position, OpenHasLots, TradeOrder, Entry,
                    ReducerState, GuardState, Requests
<1>5. ExecutedWithItsOrder /\ RequestedIsUnqueued /\ OneRequest /\ QueuedHasPosition
  BY DEF Init, Unqueued, ExecutedWithItsOrder, RequestedIsUnqueued, OneRequest,
         QueuedHasPosition
<1> QED BY <1>4, <1>5 DEF IInv

\* The trader's commands on positions.
LEMMA OpenKeeps ==
  ASSUME IInv, ReductionAssumption, NEW p \in Positions, NEW stop \in Levels,
         NEW target \in Levels, Open(p, stop, target)
  PROVE  IInv'
<1> DEFINE new == [st |-> "open", lots |-> Opened[p], stop |-> stop, target |-> target]
           positions == [position EXCEPT ![p] = new]
<1>1. Opened[p] \in Nat /\ Opened[p] > 0
  BY DEF ReductionAssumption
<1>2. new \in Position /\ new.st = "open" /\ new.lots > 0
  BY <1>1 DEF Position
<1>3. position \in [Positions -> Position] /\ OpenHasLots(position)
  BY DEF IInv, TypeOK, Position, OpenHasLots
<1>4. Evaluate(positions, derived)
  BY DEF Open
<1> HIDE DEF new
<1>5. positions \in [Positions -> Position] /\ OpenHasLots(positions)
  BY <1>2, <1>3 DEF OpenHasLots
<1> HIDE DEF positions
<1>6. status \in Statuses /\ derived \in [Positions -> Nat]
  BY DEF IInv, TypeOK
<1>7. AccountTypes
  BY <1>4, <1>5, <1>6, EvaluateTypes
<1> QED BY <1>7, TraderStep DEF Open

\* A modification decides a key that nothing had decided, or none, and takes no lots.
LEMMA ModifiedOrders ==
  ASSUME TypeOK, NEW p \in Positions, NEW level \in Levels, Modify(p, level)
  PROVE  /\ orders' \in [Keys -> TradeOrder]
         /\ \A i \in Keys : orders[i].result # "none" => orders'[i] = orders[i]
         /\ \/ UNCHANGED orders
            \/ \E k \in Keys : /\ orders[k].result = "none" /\ orders'[k].lots = 0
                              /\ orders'[k].result # "none"
                              /\ \A i \in Keys : i # k => orders'[i] = orders[i]
<1>1. orders \in [Keys -> TradeOrder]
  BY DEF TypeOK, TradeOrder
<1>2. CASE UNCHANGED orders
  BY <1>1, <1>2
<1> DEFINE new == [result |-> "modified", pos |-> p, lots |-> 0]
<1>3. ASSUME NEW k \in Keys, ~Placed(k), orders' = [orders EXCEPT ![k] = new]
      PROVE  /\ orders' \in [Keys -> TradeOrder] /\ orders[k].result = "none"
             /\ orders'[k].lots = 0 /\ orders'[k].result = "modified"
             /\ \A i \in Keys : i # k => orders'[i] = orders[i]
  <2>1. new \in TradeOrder /\ new.lots = 0 /\ new.result = "modified"
    BY DEF TradeOrder
  <2> HIDE DEF new
  <2> QED BY <1>1, <1>3, <2>1 DEF Placed
<1>4. \/ UNCHANGED orders
      \/ \E k \in Keys : ~Placed(k) /\ orders' = [orders EXCEPT ![k] = new]
  BY DEF Modify
<1> HIDE DEF new
<1>5. CASE \E k \in Keys : ~Placed(k) /\ orders' = [orders EXCEPT ![k] = new]
  <2>1. PICK k \in Keys : ~Placed(k) /\ orders' = [orders EXCEPT ![k] = new]
    BY <1>5
  <2>2. /\ orders' \in [Keys -> TradeOrder] /\ orders[k].result = "none"
        /\ orders'[k].lots = 0 /\ orders'[k].result = "modified"
        /\ \A i \in Keys : i # k => orders'[i] = orders[i]
    BY <1>3, <2>1
  <2> QED BY <2>2
<1> QED BY <1>2, <1>4, <1>5

LEMMA ModifyKeeps ==
  ASSUME IInv, NEW p \in Positions, NEW level \in Levels, Modify(p, level)
  PROVE  IInv'
<1> DEFINE stopped == [position[p] EXCEPT !.stop = level]
           targeted == [position[p] EXCEPT !.target = level]
<1>1. position \in [Positions -> Position] /\ OpenHasLots(position)
  BY DEF IInv, TypeOK, Position, OpenHasLots
<1>2. /\ stopped \in Position /\ stopped.st = position[p].st /\ stopped.lots = position[p].lots
      /\ targeted \in Position /\ targeted.st = position[p].st
      /\ targeted.lots = position[p].lots
  BY <1>1 DEF Position
<1>3. status \in Statuses /\ derived \in [Positions -> Nat]
  BY DEF IInv, TypeOK
<1>4. \/ Evaluate([position EXCEPT ![p] = stopped], derived)
      \/ Evaluate([position EXCEPT ![p] = targeted], derived)
  BY <1>1 DEF Modify
<1> HIDE DEF stopped, targeted
<1>5. ASSUME NEW new \in Position, new.st = position[p].st, new.lots = position[p].lots,
             Evaluate([position EXCEPT ![p] = new], derived)
      PROVE  AccountTypes
  <2> DEFINE positions == [position EXCEPT ![p] = new]
  <2>1. positions \in [Positions -> Position] /\ OpenHasLots(positions)
    BY <1>1, <1>5 DEF OpenHasLots
  <2>2. Evaluate(positions, derived)
    BY <1>5
  <2> HIDE DEF positions
  <2> QED BY <1>3, <2>1, <2>2, EvaluateTypes
<1>6. AccountTypes
  BY <1>2, <1>4, <1>5
<1>7. /\ orders' \in [Keys -> TradeOrder]
      /\ \A i \in Keys : orders[i].result # "none" => orders'[i] = orders[i]
  BY ModifiedOrders DEF IInv
<1>8. UNCHANGED <<queue, request, reducer, guard, jammed>>
  BY DEF Modify
<1>9. TypeOK'
  BY <1>6, <1>7, <1>8 DEF IInv, TypeOK, AccountTypes, Position, OpenHasLots, TradeOrder
<1>10. ExecutedWithItsOrder'
  BY <1>7, <1>8 DEF IInv, ExecutedWithItsOrder
<1> QED BY <1>8, <1>9, <1>10 DEF IInv, RequestedIsUnqueued, OneRequest, QueuedHasPosition

LEMMA CloseKeeps ==
  ASSUME IInv, ReductionAssumption, NEW k \in Keys, NEW p \in Positions, NEW q \in Asked,
         Close(k, p, q)
  PROVE  IInv'
<1>1. PICK stale \in BOOLEAN : CloseLocked(k, p, q, CloseAllowed(p, q) /\ ~stale)
  BY DEF Close
<1>2. /\ AccountTypes /\ orders' \in [Keys -> TradeOrder]
      /\ \A i \in Keys : i # k => orders'[i] = orders[i]
  <2> DEFINE allowed == CloseAllowed(p, q) /\ ~stale
  <2>1. allowed \in BOOLEAN /\ (allowed => CloseAllowed(p, q))
    BY DEF CloseAllowed
  <2>2. CloseLocked(k, p, q, allowed)
    BY <1>1
  <2> HIDE DEF allowed
  <2> QED BY <2>1, <2>2, CloseEffect DEF IInv
<1>3. UNCHANGED <<queue, request, reducer, guard, jammed>> /\ orders[k].result = "none"
  BY DEF Close, Placed
<1>4. TypeOK'
  BY <1>2, <1>3 DEF IInv, TypeOK, AccountTypes, Position, OpenHasLots, TradeOrder
<1>5. ExecutedWithItsOrder'
  BY <1>2, <1>3 DEF IInv, ExecutedWithItsOrder
<1> QED BY <1>3, <1>4, <1>5 DEF IInv, RequestedIsUnqueued, OneRequest, QueuedHasPosition

\* The queue: a request that reads, its insert, a cancellation.
LEMMA QueueReadKeeps ==
  ASSUME IInv, NEW k \in Keys, NEW p \in Positions, NEW q \in Asked, QueueRead(k, p, q)
  PROVE  IInv'
<1> DEFINE new == [key |-> k, pos |-> p, lots |-> q]
<1>1. new \in Requests /\ new.key = k
  BY DEF Requests
<1>2. request' = {new} /\ queue[k].st = "none"
  BY DEF QueueRead
<1>3. UNCHANGED <<status, position, orders, derived, queue, reducer, guard, jammed>>
  BY DEF QueueRead
<1> HIDE DEF new
<1>4. TypeOK'
  BY <1>1, <1>2, <1>3 DEF IInv, TypeOK
<1>5. RequestedIsUnqueued' /\ OneRequest'
  BY <1>1, <1>2, <1>3 DEF RequestedIsUnqueued, OneRequest
<1> QED BY <1>3, <1>4, <1>5 DEF IInv, ExecutedWithItsOrder, QueuedHasPosition

\* A step on the queue's rows alone.
LEMMA QueueStep ==
  ASSUME IInv, queue' \in [Keys -> Entry], request' \subseteq request,
         NEW k \in Keys, \A i \in Keys : i # k => queue'[i] = queue[i],
         queue'[k].st \in {"queued", "cancelled"}, queue'[k].pos \in Positions,
         \A r \in request' : r.key # k,
         UNCHANGED <<status, position, orders, derived, reducer, guard, jammed>>
  PROVE  IInv'
<1>1. TypeOK'
  BY DEF IInv, TypeOK, Entry
<1>2. ExecutedWithItsOrder'
  BY DEF IInv, ExecutedWithItsOrder
<1>3. \A r \in request' : r.key \in Keys
  BY DEF IInv, TypeOK, Requests
<1>4. RequestedIsUnqueued' /\ OneRequest'
  BY <1>3 DEF IInv, RequestedIsUnqueued, OneRequest
<1>5. QueuedHasPosition'
  BY DEF IInv, QueuedHasPosition
<1> QED BY <1>1, <1>2, <1>4, <1>5 DEF IInv

LEMMA QueueWriteKeeps ==
  ASSUME IInv, QueueWrite
  PROVE  IInv'
<1>1. PICK r \in request : QueueWrite!(r)
  BY DEF QueueWrite
<1> DEFINE new == [st |-> "queued", pos |-> r.pos, lots |-> r.lots]
<1>2. r.key \in Keys /\ r.pos \in Positions /\ r.lots \in Asked
  BY DEF IInv, TypeOK, Requests
<1>3. new \in Entry /\ new.st = "queued" /\ new.pos = r.pos
  BY <1>2 DEF Entry
<1>4. queue' = [queue EXCEPT ![r.key] = new] /\ queue \in [Keys -> Entry] /\ request' = {}
  BY <1>1 DEF IInv, OneRequest, TypeOK, Entry
<1>5. UNCHANGED <<status, position, orders, derived, reducer, guard, jammed>>
  BY <1>1
<1> HIDE DEF new
<1> QED BY <1>2, <1>3, <1>4, <1>5, QueueStep

LEMMA CancelKeeps ==
  ASSUME IInv, NEW k \in Keys, Cancel(k)
  PROVE  IInv'
<1> DEFINE new == [queue[k] EXCEPT !.st = "cancelled"]
<1>1. queue \in [Keys -> Entry] /\ queue[k].st = "queued" /\ queue[k].pos \in Positions
  BY DEF IInv, TypeOK, Entry, QueuedHasPosition, Cancel
<1>2. new \in Entry /\ new.st = "cancelled" /\ new.pos = queue[k].pos
  BY <1>1 DEF Entry, Settled
<1>3. queue' = [queue EXCEPT ![k] = new] /\ request' = request
  BY DEF Cancel
<1>4. \A r \in request : r.key # k
  BY <1>1 DEF IInv, RequestedIsUnqueued
<1>5. UNCHANGED <<status, position, orders, derived, reducer, guard, jammed>>
  BY DEF Cancel
<1> HIDE DEF new
<1> QED BY <1>1, <1>2, <1>3, <1>4, <1>5, QueueStep

LEMMA WorkerKeeps ==
  ASSUME IInv, WorkerEvaluate
  PROVE  IInv'
<1>1. status' \in Statuses
  BY DEF WorkerEvaluate, Finalizations, Verdicts, Statuses, IInv, TypeOK
<1>2. AccountTypes
  BY <1>1 DEF WorkerEvaluate, AccountTypes, IInv, TypeOK, Position, OpenHasLots
<1> QED BY <1>2, TraderStep DEF WorkerEvaluate

LEMMA JamKeeps ==
  ASSUME IInv, Jam
  PROVE  IInv'
<1>1. /\ guard' \in [Guards -> GuardState] /\ reducer' \in [Reducers -> ReducerState]
      /\ jammed' \subseteq Jams /\ AccountTypes /\ UNCHANGED <<orders, queue, request>>
  BY SameAccount DEF Jam, IInv, TypeOK, GuardState, ReducerState
<1> QED BY <1>1, AccountStep

\* Ticks, candidates and the end of a scan touch neither account nor queue.
LEMMA ReducerKeeps ==
  ASSUME IInv, ReductionAssumption, NEW r \in Reducers,
         ReducerTick(r) \/ ReducerRead(r) \/ ReducerAbort(r)
  PROVE  IInv'
<1>1. UNCHANGED <<status, position, orders, derived, queue, request, guard>>
  BY DEF ReducerTick, ReducerRead, ReducerAbort
<1>2. reducer' \in [Reducers -> ReducerState]
  <2>1. CASE ReducerTick(r)
    <3>1. [reducer[r] EXCEPT !.st = "ticked"] \in ReducerState
      BY DEF IInv, TypeOK, ReducerState
    <3> QED BY <2>1, <3>1 DEF ReducerTick, IInv, TypeOK, ReducerState
  <2>2. CASE ReducerRead(r)
    BY <2>2, ReducerTypes DEF ReducerRead, IInv
  <2>3. CASE ReducerAbort(r)
    <3>1. IdleReducer \in ReducerState
      BY DEF IdleReducer, ReducerState
    <3> QED BY <2>3, <3>1 DEF ReducerAbort, IInv, TypeOK, ReducerState
  <2> QED BY <2>1, <2>2, <2>3
<1>3. jammed' \subseteq Jams
  BY DEF ReducerTick, ReducerRead, ReducerAbort, IInv, TypeOK
<1>4. AccountTypes /\ guard' \in [Guards -> GuardState]
  BY <1>1, SameAccount DEF IInv, TypeOK, GuardState
<1> QED BY <1>1, <1>2, <1>3, <1>4, AccountStep

LEMMA GuardKeeps ==
  ASSUME IInv, ReductionAssumption, NEW g \in Guards,
         (\E price \in Prices : GuardTick(g, price)) \/ GuardRead(g) \/ GuardAbort(g)
  PROVE  IInv'
<1>1. UNCHANGED <<status, position, orders, derived, queue, request, reducer>>
  BY DEF GuardTick, GuardRead, GuardAbort
<1>2. guard' \in [Guards -> GuardState]
  <2>1. ASSUME NEW price \in Prices, GuardTick(g, price)
        PROVE  guard' \in [Guards -> GuardState]
    <3> DEFINE set(s, x) == [guard[g] EXCEPT !.st = s, !.price = x]
               new == [guard[g] EXCEPT !.st = "ticked", !.price = price]
    <3>1. guard \in [Guards -> GuardState]
      BY DEF IInv, TypeOK, GuardState
    <3>2. \A s \in {"idle", "ticked", "rows"}, x \in Prices : set(s, x) \in GuardState
      BY <3>1 DEF GuardState
    <3>3. new = set("ticked", price)
      OBVIOUS
    <3>4. guard' = [guard EXCEPT ![g] = new]
      BY <2>1, <3>1 DEF GuardTick
    <3> HIDE DEF new, set
    <3> QED BY <3>1, <3>2, <3>3, <3>4
  <2>2. CASE GuardRead(g)
    BY <2>2, GuardTypes DEF GuardRead, IInv
  <2>3. CASE GuardAbort(g)
    <3>1. IdleGuard \in GuardState
      BY DEF IdleGuard, GuardState
    <3> QED BY <2>3, <3>1 DEF GuardAbort, IInv, TypeOK, GuardState
  <2> QED BY <2>1, <2>2, <2>3
<1>3. jammed' \subseteq Jams
  BY DEF GuardTick, GuardRead, GuardAbort, IInv, TypeOK
<1>4. AccountTypes /\ reducer' \in [Reducers -> ReducerState]
  BY <1>1, SameAccount DEF IInv, TypeOK, ReducerState
<1> QED BY <1>1, <1>2, <1>3, <1>4, AccountStep

LEMMA ProtectKeeps ==
  ASSUME IInv, ReductionAssumption, NEW g \in Guards, NEW p \in Positions, Protect(g, p)
  PROVE  IInv'
<1>1. guard' \in [Guards -> GuardState]
  <2>1. guard[g].rows \ {p} \in SUBSET Positions
    BY DEF IInv, TypeOK
  <2> QED BY <2>1, GuardTypes DEF Protect, IInv
<1>2. AccountTypes
  <2>1. CASE /\ Evaluate(With(p, 0), [derived EXCEPT ![p] = @ + LotsOf(p, Full)])
    <3> DEFINE byKeys == [derived EXCEPT ![p] = derived[p] + position[p].lots]
               positions == With(p, 0)
    <3>1. derived[p] + position[p].lots \in Nat /\ derived \in [Positions -> Nat]
            /\ status \in Statuses
      BY DEF IInv, TypeOK
    <3>2. byKeys \in [Positions -> Nat]
      BY <3>1
    <3>3. positions \in [Positions -> Position] /\ OpenHasLots(positions)
      BY WithTypes DEF IInv
    <3>4. Evaluate(positions, byKeys)
      BY <2>1, <3>1 DEF LotsOf
    <3> HIDE DEF byKeys, positions
    <3> QED BY <3>1, <3>2, <3>3, <3>4, EvaluateTypes
  <2>2. CASE UNCHANGED <<status, position, derived>>
    BY <2>2, SameAccount DEF IInv
  <2> QED BY <2>1, <2>2 DEF Protect
<1>3. UNCHANGED <<orders, queue, request, reducer, jammed>>
  BY DEF Protect
<1>4. reducer' \in [Reducers -> ReducerState] /\ jammed' \subseteq Jams
  BY <1>3 DEF IInv, TypeOK, ReducerState
<1> QED BY <1>1, <1>2, <1>3, <1>4, AccountStep

\* A claimed row is settled as the order under its key, decided now or before.
LEMMA ExecuteKeeps ==
  ASSUME IInv, ReductionAssumption, NEW r \in Reducers, NEW k \in Keys, Execute(r, k)
  PROVE  IInv'
<1>1. reducer' \in [Reducers -> ReducerState]
  <2>1. reducer[r].rows \ {k} \in SUBSET Keys
    BY DEF IInv, TypeOK
  <2> QED BY <2>1, ReducerTypes DEF Execute, IInv
<1>2. UNCHANGED <<request, guard, jammed>>
  BY DEF Execute
<1>3. jammed' \subseteq Jams /\ guard' \in [Guards -> GuardState]
  BY <1>2 DEF IInv, TypeOK, GuardState
<1>4. CASE ~StillQueued(k)
  <2>1. UNCHANGED <<status, position, orders, derived, queue>>
    BY <1>4 DEF Execute
  <2>2. AccountTypes
    BY <2>1, SameAccount DEF IInv
  <2> QED BY <1>1, <1>2, <1>3, <2>1, <2>2, AccountStep
<1>5. CASE StillQueued(k)
  <2> DEFINE p == queue[k].pos
             q == queue[k].lots
             new == [queue[k] EXCEPT !.st = SettledAs(orders'[k].result)]
  <2>1. queue \in [Keys -> Entry] /\ queue[k].st = "queued" /\ p \in Positions /\ q \in Asked
    BY <1>5 DEF IInv, TypeOK, Entry, QueuedHasPosition, StillQueued
  <2>2. /\ AccountTypes /\ orders' \in [Keys -> TradeOrder]
        /\ orders'[k].result \in {"filled", "rejected"}
        /\ \A i \in Keys : i # k => orders'[i] = orders[i]
    <3>1. CASE Placed(k)
      <4>1. UNCHANGED <<status, position, orders, derived>>
        BY <1>5, <3>1 DEF Execute
      <4>2. AccountTypes
        BY <4>1, SameAccount DEF IInv
      <4>3. orders[k].result \in {"filled", "rejected"}
        BY <1>5, <3>1 DEF Execute, ReplayThrows, Placed, IInv, TypeOK
      <4> QED BY <4>1, <4>2, <4>3 DEF IInv, TypeOK, TradeOrder
    <3>2. CASE ~Placed(k)
      <4> DEFINE allowed == CloseAllowed(p, q)
      <4>1. CloseLocked(k, p, q, allowed)
        BY <1>5, <3>2 DEF Execute
      <4>2. allowed \in BOOLEAN
        BY DEF CloseAllowed
      <4>3. allowed => CloseAllowed(p, q)
        OBVIOUS
      <4> HIDE DEF allowed, p, q
      <4> QED BY <2>1, <4>1, <4>2, <4>3, CloseEffect DEF IInv
    <3> QED BY <3>1, <3>2
  <2>3. queue' = [queue EXCEPT ![k] = new]
    BY <1>5 DEF Execute
  <2>4. /\ new \in Entry /\ new.pos = p
        /\ new.st = "executed" => orders'[k].result = "filled"
        /\ new.st = "failed" => orders'[k].result = "rejected"
    BY <2>1, <2>2 DEF Entry, Settled, SettledAs
  <2> HIDE DEF new, p, q
  <2>5. queue' \in [Keys -> Entry] /\ \A i \in Keys : i # k => queue'[i] = queue[i]
    BY <2>1, <2>3, <2>4
  <2>6. queue'[k] = new
    BY <2>1, <2>3
  <2>7. TypeOK'
    BY <1>1, <1>2, <1>3, <2>2, <2>5
       DEF IInv, TypeOK, AccountTypes, Position, OpenHasLots, TradeOrder, Entry,
           ReducerState, GuardState
  <2>8. ExecutedWithItsOrder'
    BY <2>2, <2>4, <2>5, <2>6 DEF IInv, ExecutedWithItsOrder
  <2>9. \A i \in request : i.key # k /\ i.key \in Keys
    BY <2>1 DEF IInv, RequestedIsUnqueued, TypeOK, Requests
  <2>10. RequestedIsUnqueued' /\ OneRequest'
    BY <1>2, <2>5, <2>9 DEF IInv, RequestedIsUnqueued, OneRequest
  <2>11. QueuedHasPosition'
    BY <2>1, <2>4, <2>5, <2>6 DEF IInv, QueuedHasPosition
  <2> QED BY <2>7, <2>8, <2>10, <2>11 DEF IInv
<1> QED BY <1>4, <1>5

\* Every step keeps the invariant.
THEOREM NextInvariant == ReductionAssumption /\ IInv /\ [Next]_vars => IInv'
<1> SUFFICES ASSUME ReductionAssumption, IInv, [Next]_vars PROVE IInv'
  OBVIOUS
<1>1. CASE UNCHANGED vars
  <2>1. UNCHANGED <<status, position, orders, derived, queue, request, reducer, guard, jammed>>
    BY <1>1 DEF vars
  <2>2. AccountTypes
    BY <2>1, SameAccount DEF IInv
  <2> QED BY <2>1, <2>2, TraderStep
<1>2. CASE Trader
  BY <1>2, OpenKeeps, ModifyKeeps, CloseKeeps, QueueReadKeeps, QueueWriteKeeps, CancelKeeps
    DEF Trader
<1>3. CASE WorkerEvaluate \/ Jam
  BY <1>3, WorkerKeeps, JamKeeps
<1>4. ASSUME NEW r \in Reducers, ReducerTick(r) \/ ReducerStep(r)
      PROVE  IInv'
  <2>1. reducer[r].rows \subseteq Keys
    BY DEF IInv, TypeOK
  <2> QED BY <1>4, <2>1, ReducerKeeps, ExecuteKeeps DEF ReducerStep
<1>5. ASSUME NEW g \in Guards, GuardStep(g) \/ \E price \in Prices : GuardTick(g, price)
      PROVE  IInv'
  <2>1. guard[g].rows \subseteq Positions
    BY DEF IInv, TypeOK
  <2> QED BY <1>5, <2>1, GuardKeeps, ProtectKeeps DEF GuardStep
<1> QED BY <1>1, <1>2, <1>3, <1>4, <1>5 DEF Next

-----------------------------------------------------------------------------
(* The theorems.                                                           *)

\* The inductive invariant: types, reductions that end as their orders, and what a
\* request and a queued row may rely on.
THEOREM ReductionInvariant == Spec => []IInv
BY ReductionAssumption, InitInvariant, NextInvariant, PTL DEF Spec

\* Type correctness of positions and queue: a position is open exactly while lots
\* are left (closePositionLocked).
THEOREM TypeInvariant == Spec => []TypeOK
<1>1. IInv => TypeOK
  BY DEF IInv
<1> QED BY <1>1, ReductionInvariant, PTL

\* A reduction ends as the order under its key, also when it replays an immediate
\* close of that key (executeQueuedReductions).
THEOREM EndsAsItsOrder == Spec => []ExecutedWithItsOrder
<1>1. IInv => ExecutedWithItsOrder
  BY DEF IInv
<1> QED BY <1>1, ReductionInvariant, PTL

\* Only its row's insert, cancellation or execution changes a reduction, and none of
\* them one that has ended.
LEMMA StepEffect ==
  ASSUME IInv, [Next]_vars, NEW k \in Keys
  PROVE  queue[k].st \in Settled => queue'[k].st = queue[k].st
<1> USE DEF Settled
<1>1. queue \in [Keys -> Entry]
  BY DEF IInv, TypeOK, Entry, Settled
<1>2. ASSUME QueueWrite
      PROVE  queue[k].st \in Settled => queue'[k].st = queue[k].st
  <2>1. PICK r \in request : QueueWrite!(r)
    BY <1>2 DEF QueueWrite
  <2>2. queue[r.key].st = "none"
    BY DEF IInv, RequestedIsUnqueued
  <2>3. k # r.key => queue'[k] = queue[k]
    BY <1>1, <2>1
  <2> QED BY <2>2, <2>3
<1>3. ASSUME NEW i \in Keys, Cancel(i)
      PROVE  queue[k].st \in Settled => queue'[k].st = queue[k].st
  <2>1. queue[i].st = "queued" /\ (k # i => queue'[k] = queue[k])
    BY <1>1, <1>3 DEF Cancel
  <2> QED BY <2>1
<1>4. ASSUME NEW r \in Reducers, NEW i \in reducer[r].rows, Execute(r, i)
      PROVE  queue[k].st \in Settled => queue'[k].st = queue[k].st
  <2>1. CASE ~StillQueued(i)
    BY <1>4, <2>1 DEF Execute
  <2>2. CASE StillQueued(i)
    <3>1. queue[i].st = "queued" /\ (k # i => queue'[k] = queue[k])
      BY <1>1, <1>4, <2>2 DEF Execute, StillQueued
    <3> QED BY <3>1
  <2> QED BY <2>1, <2>2
<1>5. CASE UNCHANGED queue
  BY <1>5
<1>6. CASE Trader
  BY <1>2, <1>3, <1>5, <1>6 DEF Trader, Open, Modify, Close, QueueRead
<1>7. CASE \E r \in Reducers : ReducerTick(r) \/ ReducerStep(r)
  BY <1>4, <1>5, <1>7 DEF ReducerStep, ReducerTick, ReducerRead, ReducerAbort
<1>8. CASE \E g \in Guards : GuardStep(g) \/ \E price \in Prices : GuardTick(g, price)
  BY <1>5, <1>8 DEF GuardStep, GuardTick, GuardRead, GuardAbort, Protect
<1> QED BY <1>5, <1>6, <1>7, <1>8 DEF Next, WorkerEvaluate, Jam, vars

\* A reduction that was executed, failed or cancelled stays as it ended, whatever
\* scans, cancellations and requests overlap.
THEOREM EndedForGood == Spec => SettledStaysSettled
<1>1. IInv /\ [Next]_vars
        => [\A k \in Keys : queue[k].st \in Settled => queue'[k].st = queue[k].st]_vars
  BY StepEffect
<1> QED BY <1>1, ReductionInvariant, PTL DEF Spec, SettledStaysSettled

-----------------------------------------------------------------------------
(* What MapThenSumSet adds up over a finite set.  The library's induction  *)
(* theorems take an operator, so the induction over finite sets is done as *)
(* the choice of a smallest counterexample.                                *)

\* The element that a fold takes next.
Pick(s) == CHOOSE x \in s : TRUE

\* g adds up f over every subset of T, element by element.
Adds(g, f, T) ==
  g = [s \in SUBSET T |-> IF s = {} THEN 0 ELSE f[Pick(s)] + g[s \ {Pick(s)}]]

Sum(f, T) == MapThenSumSet(LAMBDA x : f[x], T)

\* Of any subsets of a finite set, one contains no other.
LEMMA SmallestSubset ==
  ASSUME NEW S, IsFiniteSet(S), NEW W \in SUBSET (SUBSET S), W # {}
  PROVE  \E T \in W : \A U \in W : U \subseteq T => U = T
<1>1. IsWellFoundedOn(StrictSubsetOrdering(S), SUBSET S)
  BY FS_StrictSubsetOrderingWellFounded, FS_FiniteSubsetsOfFinite
<1>2. PICK T \in W : \A U \in W : <<U, T>> \notin StrictSubsetOrdering(S)
  BY <1>1, WFMin
<1>3. \A U \in W : U \subseteq T => U = T
  BY <1>2 DEF StrictSubsetOrdering
<1> QED BY <1>3

LEMMA PickIsIn == \A s : s # {} => Pick(s) \in s
BY DEF Pick

\* Two functions that add up f agree wherever both are defined.
LEMMA AddsAgree ==
  ASSUME NEW T, IsFiniteSet(T), NEW U \in SUBSET T, NEW f, NEW g, NEW h,
         Adds(g, f, T), Adds(h, f, U)
  PROVE  \A s \in SUBSET U : g[s] = h[s]
<1> DEFINE W == {s \in SUBSET U : g[s] # h[s]}
<1>1. SUFFICES ASSUME W # {} PROVE FALSE
  OBVIOUS
<1>a. W \subseteq SUBSET T /\ \A s \in SUBSET U : s \notin W => g[s] = h[s]
  OBVIOUS
<1>b. \A s \in W : s \in SUBSET U /\ g[s] # h[s]
  OBVIOUS
<1> HIDE DEF W
<1>2. PICK s \in W : \A r \in W : r \subseteq s => r = s
  BY <1>1, <1>a, SmallestSubset
<1>3. g[s] = IF s = {} THEN 0 ELSE f[Pick(s)] + g[s \ {Pick(s)}]
  BY <1>b DEF Adds
<1>4. h[s] = IF s = {} THEN 0 ELSE f[Pick(s)] + h[s \ {Pick(s)}]
  BY <1>b DEF Adds
<1>5. s # {} => Pick(s) \in s
  BY PickIsIn
<1>6. s # {} => g[s \ {Pick(s)}] = h[s \ {Pick(s)}]
  BY <1>2, <1>5, <1>a, <1>b
<1> QED BY <1>3, <1>4, <1>6, <1>b

\* A function that adds up f exists: the partial ones on smaller sets agree.
LEMMA AddsExists ==
  ASSUME NEW S, IsFiniteSet(S), NEW f
  PROVE  \E g : Adds(g, f, S)
<1> DEFINE W == {t \in SUBSET S : \A g : ~Adds(g, f, t)}
<1>1. SUFFICES ASSUME W # {} PROVE FALSE
  OBVIOUS
<1>a. W \subseteq SUBSET S /\ \A t \in SUBSET S : t \notin W => \E g : Adds(g, f, t)
  OBVIOUS
<1>b. \A t \in W : \A g : ~Adds(g, f, t)
  OBVIOUS
<1> HIDE DEF W
<1>2. PICK T \in W : \A U \in W : U \subseteq T => U = T
  BY <1>1, <1>a, SmallestSubset
<1> DEFINE G(t) == CHOOSE g : Adds(g, f, t)
<1>3. \A t \in SUBSET T : t # T => Adds(G(t), f, t)
  BY <1>2, <1>a
<1>4. \A t \in SUBSET S : IsFiniteSet(t)
  BY FS_Subset
<1> DEFINE g == [t \in SUBSET T |->
     IF t = T /\ T # {} THEN f[Pick(T)] + G(T \ {Pick(T)})[T \ {Pick(T)}]
     ELSE IF t = {} THEN 0 ELSE G(t)[t]]
<1>5. ASSUME NEW t \in SUBSET T
      PROVE  g[t] = IF t = {} THEN 0 ELSE f[Pick(t)] + g[t \ {Pick(t)}]
  <2>1. CASE t = {}
    BY <2>1
  <2>2. CASE t # {}
    <3> DEFINE r == t \ {Pick(t)}
    <3>1. r \in SUBSET T /\ r # T /\ r \in SUBSET t
      BY <2>2, PickIsIn
    <3>2. Adds(G(r), f, r)
      BY <1>3, <3>1
    <3>3. g[r] = G(r)[r]
      <4>1. CASE r = {}
        <5>1. G(r)[r] = 0
          BY <3>2, <4>1 DEF Adds
        <5> QED BY <3>1, <4>1, <5>1
      <4>2. CASE r # {}
        BY <3>1, <4>2
      <4> QED BY <4>1, <4>2
    <3>4. CASE t = T
      BY <2>2, <3>3, <3>4
    <3>5. CASE t # T
      <4>1. Adds(G(t), f, t)
        BY <1>3, <3>5
      <4>2. G(t)[t] = f[Pick(t)] + G(t)[r]
        BY <2>2, <4>1 DEF Adds
      <4>3. G(t)[r] = G(r)[r]
        <5>1. IsFiniteSet(t)
          BY <1>a, <1>4
        <5> HIDE DEF G, r
        <5> QED BY <5>1, <3>1, <3>2, <4>1, AddsAgree
      <4>4. g[t] = G(t)[t]
        BY <2>2, <3>5
      <4> QED BY <2>2, <3>3, <4>2, <4>3, <4>4
    <3> QED BY <3>4, <3>5
  <2> QED BY <2>1, <2>2
<1>6. Adds(g, f, T)
  <2> DEFINE h == [s \in SUBSET T |-> IF s = {} THEN 0 ELSE f[Pick(s)] + g[s \ {Pick(s)}]]
  <2>1. g = [t \in SUBSET T |-> g[t]]
    OBVIOUS
  <2> HIDE DEF g
  <2>2. g = h
    BY <1>5, <2>1
  <2> QED BY <2>2 DEF Adds
<1> QED BY <1>b, <1>6

LEMMA SumIs ==
  ASSUME NEW f, NEW T
  PROVE  Sum(f, T) = (CHOOSE g : Adds(g, f, T))[T]
BY DEF Sum, MapThenSumSet, MapThenFoldSet, Adds, Pick

\* The function that the fold of MapThenSumSet is, and any other that adds up f.
LEMMA SumUnfolds ==
  ASSUME NEW S, IsFiniteSet(S), NEW f, NEW g, Adds(g, f, S)
  PROVE  \A T \in SUBSET S : Sum(f, T) = g[T]
<1> SUFFICES ASSUME NEW T \in SUBSET S PROVE Sum(f, T) = g[T]
  OBVIOUS
<1> DEFINE h == CHOOSE c : Adds(c, f, T)
<1>1. IsFiniteSet(T)
  BY FS_Subset
<1>2. Adds(h, f, T)
  BY <1>1, AddsExists
<1>3. h[T] = g[T]
  <2> HIDE DEF h
  <2> QED BY <1>2, AddsAgree
<1> QED BY <1>3, SumIs

LEMMA SumOfNone == \A f : Sum(f, {}) = 0
<1> SUFFICES ASSUME NEW f PROVE Sum(f, {}) = 0
  OBVIOUS
<1>1. IsFiniteSet({})
  BY FS_EmptySet
<1>2. PICK g : Adds(g, f, {})
  BY <1>1, AddsExists
<1>3. g[{}] = 0
  BY <1>2 DEF Adds
<1> QED BY <1>1, <1>2, <1>3, SumUnfolds

LEMMA SumPicks ==
  ASSUME NEW S, IsFiniteSet(S), S # {}, NEW f
  PROVE  Sum(f, S) = f[Pick(S)] + Sum(f, S \ {Pick(S)})
<1>1. PICK g : Adds(g, f, S)
  BY AddsExists
<1>2. g[S] = f[Pick(S)] + g[S \ {Pick(S)}]
  BY <1>1 DEF Adds
<1>3. S \ {Pick(S)} \in SUBSET S /\ S \in SUBSET S
  OBVIOUS
<1>4. g[S] = Sum(f, S) /\ g[S \ {Pick(S)}] = Sum(f, S \ {Pick(S)})
  BY <1>1, <1>3, SumUnfolds
<1> QED BY <1>2, <1>4

\* A sum of integers is an integer.
LEMMA SumIsInt ==
  ASSUME NEW S, IsFiniteSet(S), NEW f, \A x \in S : f[x] \in Int
  PROVE  Sum(f, S) \in Int
<1> DEFINE W == {T \in SUBSET S : Sum(f, T) \notin Int}
<1>1. SUFFICES ASSUME W # {} PROVE FALSE
  OBVIOUS
<1>2. /\ W \subseteq SUBSET S /\ \A T \in W : Sum(f, T) \notin Int
      /\ \A T \in SUBSET S : T \notin W => Sum(f, T) \in Int
  OBVIOUS
<1> HIDE DEF W
<1>3. PICK T \in W : \A U \in W : U \subseteq T => U = T
  BY <1>1, <1>2, SmallestSubset
<1>4. T \in SUBSET S /\ IsFiniteSet(T)
  BY <1>2, FS_Subset
<1>5. T # {}
  BY <1>2, SumOfNone
<1> DEFINE R == T \ {Pick(T)}
<1>6. Pick(T) \in T /\ Sum(f, T) = f[Pick(T)] + Sum(f, R)
  BY <1>4, <1>5, PickIsIn, SumPicks
<1>7. Sum(f, R) \in Int
  BY <1>2, <1>3, <1>4, <1>6
<1> QED BY <1>2, <1>4, <1>6, <1>7

\* Whatever element is taken out, the sum is the element and the rest.
LEMMA SumTakesOut ==
  ASSUME NEW S, IsFiniteSet(S), NEW f, \A x \in S : f[x] \in Int, NEW a \in S
  PROVE  Sum(f, S) = f[a] + Sum(f, S \ {a})
<1> DEFINE Right(T) == \A x \in T : Sum(f, T) = f[x] + Sum(f, T \ {x})
           W == {T \in SUBSET S : ~Right(T)}
<1>1. SUFFICES ASSUME W # {} PROVE FALSE
  <2>1. S \in SUBSET S
    OBVIOUS
  <2>2. S \notin W
    BY <1>1
  <2> QED BY <2>1, <2>2
<1>2. /\ W \subseteq SUBSET S /\ \A T \in W : ~Right(T)
      /\ \A T \in SUBSET S : T \notin W => Right(T)
  OBVIOUS
<1> HIDE DEF W
<1>3. PICK T \in W : \A U \in W : U \subseteq T => U = T
  BY <1>1, <1>2, SmallestSubset
<1>4. T \in SUBSET S /\ IsFiniteSet(T)
  BY <1>2, FS_Subset
<1>5. PICK x \in T : Sum(f, T) # f[x] + Sum(f, T \ {x})
  BY <1>2
<1> DEFINE c == Pick(T)
<1>6. c \in T /\ Sum(f, T) = f[c] + Sum(f, T \ {c})
  BY <1>4, <1>5, PickIsIn, SumPicks
<1>7. x # c
  BY <1>5, <1>6
<1> DEFINE R == (T \ {c}) \ {x}
<1> HIDE DEF c
<1>8. Right(T \ {c}) /\ Right(T \ {x})
  BY <1>2, <1>3, <1>4, <1>5, <1>6
<1>9. Sum(f, T \ {c}) = f[x] + Sum(f, R)
  BY <1>5, <1>7, <1>8
<1>10. (T \ {x}) \ {c} = R
  OBVIOUS
<1>11. Sum(f, T \ {x}) = f[c] + Sum(f, R)
  BY <1>6, <1>7, <1>8, <1>10
<1>12. Sum(f, R) \in Int
  <2>1. R \in SUBSET S /\ IsFiniteSet(R)
    BY <1>4, FS_Subset
  <2> QED BY <2>1, SumIsInt
<1>13. f[x] \in Int /\ f[c] \in Int
  BY <1>4, <1>5, <1>6
<1> QED BY <1>5, <1>6, <1>9, <1>11, <1>12, <1>13

\* A sum of larger terms is not smaller.
LEMMA SumIsMonotone ==
  ASSUME NEW S, IsFiniteSet(S), NEW f, NEW g,
         \A x \in S : f[x] \in Int /\ g[x] \in Int /\ f[x] <= g[x]
  PROVE  Sum(f, S) <= Sum(g, S)
<1> DEFINE W == {T \in SUBSET S : ~(Sum(f, T) <= Sum(g, T))}
<1>1. SUFFICES ASSUME W # {} PROVE FALSE
  OBVIOUS
<1>2. /\ W \subseteq SUBSET S /\ \A T \in W : ~(Sum(f, T) <= Sum(g, T))
      /\ \A T \in SUBSET S : T \notin W => Sum(f, T) <= Sum(g, T)
  OBVIOUS
<1> HIDE DEF W
<1>3. PICK T \in W : \A U \in W : U \subseteq T => U = T
  BY <1>1, <1>2, SmallestSubset
<1>4. T \in SUBSET S /\ IsFiniteSet(T)
  BY <1>2, FS_Subset
<1>5. Sum(f, {}) = 0 /\ Sum(g, {}) = 0
  BY SumOfNone
<1>6. T # {}
  <2>1. ~(Sum(f, T) <= Sum(g, T))
    BY <1>2
  <2>2. T = {} => Sum(f, T) = 0 /\ Sum(g, T) = 0
    BY <1>5
  <2> QED BY <2>1, <2>2
<1> DEFINE c == Pick(T)
           R == T \ {Pick(T)}
<1>7. c \in T /\ Sum(f, T) = f[c] + Sum(f, R) /\ Sum(g, T) = g[c] + Sum(g, R)
  BY <1>4, <1>6, PickIsIn, SumPicks
<1>8. R \in SUBSET S /\ IsFiniteSet(R) /\ Sum(f, R) <= Sum(g, R)
  BY <1>2, <1>3, <1>4, <1>7, FS_Subset
<1>9. Sum(f, R) \in Int /\ Sum(g, R) \in Int
  BY <1>8, SumIsInt
<1> HIDE DEF c, R
<1>10. f[c] \in Int /\ g[c] \in Int /\ f[c] <= g[c]
  BY <1>4, <1>7
<1> QED BY <1>2, <1>7, <1>8, <1>9, <1>10

\* Equal terms have equal sums.
LEMMA SumIsLocal ==
  ASSUME NEW S, IsFiniteSet(S), NEW f, NEW g,
         \A x \in S : f[x] \in Int /\ g[x] = f[x]
  PROVE  Sum(g, S) = Sum(f, S)
<1>1. Sum(f, S) \in Int /\ Sum(g, S) \in Int
  BY SumIsInt
<1>2. \A x \in S : f[x] <= g[x] /\ g[x] <= f[x] /\ g[x] \in Int
  OBVIOUS
<1>3. Sum(f, S) <= Sum(g, S) /\ Sum(g, S) <= Sum(f, S)
  BY <1>2, SumIsMonotone
<1> QED BY <1>1, <1>3

\* Changing one term changes the sum by as much.
LEMMA SumChangesWith ==
  ASSUME NEW S, IsFiniteSet(S), NEW f, NEW g, NEW a \in S, f[a] \in Int, g[a] \in Int,
         \A x \in S \ {a} : f[x] \in Int /\ g[x] = f[x]
  PROVE  Sum(g, S) = Sum(f, S) + g[a] - f[a]
<1>1. Sum(f, S) = f[a] + Sum(f, S \ {a})
  BY SumTakesOut
<1>2. Sum(g, S) = g[a] + Sum(g, S \ {a})
  <2>1. \A x \in S : g[x] \in Int
    OBVIOUS
  <2> QED BY <2>1, SumTakesOut
<1>3. IsFiniteSet(S \ {a})
  BY FS_Subset
<1>4. Sum(f, S \ {a}) \in Int
  BY <1>3, SumIsInt
<1>5. Sum(g, S \ {a}) = Sum(f, S \ {a})
  BY <1>3, SumIsLocal
<1> QED BY <1>1, <1>2, <1>4, <1>5

\* A sum of zeros is zero.
LEMMA SumOfZeros ==
  ASSUME NEW S, IsFiniteSet(S), NEW f, \A x \in S : f[x] = 0
  PROVE  Sum(f, S) = 0
<1> DEFINE W == {T \in SUBSET S : Sum(f, T) # 0}
<1>1. SUFFICES ASSUME W # {} PROVE FALSE
  OBVIOUS
<1>2. /\ W \subseteq SUBSET S /\ \A T \in W : Sum(f, T) # 0
      /\ \A T \in SUBSET S : T \notin W => Sum(f, T) = 0
  OBVIOUS
<1> HIDE DEF W
<1>3. PICK T \in W : \A U \in W : U \subseteq T => U = T
  BY <1>1, <1>2, SmallestSubset
<1>4. T \in SUBSET S /\ IsFiniteSet(T)
  BY <1>2, FS_Subset
<1>5. T # {}
  BY <1>2, SumOfNone
<1> DEFINE R == T \ {Pick(T)}
<1>6. Pick(T) \in T /\ Sum(f, T) = f[Pick(T)] + Sum(f, R)
  BY <1>4, <1>5, PickIsIn, SumPicks
<1>7. Sum(f, R) = 0
  BY <1>2, <1>3, <1>4, <1>6
<1> QED BY <1>2, <1>4, <1>6, <1>7

\* Terms that are zero may be left out.
LEMMA SumOverPart ==
  ASSUME NEW S, IsFiniteSet(S), NEW T \in SUBSET S, NEW f,
         \A x \in T : f[x] \in Int, \A x \in S \ T : f[x] = 0
  PROVE  Sum(f, S) = Sum(f, T)
<1> DEFINE Same(R) == Sum(f, T \cup R) = Sum(f, T)
           W == {R \in SUBSET (S \ T) : ~Same(R)}
<1>1. SUFFICES ASSUME W # {} PROVE FALSE
  <2>1. S \ T \in SUBSET (S \ T) /\ T \cup (S \ T) = S
    OBVIOUS
  <2>2. Same(S \ T)
    BY <1>1, <2>1
  <2> QED BY <2>1, <2>2
<1>2. /\ W \subseteq SUBSET (S \ T) /\ \A R \in W : ~Same(R)
      /\ \A R \in SUBSET (S \ T) : R \notin W => Same(R)
  OBVIOUS
<1> HIDE DEF W
<1>3. IsFiniteSet(S \ T)
  BY FS_Subset
<1>4. PICK R \in W : \A U \in W : U \subseteq R => U = R
  BY <1>1, <1>2, <1>3, SmallestSubset
<1>5. R # {}
  <2>1. T \cup {} = T
    OBVIOUS
  <2>2. Same({})
    BY <2>1
  <2> QED BY <1>2, <2>2
<1> DEFINE c == Pick(R)
           Q == R \ {Pick(R)}
<1>6. c \in R /\ R \subseteq S \ T /\ Same(Q)
  BY <1>2, <1>4, <1>5, PickIsIn
<1>7. (T \cup R) \ {c} = T \cup Q
  BY <1>6
<1>8. f[c] = 0 /\ \A x \in T \cup R : f[x] \in Int
  BY <1>6
<1>9. IsFiniteSet(T \cup R) /\ IsFiniteSet(T)
  <2>1. T \cup R \in SUBSET S
    BY <1>6
  <2> QED BY <2>1, FS_Subset
<1>10. Sum(f, T \cup R) = f[c] + Sum(f, (T \cup R) \ {c})
  BY <1>6, <1>8, <1>9, SumTakesOut
<1>11. Sum(f, T) \in Int
  BY <1>9, SumIsInt
<1>12. Sum(f, T \cup Q) = Sum(f, T)
  BY <1>6
<1>13. Sum(f, T \cup R) = 0 + Sum(f, T)
  BY <1>7, <1>8, <1>10, <1>12
<1>14. Sum(f, T \cup R) # Sum(f, T)
  BY <1>2
<1> QED BY <1>11, <1>13, <1>14

-----------------------------------------------------------------------------
(* The lots of a position.                                                 *)

TakenBy(ord, p) == [k \in Keys |-> IF ord[k].pos = p THEN ord[k].lots ELSE 0]
\* The lots that decided keys closed of a position.
Taken(ord, p) == Sum(TakenBy(ord, p), Keys)

\* What was opened is open, was closed under a key, or was closed under a derived
\* key; nothing was closed of a position that was never opened.
Kept(positions, byKeys, ord) == \A p \in Positions :
  positions[p].lots + byKeys[p] + Taken(ord, p)
    = IF positions[p].st = "none" THEN 0 ELSE Opened[p]

\* A key that is not decided has taken nothing yet.
UnplacedTookNothing == \A k \in Keys : orders[k].result = "none" => orders[k].lots = 0

Conserved == UnplacedTookNothing /\ Kept(position, derived, orders)

LEMMA TakenIsInt ==
  ASSUME IsFiniteSet(Keys), NEW ord \in [Keys -> TradeOrder], NEW p
  PROVE  Taken(ord, p) \in Int
<1>1. \A k \in Keys : TakenBy(ord, p)[k] \in Int
  BY DEF TakenBy, TradeOrder
<1> HIDE DEF TakenBy
<1> QED BY <1>1, SumIsInt DEF Taken

\* The sum of the property is the lots taken, over the keys that took any.
LEMMA TakenIsTheSum ==
  ASSUME IsFiniteSet(Keys), NEW ord \in [Keys -> TradeOrder], NEW p \in Positions
  PROVE  MapThenSumSet(LAMBDA k : ord[k].lots, {k \in Keys : ord[k].pos = p}) = Taken(ord, p)
<1> DEFINE T == {k \in Keys : ord[k].pos = p}
           f == [k \in Keys |-> ord[k].lots]
           F(g) == g = [s \in SUBSET T |->
                          IF s = {} THEN 0 ELSE ord[Pick(s)].lots + g[s \ {Pick(s)}]]
           h == CHOOSE g : F(g)
<1>1. MapThenSumSet(LAMBDA k : ord[k].lots, T) = h[T]
  BY DEF MapThenSumSet, MapThenFoldSet, Pick
<1>2. IsFiniteSet(T) /\ T \in SUBSET Keys
  BY FS_Subset
<1>3. \A s \in SUBSET T : s # {} => ord[Pick(s)].lots = f[Pick(s)]
  BY <1>2, PickIsIn
<1>4. \A g : F(g) <=> Adds(g, f, T)
  <2> SUFFICES ASSUME NEW g PROVE F(g) <=> Adds(g, f, T)
    OBVIOUS
  <2> DEFINE a == [s \in SUBSET T |->
                     IF s = {} THEN 0 ELSE ord[Pick(s)].lots + g[s \ {Pick(s)}]]
             b == [s \in SUBSET T |-> IF s = {} THEN 0 ELSE f[Pick(s)] + g[s \ {Pick(s)}]]
  <2> HIDE DEF T, f
  <2>1. a = b
    BY <1>3
  <2> QED BY <2>1 DEF Adds
<1>5. \E g : Adds(g, f, T)
  <2> HIDE DEF f, T
  <2> QED BY <1>2, AddsExists
<1>6. Adds(h, f, T)
  <2> HIDE DEF f, T, F
  <2> QED BY <1>4, <1>5
<1>7. h[T] = Sum(f, T)
  <2> HIDE DEF f, T, h
  <2> QED BY <1>2, <1>6, SumUnfolds
<1> DEFINE c == TakenBy(ord, p)
<1>8. /\ \A k \in T : f[k] \in Int /\ c[k] = f[k]
      /\ \A k \in T : c[k] \in Int
      /\ \A k \in Keys \ T : c[k] = 0
  BY DEF TakenBy, TradeOrder
<1>9. Sum(c, T) = Sum(f, T)
  <2> HIDE DEF f, T, c
  <2> QED BY <1>2, <1>8, SumIsLocal
<1>10. Sum(c, Keys) = Sum(c, T)
  <2> HIDE DEF f, T, c
  <2> QED BY <1>2, <1>8, SumOverPart
<1> QED BY <1>1, <1>7, <1>9, <1>10 DEF Taken

\* A key that decides adds its lots to those of its position.
LEMMA TakenWhenDecided ==
  ASSUME IsFiniteSet(Keys), NEW ord \in [Keys -> TradeOrder], NEW k \in Keys,
         NEW after \in [Keys -> TradeOrder], \A i \in Keys : i # k => after[i] = ord[i],
         ord[k].lots = 0, NEW p
  PROVE  Taken(after, p) = Taken(ord, p) + (IF after[k].pos = p THEN after[k].lots ELSE 0)
<1> DEFINE f == TakenBy(ord, p)
           g == TakenBy(after, p)
<1>1. f[k] = 0 /\ g[k] = IF after[k].pos = p THEN after[k].lots ELSE 0
  BY DEF TakenBy
<1>2. g[k] \in Int /\ \A i \in Keys \ {k} : f[i] \in Int /\ g[i] = f[i]
  BY <1>1 DEF TakenBy, TradeOrder
<1> HIDE DEF f, g
<1>3. f[k] \in Int
  BY <1>1
<1>4. Sum(g, Keys) = Sum(f, Keys) + g[k] - f[k]
  BY <1>2, <1>3, SumChangesWith
<1>5. Sum(f, Keys) \in Int
  <2>1. \A i \in Keys : f[i] \in Int
    BY <1>2, <1>3
  <2> QED BY <2>1, SumIsInt
<1>6. Taken(after, p) = Sum(g, Keys) /\ Taken(ord, p) = Sum(f, Keys)
  BY DEF Taken, f, g
<1>7. Taken(after, p) = Taken(ord, p) + g[k]
  BY <1>1, <1>2, <1>4, <1>5, <1>6
<1> QED BY <1>1, <1>7

\* An evaluation moves lots from open to closed under derived keys, and loses none.
LEMMA EvaluateConserves ==
  ASSUME NEW positions \in [Positions -> Position], OpenHasLots(positions),
         NEW byKeys \in [Positions -> Nat], NEW ord, Kept(positions, byKeys, ord),
         Evaluate(positions, byKeys)
  PROVE  Kept(position', derived', ord)
<1>1. PICK verdict \in Verdicts(status, FlatIn(positions)) : Evaluate(positions, byKeys)!(verdict)
  BY DEF Evaluate
<1>2. CASE verdict = "breached" /\ status # "breached"
  <2> SUFFICES ASSUME NEW p \in Positions
               PROVE  position'[p].lots + derived'[p] + Taken(ord, p)
                        = IF position'[p].st = "none" THEN 0 ELSE Opened[p]
    BY DEF Kept
  <2> DEFINE shut == [positions[p] EXCEPT !.lots = 0, !.st = "closed"]
  <2>1. /\ positions[p] \in Position /\ byKeys[p] \in Nat
        /\ positions[p].lots + byKeys[p] + Taken(ord, p)
             = IF positions[p].st = "none" THEN 0 ELSE Opened[p]
        /\ positions[p].st = "open" <=> positions[p].lots > 0
    BY DEF Kept, OpenHasLots
  <2>2. /\ derived'[p] = byKeys[p] + positions[p].lots
        /\ position'[p] = IF positions[p].st = "open" THEN shut ELSE positions[p]
    BY <1>1, <1>2
  <2>3. CASE positions[p].st = "open"
    <3>1. shut.lots = 0 /\ shut.st = "closed"
      BY <2>1 DEF Position
    <3>2. position'[p].lots = 0 /\ position'[p].st = "closed"
      BY <2>2, <2>3, <3>1
    <3>3. 0 + (byKeys[p] + positions[p].lots) = positions[p].lots + byKeys[p]
      BY <2>1 DEF Position
    <3> QED BY <2>1, <2>2, <2>3, <3>2, <3>3
  <2>4. CASE positions[p].st # "open"
    <3>1. positions[p].lots = 0
      BY <2>1, <2>4 DEF Position
    <3>2. byKeys[p] + positions[p].lots = byKeys[p]
      BY <2>1, <3>1
    <3> QED BY <2>1, <2>2, <2>4, <3>2
  <2> QED BY <2>3, <2>4
<1>3. CASE ~(verdict = "breached" /\ status # "breached")
  <2>1. position' = positions /\ derived' = byKeys
    BY <1>1, <1>3
  <2> QED BY <2>1
<1> QED BY <1>2, <1>3

\* One position changes, and its lots, derived lots and key's lots with it.
LEMMA OneConserves ==
  ASSUME TypeOK, IsFiniteSet(Keys), Kept(position, derived, orders),
         NEW p \in Positions,
         NEW positions, \A i \in Positions : i # p => positions[i] = position[i],
         NEW byKeys, \A i \in Positions : i # p => byKeys[i] = derived[i],
         NEW ord, \A i \in Positions : i # p => Taken(ord, i) = Taken(orders, i),
         positions[p].st # "none",
         positions[p].lots + byKeys[p] + Taken(ord, p) = Opened[p]
  PROVE  Kept(positions, byKeys, ord)
BY DEF Kept

LEMMA LedgerOf ==
  ASSUME TypeOK, ReductionAssumption, IsFiniteSet(Keys), Kept(position, derived, orders),
         NEW p \in Positions
  PROVE  /\ position[p].lots \in Nat /\ derived[p] \in Nat /\ Taken(orders, p) \in Int
         /\ Opened[p] \in Nat
         /\ position[p].st # "none" => position[p].lots + derived[p] + Taken(orders, p) = Opened[p]
         /\ position[p].st = "none" => derived[p] + Taken(orders, p) = 0
<1>1. position[p].lots \in Nat /\ derived[p] \in Nat /\ Opened[p] \in Nat
  BY DEF TypeOK, ReductionAssumption
<1>2. Taken(orders, p) \in Int
  BY TakenIsInt DEF TypeOK, TradeOrder
<1>3. position[p].lots + derived[p] + Taken(orders, p)
        = IF position[p].st = "none" THEN 0 ELSE Opened[p]
  BY DEF Kept
<1>4. position[p].st = "none" => position[p].lots = 0
  BY <1>1 DEF TypeOK
<1> QED BY <1>1, <1>2, <1>3, <1>4

\* A close under a key moves its lots from the position to the key.
LEMMA CloseConserves ==
  ASSUME TypeOK, ReductionAssumption, IsFiniteSet(Keys), Conserved,
         NEW k \in Keys, orders[k].result = "none", NEW p \in Positions, NEW q \in Asked,
         NEW allowed \in BOOLEAN, allowed => CloseAllowed(p, q), CloseLocked(k, p, q, allowed)
  PROVE  Conserved'
<1>1. orders \in [Keys -> TradeOrder] /\ orders[k].lots = 0 /\ derived \in [Positions -> Nat]
        /\ position \in [Positions -> Position] /\ Kept(position, derived, orders)
  BY DEF TypeOK, TradeOrder, Position, Conserved, UnplacedTookNothing
<1>2. CASE allowed
  <2> DEFINE left == position[p].lots - LotsOf(p, q)
             new == [result |-> "filled", pos |-> p, lots |-> LotsOf(p, q)]
             ord == [orders EXCEPT ![k] = new]
             positions == With(p, left)
  <2>1. LotsOf(p, q) \in Nat /\ left \in Nat
    BY <1>2, ClosedLots
  <2>2. new \in TradeOrder /\ new.result = "filled" /\ new.pos = p /\ new.lots = LotsOf(p, q)
    BY <2>1 DEF TradeOrder
  <2>3. orders' = ord /\ Evaluate(positions, derived)
    BY <1>2 DEF CloseLocked
  <2>4. positions \in [Positions -> Position] /\ OpenHasLots(positions)
    BY <2>1, WithTypes
  <2>5. positions[p].lots = left /\ positions[p].st # "none"
          /\ \A i \in Positions : i # p => positions[i] = position[i]
    <3> HIDE DEF left
    <3> QED BY <1>1, <2>1 DEF With, Position
  <2>6. position[p].st # "none"
    BY <1>2 DEF CloseAllowed, IsOpen
  <2>7. \A i \in Positions :
          Taken(ord, i) = Taken(orders, i) + (IF new.pos = i THEN new.lots ELSE 0)
    <3> HIDE DEF new
    <3>1. ord[k] = new /\ ord \in [Keys -> TradeOrder]
            /\ \A i \in Keys : i # k => ord[i] = orders[i]
      BY <1>1, <2>2
    <3> HIDE DEF ord
    <3> QED BY <1>1, <3>1, TakenWhenDecided
  <2>8. \A i \in Positions : i # p => Taken(ord, i) = Taken(orders, i)
    <3> SUFFICES ASSUME NEW i \in Positions, i # p PROVE Taken(ord, i) = Taken(orders, i)
      OBVIOUS
    <3>1. Taken(orders, i) \in Int
      BY <1>1, TakenIsInt
    <3>2. Taken(ord, i) = Taken(orders, i) + 0
      BY <2>2, <2>7
    <3> HIDE DEF ord
    <3> QED BY <3>1, <3>2
  <2>9. positions[p].lots + derived[p] + Taken(ord, p) = Opened[p]
    <3>1. Taken(ord, p) = Taken(orders, p) + LotsOf(p, q)
      BY <2>2, <2>7
    <3> HIDE DEF ord, positions
    <3> QED BY <1>1, <2>1, <2>5, <2>6, <3>1, LedgerOf
  <2> HIDE DEF left, new, ord, positions
  <2>10. Kept(positions, derived, ord)
    BY <1>1, <2>5, <2>8, <2>9, OneConserves
  <2>11. Kept(position', derived', ord)
    BY <1>1, <2>3, <2>4, <2>10, EvaluateConserves
  <2>12. \A i \in Keys : ord[i].result = "none" => ord[i].lots = 0
    <3>1. \A i \in Keys : i # k => ord[i] = orders[i]
      BY <1>1 DEF ord
    <3>2. ord[k] = new
      BY <1>1 DEF ord
    <3> QED BY <2>2, <3>1, <3>2 DEF Conserved, UnplacedTookNothing
  <2> QED BY <2>3, <2>11, <2>12 DEF Conserved, UnplacedTookNothing
<1>3. CASE ~allowed
  <2> DEFINE new == [result |-> "rejected", pos |-> p, lots |-> 0]
             ord == [orders EXCEPT ![k] = new]
  <2>1. new \in TradeOrder /\ new.lots = 0
    BY DEF TradeOrder
  <2>2. orders' = ord /\ UNCHANGED <<status, position, derived>>
    BY <1>3 DEF CloseLocked
  <2> HIDE DEF new
  <2>3. \A i \in Positions : Taken(ord, i) = Taken(orders, i)
    <3> SUFFICES ASSUME NEW i \in Positions PROVE Taken(ord, i) = Taken(orders, i)
      OBVIOUS
    <3>1. Taken(orders, i) \in Int
      BY <1>1, TakenIsInt
    <3>2. ord[k] = new /\ ord \in [Keys -> TradeOrder]
            /\ \A j \in Keys : j # k => ord[j] = orders[j]
      BY <1>1, <2>1
    <3> HIDE DEF ord
    <3>3. Taken(ord, i) = Taken(orders, i) + (IF new.pos = i THEN new.lots ELSE 0)
      BY <1>1, <3>2, TakenWhenDecided
    <3> QED BY <2>1, <3>1, <3>3
  <2>4. \A i \in Keys : ord[i].result = "none" => ord[i].lots = 0
    <3>1. \A i \in Keys : i # k => ord[i] = orders[i]
      BY <1>1
    <3>2. ord[k] = new
      BY <1>1
    <3> QED BY <2>1, <3>1, <3>2 DEF Conserved, UnplacedTookNothing
  <2> HIDE DEF ord
  <2>5. Kept(position, derived, ord)
    BY <1>1, <2>3 DEF Kept
  <2> QED BY <2>2, <2>4, <2>5 DEF Conserved, UnplacedTookNothing
<1> QED BY <1>2, <1>3
\* Steps that evaluate without deciding a key.
LEMMA EvaluationConserves ==
  ASSUME Conserved, NEW positions \in [Positions -> Position], OpenHasLots(positions),
         NEW byKeys \in [Positions -> Nat], Kept(positions, byKeys, orders),
         Evaluate(positions, byKeys), UNCHANGED orders
  PROVE  Conserved'
<1>1. Kept(position', derived', orders)
  BY EvaluateConserves
<1> QED BY <1>1 DEF Conserved, UnplacedTookNothing

LEMMA OpenConserves ==
  ASSUME TypeOK, ReductionAssumption, IsFiniteSet(Keys), Conserved,
         NEW p \in Positions, NEW stop \in Levels, NEW target \in Levels, Open(p, stop, target)
  PROVE  Conserved'
<1> DEFINE new == [st |-> "open", lots |-> Opened[p], stop |-> stop, target |-> target]
           positions == [position EXCEPT ![p] = new]
<1>1. Opened[p] \in Nat /\ Opened[p] > 0
  BY DEF ReductionAssumption
<1>2. new \in Position /\ new.st = "open" /\ new.lots = Opened[p]
  BY <1>1 DEF Position
<1>3. /\ position \in [Positions -> Position] /\ OpenHasLots(position)
      /\ derived \in [Positions -> Nat] /\ Kept(position, derived, orders)
  BY DEF TypeOK, Position, OpenHasLots, Conserved
<1>4. Evaluate(positions, derived) /\ position[p].st = "none" /\ UNCHANGED orders
  BY DEF Open
<1> HIDE DEF new
<1>5. /\ positions \in [Positions -> Position] /\ positions[p] = new
      /\ \A i \in Positions : i # p => positions[i] = position[i]
  BY <1>2, <1>3
<1> HIDE DEF positions
<1>6. OpenHasLots(positions)
  BY <1>1, <1>2, <1>3, <1>5 DEF OpenHasLots
<1>7. positions[p].lots + derived[p] + Taken(orders, p) = Opened[p]
  <2>1. /\ derived[p] \in Nat /\ Taken(orders, p) \in Int
        /\ derived[p] + Taken(orders, p) = 0
    BY <1>3, <1>4, LedgerOf
  <2>2. positions[p].lots = Opened[p]
    BY <1>2, <1>5
  <2> QED BY <1>1, <2>1, <2>2
<1>8. Kept(positions, derived, orders)
  BY <1>2, <1>3, <1>5, <1>7, OneConserves
<1> QED BY <1>3, <1>4, <1>5, <1>6, <1>8, EvaluationConserves

LEMMA ModifyTakesNothing ==
  ASSUME TypeOK, IsFiniteSet(Keys), Conserved,
         NEW p \in Positions, NEW level \in Levels, Modify(p, level)
  PROVE  UnplacedTookNothing' /\ \A i \in Positions : Taken(orders', i) = Taken(orders, i)
<1>1. orders \in [Keys -> TradeOrder] /\ orders' \in [Keys -> TradeOrder]
  BY ModifiedOrders DEF TypeOK, TradeOrder
<1>2. CASE UNCHANGED orders
  BY <1>2 DEF Conserved, UnplacedTookNothing
<1>3. ASSUME NEW k \in Keys, orders[k].result = "none", orders'[k].lots = 0,
             \A i \in Keys : i # k => orders'[i] = orders[i]
      PROVE  UnplacedTookNothing' /\ \A i \in Positions : Taken(orders', i) = Taken(orders, i)
  <2>1. orders[k].lots = 0 /\ UnplacedTookNothing'
    BY <1>3 DEF Conserved, UnplacedTookNothing
  <2>2. ASSUME NEW i \in Positions PROVE Taken(orders', i) = Taken(orders, i)
    <3>1. Taken(orders, i) \in Int
      BY <1>1, TakenIsInt
    <3>2. Taken(orders', i)
            = Taken(orders, i) + (IF orders'[k].pos = i THEN orders'[k].lots ELSE 0)
      BY <1>1, <1>3, <2>1, TakenWhenDecided
    <3> QED BY <1>3, <3>1, <3>2
  <2> QED BY <2>1, <2>2
<1> QED BY <1>2, <1>3, ModifiedOrders

LEMMA ModifyConserves ==
  ASSUME TypeOK, IsFiniteSet(Keys), Conserved, NEW p \in Positions, NEW level \in Levels, Modify(p, level)
  PROVE  Conserved'
<1> DEFINE stopped == [position[p] EXCEPT !.stop = level]
           targeted == [position[p] EXCEPT !.target = level]
<1>1. /\ position \in [Positions -> Position] /\ OpenHasLots(position)
      /\ derived \in [Positions -> Nat] /\ Kept(position, derived, orders)
  BY DEF TypeOK, Position, OpenHasLots, Conserved
<1>2. /\ stopped \in Position /\ stopped.st = position[p].st /\ stopped.lots = position[p].lots
      /\ targeted \in Position /\ targeted.st = position[p].st
      /\ targeted.lots = position[p].lots
  BY <1>1 DEF Position
<1>3. \/ Evaluate([position EXCEPT ![p] = stopped], derived)
      \/ Evaluate([position EXCEPT ![p] = targeted], derived)
  BY <1>1 DEF Modify
<1>5. UnplacedTookNothing' /\ \A i \in Positions : Taken(orders', i) = Taken(orders, i)
  BY ModifyTakesNothing
<1> HIDE DEF stopped, targeted
<1>4. ASSUME NEW new \in Position, new.st = position[p].st, new.lots = position[p].lots,
             Evaluate([position EXCEPT ![p] = new], derived)
      PROVE  Conserved'
  <2> DEFINE positions == [position EXCEPT ![p] = new]
  <2>1. /\ positions \in [Positions -> Position]
        /\ \A i \in Positions : /\ positions[i].st = position[i].st
                                /\ positions[i].lots = position[i].lots
    BY <1>1, <1>4
  <2>2. Evaluate(positions, derived)
    BY <1>4
  <2> HIDE DEF positions
  <2>3. OpenHasLots(positions) /\ Kept(positions, derived, orders')
    BY <1>1, <1>5, <2>1 DEF OpenHasLots, Kept
  <2>4. Kept(position', derived', orders')
    BY <1>1, <2>1, <2>2, <2>3, EvaluateConserves
  <2> QED BY <1>5, <2>4 DEF Conserved
<1> QED BY <1>2, <1>3, <1>4

LEMMA ProtectConserves ==
  ASSUME TypeOK, ReductionAssumption, IsFiniteSet(Keys), Conserved,
         NEW g \in Guards, NEW p \in Positions, Protect(g, p)
  PROVE  Conserved'
<1>1. CASE IsOpen(p) /\ Evaluate(With(p, 0), [derived EXCEPT ![p] = @ + LotsOf(p, Full)])
  <2> DEFINE byKeys == [derived EXCEPT ![p] = derived[p] + position[p].lots]
             positions == With(p, 0)
  <2>1. /\ position \in [Positions -> Position] /\ derived \in [Positions -> Nat]
        /\ position[p].lots \in Nat /\ Kept(position, derived, orders)
    BY DEF TypeOK, Position, Conserved
  <2>2. /\ byKeys \in [Positions -> Nat] /\ byKeys[p] = derived[p] + position[p].lots
        /\ \A i \in Positions : i # p => byKeys[i] = derived[i]
    BY <2>1
  <2>3. positions \in [Positions -> Position] /\ OpenHasLots(positions)
    BY WithTypes
  <2>4. positions[p].lots = 0 /\ positions[p].st # "none"
          /\ \A i \in Positions : i # p => positions[i] = position[i]
    BY <2>1 DEF With, Position
  <2>5. Evaluate(positions, byKeys) /\ UNCHANGED orders /\ position[p].st # "none"
    BY <1>1, <2>1 DEF IsOpen, Protect, LotsOf
  <2> HIDE DEF byKeys, positions
  <2>6. positions[p].lots + byKeys[p] + Taken(orders, p) = Opened[p]
    BY <2>1, <2>2, <2>4, <2>5, LedgerOf
  <2>7. Kept(positions, byKeys, orders)
    BY <2>1, <2>2, <2>4, <2>6, OneConserves
  <2> QED BY <2>2, <2>3, <2>5, <2>7, EvaluationConserves
<1>2. CASE UNCHANGED <<status, position, derived>>
  BY <1>2 DEF Protect, Conserved, UnplacedTookNothing
<1> QED BY <1>1, <1>2 DEF Protect

LEMMA ExecuteConserves ==
  ASSUME IInv, ReductionAssumption, IsFiniteSet(Keys), Conserved,
         NEW r \in Reducers, NEW k \in Keys, Execute(r, k)
  PROVE  Conserved'
<1>1. CASE UNCHANGED <<status, position, orders, derived>>
  BY <1>1 DEF Conserved, UnplacedTookNothing
<1>2. CASE StillQueued(k) /\ ~Placed(k)
  <2> DEFINE p == queue[k].pos
             q == queue[k].lots
             allowed == CloseAllowed(p, q)
  <2>1. p \in Positions /\ q \in Asked /\ orders[k].result = "none"
    BY <1>2 DEF IInv, TypeOK, QueuedHasPosition, StillQueued, Placed
  <2>2. CloseLocked(k, p, q, allowed) /\ allowed \in BOOLEAN /\ (allowed => CloseAllowed(p, q))
    BY <1>2 DEF Execute, CloseAllowed
  <2> HIDE DEF p, q, allowed
  <2> QED BY <2>1, <2>2, CloseConserves DEF IInv
<1> QED BY <1>1, <1>2 DEF Execute

LEMMA CloseKeyConserves ==
  ASSUME TypeOK, ReductionAssumption, IsFiniteSet(Keys), Conserved,
         NEW k \in Keys, NEW p \in Positions, NEW q \in Asked, Close(k, p, q)
  PROVE  Conserved'
<1>1. PICK stale \in BOOLEAN : CloseLocked(k, p, q, CloseAllowed(p, q) /\ ~stale)
  BY DEF Close
<1> DEFINE allowed == CloseAllowed(p, q) /\ ~stale
<1>2. allowed \in BOOLEAN /\ (allowed => CloseAllowed(p, q)) /\ orders[k].result = "none"
  BY DEF CloseAllowed, Close, Placed
<1>3. CloseLocked(k, p, q, allowed)
  BY <1>1
<1> HIDE DEF allowed
<1> QED BY <1>2, <1>3, CloseConserves

LEMMA LotsKeep ==
  ASSUME IInv, ReductionAssumption, IsFiniteSet(Keys), Conserved, [Next]_vars
  PROVE  Conserved'
<1>1. ASSUME UNCHANGED <<position, orders, derived>> PROVE Conserved'
  BY <1>1 DEF Conserved, UnplacedTookNothing
<1>2. CASE UNCHANGED vars
  BY <1>1, <1>2 DEF vars
<1>3. CASE WorkerEvaluate \/ Jam
  BY <1>1, <1>3 DEF WorkerEvaluate, Jam
<1>4. CASE Trader
  <2>1. TypeOK
    BY DEF IInv
  <2>2. ASSUME NEW k \in Keys, NEW p \in Positions, NEW q \in Asked, QueueRead(k, p, q)
        PROVE  Conserved'
    BY <1>1, <2>2 DEF QueueRead
  <2>3. ASSUME QueueWrite \/ \E k \in Keys : Cancel(k) PROVE Conserved'
    BY <1>1, <2>3 DEF QueueWrite, Cancel
  <2> QED BY <1>4, <2>1, <2>2, <2>3, OpenConserves, ModifyConserves, CloseKeyConserves
    DEF Trader
<1>5. ASSUME NEW r \in Reducers, ReducerTick(r) \/ ReducerStep(r) PROVE Conserved'
  <2>1. reducer[r].rows \subseteq Keys
    BY DEF IInv, TypeOK
  <2>2. ReducerTick(r) \/ ReducerRead(r) \/ ReducerAbort(r) => Conserved'
    BY <1>1 DEF ReducerTick, ReducerRead, ReducerAbort
  <2> QED BY <1>5, <2>1, <2>2, ExecuteConserves DEF ReducerStep
<1>6. ASSUME NEW g \in Guards, GuardStep(g) \/ \E price \in Prices : GuardTick(g, price)
      PROVE  Conserved'
  <2>1. guard[g].rows \subseteq Positions /\ TypeOK
    BY DEF IInv, TypeOK
  <2>2. GuardRead(g) \/ GuardAbort(g) \/ (\E price \in Prices : GuardTick(g, price)) => Conserved'
    BY <1>1 DEF GuardTick, GuardRead, GuardAbort
  <2> QED BY <1>6, <2>1, <2>2, ProtectConserves DEF GuardStep
<1> QED BY <1>2, <1>3, <1>4, <1>5, <1>6 DEF Next

\* No lots are closed twice and none are lost, for any number of keys: a position's
\* lots are open, or closed under the key of an immediate or queued close, or closed
\* by a protection or a breach (closePositionLocked, findExistingOrder).
THEOREM LotsAccounted ==
  ASSUME IsFiniteSet(Keys)
  PROVE  Spec => []LotsAreAccountedFor
<1>1. ReductionAssumption /\ Init => Conserved
  <2> SUFFICES ASSUME ReductionAssumption, Init PROVE Conserved
    OBVIOUS
  <2>1. UnplacedTookNothing
    BY DEF Init, Unplaced, UnplacedTookNothing
  <2>2. ASSUME NEW p \in Positions PROVE Taken(orders, p) = 0
    <3>1. \A k \in Keys : TakenBy(orders, p)[k] = 0
      BY DEF TakenBy, Init, Unplaced
    <3> HIDE DEF TakenBy
    <3> QED BY <3>1, SumOfZeros DEF Taken
  <2>3. Kept(position, derived, orders)
    BY <2>2 DEF Kept, Init
  <2> QED BY <2>1, <2>3 DEF Conserved
<1>2. ReductionAssumption /\ IInv /\ Conserved /\ [Next]_vars => Conserved'
  BY LotsKeep
<1>3. ReductionAssumption /\ IInv /\ Conserved => LotsAreAccountedFor
  <2> SUFFICES ASSUME ReductionAssumption, IInv, Conserved, NEW p \in Positions,
                      position[p].st # "none"
               PROVE  position[p].lots + derived[p]
                        + MapThenSumSet(LAMBDA k : orders[k].lots, {k \in Keys : orders[k].pos = p})
                        = Opened[p]
    BY DEF LotsAreAccountedFor
  <2>1. orders \in [Keys -> TradeOrder]
    BY DEF IInv, TypeOK, TradeOrder
  <2>2. MapThenSumSet(LAMBDA k : orders[k].lots, {k \in Keys : orders[k].pos = p})
          = Taken(orders, p)
    BY <2>1, TakenIsTheSum
  <2>3. position[p].lots + derived[p] + Taken(orders, p) = Opened[p]
    BY LedgerOf DEF IInv, Conserved
  <2> QED BY <2>2, <2>3
<1> QED BY <1>1, <1>2, <1>3, ReductionAssumption, ReductionInvariant, PTL DEF Spec
=============================================================================

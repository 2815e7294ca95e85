------------------------ MODULE PendingOrders_proofs ------------------------
(***************************************************************************)
(* Theorems about PendingOrders, for any orders, prices, lots, limits and  *)
(* number of overlapping scans.                                            *)
(***************************************************************************)
EXTENDS PendingOrders, FiniteSetTheorems, WellFoundedInduction, TLAPS

\* An order with an edit under way was not settled by a tick: the edit holds the
\* account's row, so only a cancellation can have come in between.
EditedNotTriggered == \A e \in edit : pending[e.id].st \in {"active", "cancelled"}

IInv == TypeOK /\ SettledWithItsOrder /\ FilledWithinTrigger /\ EditedNotTriggered

-----------------------------------------------------------------------------
(* The building blocks.                                                    *)

Row == [st: OrderStatuses, lots: Nat, trigger: Int, version: Nat, entry: Int,
        execution: BOOLEAN]

\* An evaluation leaves a status and lots of the right type, and opens nothing.
LEMMA EvaluateTypes ==
  ASSUME status \in Statuses, NEW flat, NEW verdict \in Verdicts(status, flat),
         NEW lotsOf \in [Orders -> Nat], NEW lots \in Nat, Evaluate(verdict, lotsOf, lots)
  PROVE  /\ status' \in Statuses
         /\ held' \in [Orders -> Nat] /\ other' \in Nat
         /\ \A id \in Orders : held'[id] <= lotsOf[id]
         /\ \A id \in Orders : lotsOf[id] = 0 => held'[id] = 0
<1>1. verdict \in Statuses
  BY DEF Verdicts, Statuses
<1>2. CASE verdict = "breached" /\ status # "breached"
  BY <1>1, <1>2 DEF Evaluate
<1>3. CASE ~(verdict = "breached" /\ status # "breached")
  BY <1>1, <1>3 DEF Evaluate
<1> QED BY <1>2, <1>3

\* A scan that drops a row keeps its type.
LEMMA RowsTypes ==
  ASSUME TypeOK, NEW s \in Scans, NEW rows \in SUBSET Rows, WithRows(s, rows)
  PROVE  scan' \in [Scans -> [st: {"idle", "ticked", "rows"}, price: Int, rows: SUBSET Rows]]
<1>1. Idle \in [st: {"idle", "ticked", "rows"}, price: Int, rows: SUBSET Rows]
  BY DEF Idle
<1>2. scan[s].price \in Int
  BY DEF TypeOK
<1>3. [st |-> "rows", price |-> scan[s].price, rows |-> rows]
        \in [st: {"idle", "ticked", "rows"}, price: Int, rows: SUBSET Rows]
  BY <1>2
<1> QED BY <1>1, <1>3 DEF WithRows, TypeOK

\* What a claim leaves: the order settled with its trade order, at a price within
\* its trigger, a position only when it was allowed.
LEMMA ClaimedEffect ==
  ASSUME IInv, PendingAssumption,
         NEW row, row.id \in Orders, NEW p \in Int,
         StillActive(row.id), MetAsClaimed(row, p), Claimed(row, p)
  PROVE  /\ status' \in Statuses
         /\ pending' \in [Orders -> Row]
         /\ orders' \in [Orders -> {"none", "filled", "rejected"}]
         /\ held' \in [Orders -> Nat] /\ other' \in Nat
         /\ \A id \in Orders : id # row.id =>
              pending'[id] = pending[id] /\ orders'[id] = orders[id] /\ held'[id] <= held[id]
         /\ pending[row.id].st = "active"
         /\ \/ /\ MayOpen
               /\ orders'[row.id] = "filled" /\ pending'[row.id].st = "filled"
               /\ pending'[row.id].trigger = pending[row.id].trigger
               /\ pending'[row.id].entry = FillPrice(row.id, p)
            \/ /\ orders'[row.id] = "rejected" /\ pending'[row.id].st = "failed"
               /\ held' = held
         /\ pending'[row.id].execution
<1> DEFINE id == row.id
<1>1. id \in Orders /\ pending[id] \in Row /\ pending \in [Orders -> Row]
  BY DEF IInv, TypeOK, Row
<1>2. PICK gated \in BOOLEAN : Claimed(row, p)!(gated)
  BY DEF Claimed
<1> DEFINE result == IF MayOpen /\ WithinLimit(pending[id].lots) /\ ~gated
                     THEN "filled" ELSE "rejected"
<1>3. pending[id].st = "active" /\ held[id] = 0
  BY <1>1 DEF StillActive, IInv, SettledWithItsOrder
<1>4. FillPrice(id, p) \in Int
  BY <1>1 DEF FillPrice, PendingAssumption, Row
<1>5. CASE result = "filled"
  <2> DEFINE new == [pending[id] EXCEPT !.st = "filled", !.execution = TRUE,
                                      !.entry = FillPrice(id, p)]
  <2>1. MayOpen /\ orders' = [orders EXCEPT ![id] = "filled"]
    BY <1>2, <1>5
  <2>2. pending' = [pending EXCEPT ![id] = new]
    BY <1>2, <1>5 DEF SettledAs
  <2>3. new \in Row /\ new.st = "filled" /\ new.trigger = pending[id].trigger
          /\ new.entry = FillPrice(id, p) /\ new.execution
    BY <1>1, <1>4 DEF Row, OrderStatuses
  <2>4. PICK verdict \in Verdicts(status, FALSE) :
          Evaluate(verdict, [held EXCEPT ![id] = pending[id].lots], other)
    BY <1>2, <1>5
  <2>5. [held EXCEPT ![id] = pending[id].lots] \in [Orders -> Nat]
    BY <1>1 DEF IInv, TypeOK, Row
  <2>6. /\ status' \in Statuses /\ held' \in [Orders -> Nat] /\ other' \in Nat
        /\ \A i \in Orders : held'[i] <= [held EXCEPT ![id] = pending[id].lots][i]
    BY <2>4, <2>5, EvaluateTypes DEF IInv, TypeOK
  <2>7. orders' \in [Orders -> {"none", "filled", "rejected"}] /\ pending' \in [Orders -> Row]
    BY <1>1, <2>1, <2>2, <2>3 DEF IInv, TypeOK
  <2>8. \A i \in Orders : i # id =>
          pending'[i] = pending[i] /\ orders'[i] = orders[i] /\ held'[i] <= held[i]
    BY <1>1, <2>1, <2>2, <2>6 DEF IInv, TypeOK
  <2>9. orders'[id] = "filled" /\ pending'[id] = new
    BY <1>1, <2>1, <2>2 DEF IInv, TypeOK
  <2> QED BY <1>3, <2>1, <2>3, <2>6, <2>7, <2>8, <2>9
<1>6. CASE result = "rejected"
  <2> DEFINE new == [pending[id] EXCEPT !.st = "failed", !.execution = TRUE, !.entry = 0]
  <2>1. orders' = [orders EXCEPT ![id] = "rejected"] /\ UNCHANGED <<status, held, other>>
    BY <1>2, <1>6
  <2>2. pending' = [pending EXCEPT ![id] = new]
    BY <1>2, <1>6 DEF SettledAs
  <2>3. new \in Row /\ new.st = "failed" /\ new.execution
    <3> DEFINE failed(z) == [pending[id] EXCEPT !.st = "failed", !.execution = TRUE,
                                                !.entry = z]
    <3>1. \A z \in Int : failed(z) \in Row /\ failed(z).st = "failed" /\ failed(z).execution
      BY <1>1 DEF Row, OrderStatuses
    <3>2. new = failed(0)
      OBVIOUS
    <3> HIDE DEF new, failed
    <3> QED BY <3>1, <3>2
  <2>4. orders' \in [Orders -> {"none", "filled", "rejected"}] /\ pending' \in [Orders -> Row]
    BY <1>1, <2>1, <2>2, <2>3 DEF IInv, TypeOK
  <2>5. \A i \in Orders : i # id =>
          pending'[i] = pending[i] /\ orders'[i] = orders[i] /\ held'[i] <= held[i]
    BY <1>1, <2>1, <2>2 DEF IInv, TypeOK
  <2>6. orders'[id] = "rejected" /\ pending'[id] = new
    BY <1>1, <2>1, <2>2 DEF IInv, TypeOK
  <2> QED BY <1>3, <2>1, <2>3, <2>4, <2>5, <2>6 DEF IInv, TypeOK
<1> QED BY <1>5, <1>6

\* An order that fails for want of a specification changes nothing else.
LEMMA UnspecifiedEffect ==
  ASSUME TypeOK, NEW id \in Orders, Unspecified(id)
  PROVE  /\ pending' \in [Orders -> Row]
         /\ \A i \in Orders : i # id => pending'[i] = pending[i]
         /\ pending'[id].st = "failed"
         /\ pending'[id].execution = pending[id].execution
         /\ UNCHANGED <<status, orders, held, other>>
<1> DEFINE new == [pending[id] EXCEPT !.st = "failed"]
<1>1. pending[id] \in Row /\ pending \in [Orders -> Row]
  BY DEF TypeOK, Row
<1>2. new \in Row /\ new.st = "failed" /\ new.execution = pending[id].execution
  BY <1>1 DEF Row, OrderStatuses
<1>3. pending' = [pending EXCEPT ![id] = new] /\ UNCHANGED <<status, orders, held, other>>
  BY DEF Unspecified
<1> HIDE DEF new
<1> QED BY <1>1, <1>2, <1>3

-----------------------------------------------------------------------------
(* The inductive invariant.                                                *)

THEOREM InitInvariant == PendingAssumption /\ Init => IInv
<1> SUFFICES ASSUME PendingAssumption, Init PROVE IInv
  OBVIOUS
<1>1. Absent \in Row
  BY DEF Absent, Row, OrderStatuses
<1>2. Idle \in [st: {"idle", "ticked", "rows"}, price: Int, rows: SUBSET Rows]
  BY DEF Idle
<1>3. TypeOK
  <2>1. pending \in [Orders -> Row] /\ jammed \in BOOLEAN
    BY <1>1 DEF Init
  <2>2. edit \in SUBSET Edits /\ Cardinality(edit) <= 1
    BY FS_EmptySet DEF Init
  <2> QED BY <1>2, <2>1, <2>2 DEF Init, TypeOK, Statuses, Row
<1>4. SettledWithItsOrder /\ FilledWithinTrigger /\ EditedNotTriggered
  BY DEF Init, Absent, SettledWithItsOrder, FilledWithinTrigger, EditedNotTriggered
<1> QED BY <1>3, <1>4 DEF IInv

\* Steps that leave orders and positions alone keep what relates them.
LEMMA Untouched ==
  ASSUME SettledWithItsOrder, FilledWithinTrigger, UNCHANGED <<pending, orders, held>>
  PROVE  SettledWithItsOrder' /\ FilledWithinTrigger'
BY DEF SettledWithItsOrder, FilledWithinTrigger

\* The trader's commands on pending orders.
LEMMA CreateKeeps ==
  ASSUME IInv, NEW id \in Orders, NEW lots \in Lots, NEW trigger \in Prices,
         NEW seen \in Prices, PendingAssumption, Create(id, lots, trigger, seen)
  PROVE  IInv'
<1> DEFINE new == [Absent EXCEPT !.st = "active", !.lots = lots, !.trigger = trigger]
<1>1. new \in Row /\ new.st = "active" /\ ~new.execution
  <2> DEFINE created(a) == [a EXCEPT !.st = "active", !.lots = lots, !.trigger = trigger]
  <2>1. Absent \in Row
    BY DEF Absent, Row, OrderStatuses
  <2>2. lots \in Nat /\ trigger \in Int
    BY DEF PendingAssumption
  <2>3. \A a \in Row : /\ created(a) \in Row /\ created(a).st = "active"
                          /\ created(a).execution = a.execution
    BY <2>2 DEF Row, OrderStatuses
  <2>4. new = created(Absent)
    OBVIOUS
  <2>5. ~Absent.execution
    BY DEF Absent
  <2> HIDE DEF new, created
  <2> QED BY <2>1, <2>3, <2>4, <2>5
<1>2. pending' = [pending EXCEPT ![id] = new] /\ edit = {} /\ pending[id].st = "none"
  BY DEF Create, AccountFree
<1>3. UNCHANGED <<status, orders, held, other, edit, scan, jammed>>
  BY DEF Create
<1> HIDE DEF new
<1>4. pending \in [Orders -> Row] /\ pending' \in [Orders -> Row]
  BY <1>1, <1>2 DEF IInv, TypeOK, Row
<1>5. TypeOK'
  BY <1>3, <1>4 DEF IInv, TypeOK, Row
<1>6. pending'[id].st = "active" /\ ~pending'[id].execution
        /\ \A i \in Orders : i # id => pending'[i] = pending[i]
  BY <1>1, <1>2, <1>4
<1>7. SettledWithItsOrder'
  <2>1. orders[id] = "none" /\ orders' = orders /\ held' = held
    BY <1>2, <1>3 DEF IInv, TypeOK, SettledWithItsOrder
  <2> QED BY <1>2, <1>6, <2>1 DEF IInv, SettledWithItsOrder
<1>8. FilledWithinTrigger'
  BY <1>6 DEF IInv, FilledWithinTrigger
<1>9. EditedNotTriggered'
  BY <1>2, <1>3 DEF EditedNotTriggered
<1> QED BY <1>5, <1>7, <1>8, <1>9 DEF IInv

LEMMA ModifyReadKeeps ==
  ASSUME IInv, NEW id \in Orders, NEW lots \in Lots, NEW trigger \in Prices,
         NEW seen \in Prices, ModifyRead(id, lots, trigger, seen)
  PROVE  IInv'
<1> DEFINE e == [id |-> id, version |-> pending[id].version, lots |-> lots, trigger |-> trigger]
<1>1. e \in Edits /\ e.id = id /\ pending[id].st = "active" /\ edit' = {e}
  BY DEF ModifyRead, IInv, TypeOK, Edits
<1>2. UNCHANGED <<status, pending, orders, held, other, scan, jammed>>
  BY DEF ModifyRead
<1> HIDE DEF e
<1>3. Cardinality({e}) = 1
  BY FS_Singleton
<1>4. TypeOK'
  BY <1>1, <1>2, <1>3 DEF IInv, TypeOK
<1>5. EditedNotTriggered'
  BY <1>1, <1>2 DEF EditedNotTriggered
<1> QED BY <1>2, <1>4, <1>5, Untouched DEF IInv

LEMMA ModifyWriteKeeps ==
  ASSUME IInv, PendingAssumption, ModifyWrite
  PROVE  IInv'
<1>1. PICK e \in edit : ModifyWrite!(e)
  BY DEF ModifyWrite
<1>2. e \in Edits /\ e.id \in Orders /\ pending[e.id] \in Row /\ pending \in [Orders -> Row]
  BY DEF IInv, TypeOK, Edits, Row
<1>3. edit' = {} /\ UNCHANGED <<status, orders, held, other, scan, jammed>>
  BY <1>1
<1>4. EditedNotTriggered'
  BY <1>3 DEF EditedNotTriggered
<1>5. CASE UNCHANGED pending
  <2>1. TypeOK'
    BY <1>3, <1>5, FS_EmptySet DEF IInv, TypeOK
  <2> QED BY <1>3, <1>4, <1>5, <2>1, Untouched DEF IInv
<1>6. CASE pending[e.id].version = e.version
  <2> DEFINE new == [pending[e.id] EXCEPT !.lots = e.lots, !.trigger = e.trigger,
                                          !.version = e.version + 1]
  <2>1. pending' = [pending EXCEPT ![e.id] = new]
    BY <1>1, <1>6
  <2>2. new \in Row /\ new.st = pending[e.id].st /\ new.execution = pending[e.id].execution
    <3> DEFINE edited(l, t, v) ==
          [pending[e.id] EXCEPT !.lots = l, !.trigger = t, !.version = v]
    <3>1. e.lots \in Lots /\ e.trigger \in Prices /\ e.version \in Nat
      BY <1>2 DEF Edits
    <3>2. e.lots \in Nat /\ e.trigger \in Int /\ e.version + 1 \in Nat
      <4>1. e.lots \in Nat /\ e.trigger \in Int
        BY <3>1 DEF PendingAssumption
      <4>2. \A v \in Nat : v + 1 \in Nat
        OBVIOUS
      <4> QED BY <3>1, <4>1, <4>2
    <3>3. \A l \in Nat, t \in Int, v \in Nat :
            /\ edited(l, t, v) \in Row /\ edited(l, t, v).st = pending[e.id].st
            /\ edited(l, t, v).execution = pending[e.id].execution
      BY <1>2 DEF Row
    <3>4. new = edited(e.lots, e.trigger, e.version + 1)
      OBVIOUS
    <3> HIDE DEF new, edited
    <3> QED BY <3>2, <3>3, <3>4
  <2> HIDE DEF new
  <2>3. pending' \in [Orders -> Row] /\ pending'[e.id].st = pending[e.id].st
          /\ pending'[e.id].execution = pending[e.id].execution
          /\ \A i \in Orders : i # e.id => pending'[i] = pending[i]
    BY <1>2, <2>1, <2>2
  <2>4. TypeOK'
    BY <1>3, <2>3, FS_EmptySet DEF IInv, TypeOK, Row
  <2>5. SettledWithItsOrder'
    BY <1>3, <2>3 DEF IInv, SettledWithItsOrder
  <2>6. pending[e.id].st # "filled"
    BY DEF IInv, EditedNotTriggered
  <2>7. FilledWithinTrigger'
    BY <2>3, <2>6 DEF IInv, FilledWithinTrigger
  <2> QED BY <1>4, <2>4, <2>5, <2>7 DEF IInv
<1> QED BY <1>1, <1>5, <1>6

LEMMA CancelKeeps ==
  ASSUME IInv, NEW ids \in SUBSET Orders, Cancel(ids)
  PROVE  IInv'
<1>1. UNCHANGED <<status, orders, held, other, edit, scan, jammed>> /\ ids \subseteq Active
  BY DEF Cancel
<1>2. \A id \in Orders : [pending[id] EXCEPT !.st = "cancelled"] \in Row
  BY DEF IInv, TypeOK, Row, OrderStatuses
<1>3. pending \in [Orders -> Row] /\ pending' \in [Orders -> Row]
  BY <1>2 DEF IInv, TypeOK, Row, Cancel
<1>4. \A id \in Orders : \/ pending'[id] = pending[id]
                         \/ /\ pending[id].st = "active" /\ pending'[id].st = "cancelled"
                            /\ pending'[id].execution = pending[id].execution
  BY <1>1, <1>3 DEF Cancel, Active, Row
<1>5. TypeOK'
  BY <1>1, <1>3 DEF IInv, TypeOK, Row
<1>6. SettledWithItsOrder'
  BY <1>1, <1>4 DEF IInv, SettledWithItsOrder
<1>7. FilledWithinTrigger'
  BY <1>4 DEF IInv, FilledWithinTrigger
<1>8. EditedNotTriggered'
  BY <1>1, <1>4 DEF IInv, EditedNotTriggered, TypeOK, Edits
<1> QED BY <1>5, <1>6, <1>7, <1>8 DEF IInv

\* An evaluation that opens no order's position keeps the invariant.
LEMMA EvaluatedKeeps ==
  ASSUME IInv, NEW flat, NEW verdict \in Verdicts(status, flat),
         NEW lotsOf \in [Orders -> Nat], NEW lots \in Nat,
         \A id \in Orders : held[id] = 0 => lotsOf[id] = 0,
         Evaluate(verdict, lotsOf, lots),
         UNCHANGED <<pending, orders, edit, scan, jammed>>
  PROVE  IInv'
<1>1. /\ status' \in Statuses /\ held' \in [Orders -> Nat] /\ other' \in Nat
      /\ \A id \in Orders : lotsOf[id] = 0 => held'[id] = 0
  BY EvaluateTypes DEF IInv, TypeOK
<1>2. TypeOK'
  BY <1>1 DEF IInv, TypeOK
<1>3. SettledWithItsOrder'
  BY <1>1 DEF IInv, SettledWithItsOrder
<1>4. FilledWithinTrigger' /\ EditedNotTriggered'
  BY DEF IInv, FilledWithinTrigger, EditedNotTriggered
<1> QED BY <1>2, <1>3, <1>4 DEF IInv

LEMMA MarketKeeps ==
  ASSUME IInv, PendingAssumption, Close \/ (\E lots \in Lots : MarketOpen(lots))
  PROVE  IInv'
<1>1. held \in [Orders -> Nat] /\ other \in Nat /\ Lots \subseteq Nat
  BY DEF IInv, TypeOK, PendingAssumption
<1>2. ASSUME NEW lots \in Lots, MarketOpen(lots) PROVE IInv'
  <2>1. PICK verdict \in Verdicts(status, FALSE) : Evaluate(verdict, held, other + lots)
    BY <1>2 DEF MarketOpen
  <2>2. UNCHANGED <<pending, orders, edit, scan, jammed>>
    BY <1>2 DEF MarketOpen
  <2>3. other + lots \in Nat
    BY <1>1
  <2> QED BY <1>1, <2>1, <2>2, <2>3, EvaluatedKeeps
<1>3. ASSUME NEW lotsOf \in [Orders -> Nat], NEW lots \in Nat, MarketClose(lotsOf, lots),
             \A id \in Orders : lotsOf[id] <= held[id]
      PROVE  IInv'
  <2>1. PICK verdict \in Verdicts(status, Flat(lotsOf, lots)) : Evaluate(verdict, lotsOf, lots)
    BY <1>3 DEF MarketClose
  <2>2. UNCHANGED <<pending, orders, edit, scan, jammed>>
    BY <1>3 DEF MarketClose
  <2>3. \A id \in Orders : held[id] = 0 => lotsOf[id] = 0
    BY <1>1, <1>3
  <2> QED BY <2>1, <2>2, <2>3, EvaluatedKeeps
<1>4. ASSUME NEW id \in Orders, NEW left \in {0} \cup Lots, left < held[id],
             MarketClose([held EXCEPT ![id] = left], other)
      PROVE  IInv'
  <2> DEFINE lotsOf == [held EXCEPT ![id] = left]
  <2>1. lotsOf \in [Orders -> Nat] /\ \A i \in Orders : lotsOf[i] <= held[i]
    BY <1>1, <1>4
  <2>2. MarketClose(lotsOf, other)
    BY <1>4
  <2> HIDE DEF lotsOf
  <2> QED BY <1>1, <1>3, <2>1, <2>2
<1>5. ASSUME NEW left \in {0} \cup Lots, left < other, MarketClose(held, left)
      PROVE  IInv'
  BY <1>1, <1>3, <1>5
<1> QED BY <1>2, <1>4, <1>5 DEF Close

LEMMA WorkerKeeps ==
  ASSUME IInv, WorkerEvaluate
  PROVE  IInv'
<1>1. status' \in Statuses /\ UNCHANGED <<pending, orders, held, other, edit, scan, jammed>>
  BY DEF WorkerEvaluate, Finalizations, Verdicts, Statuses, IInv, TypeOK
<1>2. TypeOK' /\ EditedNotTriggered'
  BY <1>1 DEF IInv, TypeOK, EditedNotTriggered
<1> QED BY <1>1, <1>2, Untouched DEF IInv

\* That scans throw, or no longer do, touches no order.
LEMMA JamKeeps ==
  ASSUME IInv, Jam
  PROVE  IInv'
<1>1. UNCHANGED <<status, pending, orders, held, other, edit, scan>> /\ jammed' \in BOOLEAN
  BY DEF Jam
<1>2. TypeOK' /\ EditedNotTriggered'
  BY <1>1 DEF IInv, TypeOK, EditedNotTriggered
<1> QED BY <1>1, <1>2, Untouched DEF IInv

\* A tick, the candidates of a scan and its end touch no order.
LEMMA ScanKeeps ==
  ASSUME IInv, PendingAssumption, NEW s \in Scans,
         (\E p \in Prices : Tick(p, s)) \/ ScanRead(s) \/ Abort(s)
  PROVE  IInv'
<1> DEFINE Types == [st: {"idle", "ticked", "rows"}, price: Int, rows: SUBSET Rows]
<1>1. UNCHANGED <<status, pending, orders, held, other, edit>>
  BY DEF Tick, ScanRead, Abort
<1>2. scan' \in [Scans -> Types] /\ jammed' \in BOOLEAN
  <2>1. CASE \E p \in Prices : Tick(p, s)
    <3>1. PICK p \in Prices : Tick(p, s)
      BY <2>1
    <3>2. [st |-> "ticked", price |-> p, rows |-> {}] \in Types
      BY DEF PendingAssumption
    <3> QED BY <3>1, <3>2 DEF Tick, IInv, TypeOK
  <2>2. CASE ScanRead(s)
    <3> DEFINE met == {i \in Active : Met(i, pending[i].trigger, scan[s].price)}
               rows == {[id |-> id, trigger |-> pending[id].trigger] : id \in met}
    <3>1. WithRows(s, rows) /\ jammed' = jammed
      BY <2>2 DEF ScanRead
    <3>2. \A id \in Orders : pending[id].trigger \in Int
      BY DEF IInv, TypeOK
    <3>3. rows \in SUBSET Rows
      BY <3>2 DEF Rows, Active
    <3> HIDE DEF rows
    <3> QED BY <3>1, <3>3, RowsTypes DEF IInv, TypeOK
  <2>3. CASE Abort(s)
    <3>1. Idle \in Types
      BY DEF Idle
    <3> QED BY <2>3, <3>1 DEF Abort, IInv, TypeOK
  <2> QED BY <2>1, <2>2, <2>3
<1>3. TypeOK' /\ EditedNotTriggered'
  BY <1>1, <1>2 DEF IInv, TypeOK, EditedNotTriggered
<1> QED BY <1>1, <1>3, Untouched DEF IInv

LEMMA TriggerKeeps ==
  ASSUME IInv, PendingAssumption, NEW s \in Scans, NEW row \in scan[s].rows, Trigger(s, row)
  PROVE  IInv'
<1>1. row \in Rows /\ row.id \in Orders /\ scan[s].price \in Int /\ scan[s].rows \subseteq Rows
  BY DEF IInv, TypeOK, Rows
<1>2. /\ scan' \in [Scans -> [st: {"idle", "ticked", "rows"}, price: Int, rows: SUBSET Rows]]
      /\ UNCHANGED <<edit, jammed>> /\ edit = {}
  BY <1>1, RowsTypes DEF Trigger, IInv, AccountFree
<1>3. EditedNotTriggered'
  BY <1>2 DEF EditedNotTriggered
<1>4. CASE UNCHANGED <<status, pending, orders, held, other>>
  <2>1. TypeOK'
    BY <1>2, <1>4 DEF IInv, TypeOK
  <2> QED BY <1>3, <1>4, <2>1, Untouched DEF IInv
<1>5. CASE /\ StillActive(row.id) /\ MetAsClaimed(row, scan[s].price)
           /\ Claimed(row, scan[s].price)
  <2> DEFINE p == scan[s].price
  <2>1. /\ status' \in Statuses
        /\ pending' \in [Orders -> Row]
        /\ orders' \in [Orders -> {"none", "filled", "rejected"}]
        /\ held' \in [Orders -> Nat] /\ other' \in Nat
        /\ \A id \in Orders : id # row.id =>
             pending'[id] = pending[id] /\ orders'[id] = orders[id] /\ held'[id] <= held[id]
        /\ pending[row.id].st = "active"
        /\ \/ /\ MayOpen
              /\ orders'[row.id] = "filled" /\ pending'[row.id].st = "filled"
              /\ pending'[row.id].trigger = pending[row.id].trigger
              /\ pending'[row.id].entry = FillPrice(row.id, p)
           \/ /\ orders'[row.id] = "rejected" /\ pending'[row.id].st = "failed"
              /\ held' = held
        /\ pending'[row.id].execution
    BY <1>1, <1>5, ClaimedEffect
  <2>2. TypeOK'
    BY <1>2, <2>1 DEF IInv, TypeOK, Row
  <2>3. held[row.id] = 0 /\ held \in [Orders -> Nat]
    BY <1>1, <2>1 DEF IInv, SettledWithItsOrder, TypeOK
  <2>4. SettledWithItsOrder'
    <3> SUFFICES ASSUME NEW id \in Orders
                 PROVE  /\ pending'[id].st = "filled" <=> orders'[id] = "filled"
                        /\ orders'[id] = "rejected" => pending'[id].st = "failed"
                        /\ pending'[id].execution <=> orders'[id] # "none"
                        /\ pending'[id].st # "filled" => held'[id] = 0
      BY DEF SettledWithItsOrder
    <3>1. CASE id = row.id
      BY <2>1, <2>3, <3>1
    <3>2. CASE id # row.id
      BY <2>1, <2>3, <3>2 DEF IInv, SettledWithItsOrder
    <3> QED BY <3>1, <3>2
  <2>5. FilledWithinTrigger'
    <3> SUFFICES ASSUME NEW id \in Orders, pending'[id].st = "filled"
                 PROVE  IF Kind[id] = "buy_limit"
                        THEN pending'[id].entry <= pending'[id].trigger
                        ELSE pending'[id].entry >= pending'[id].trigger + Slippage
      BY DEF FilledWithinTrigger
    <3>1. CASE id = row.id
      <4>1. p \in Int /\ pending[id].trigger \in Int /\ Slippage \in Nat
        BY <1>1 DEF IInv, TypeOK, PendingAssumption
      <4>2. /\ pending'[id].trigger = pending[id].trigger
            /\ pending'[id].entry = FillPrice(id, p)
        BY <2>1, <3>1
      <4>3. IF Kind[id] = "buy_limit" THEN p <= pending[id].trigger ELSE p >= pending[id].trigger
        BY <1>5, <3>1 DEF MetAsClaimed, Met
      <4> HIDE DEF p
      <4> QED BY <4>1, <4>2, <4>3 DEF FillPrice
    <3>2. CASE id # row.id
      BY <2>1, <3>2 DEF IInv, FilledWithinTrigger
    <3> QED BY <3>1, <3>2
  <2> QED BY <1>3, <2>2, <2>4, <2>5 DEF IInv
<1>6. CASE StillActive(row.id) /\ Unspecified(row.id)
  <2>1. /\ pending' \in [Orders -> Row]
        /\ \A i \in Orders : i # row.id => pending'[i] = pending[i]
        /\ pending'[row.id].st = "failed"
        /\ pending'[row.id].execution = pending[row.id].execution
        /\ UNCHANGED <<status, orders, held, other>>
    BY <1>1, <1>6, UnspecifiedEffect DEF IInv
  <2>2. TypeOK'
    BY <1>2, <2>1 DEF IInv, TypeOK, Row
  <2>3. pending[row.id].st = "active"
    BY <1>6 DEF StillActive
  <2>4. SettledWithItsOrder'
    BY <1>1, <2>1, <2>3 DEF IInv, SettledWithItsOrder
  <2>5. FilledWithinTrigger'
    BY <1>1, <2>1 DEF IInv, FilledWithinTrigger
  <2> QED BY <1>3, <2>2, <2>4, <2>5 DEF IInv
<1> QED BY <1>4, <1>5, <1>6 DEF Trigger

\* Every step keeps the invariant.
THEOREM NextInvariant == PendingAssumption /\ IInv /\ [Next]_vars => IInv'
<1> SUFFICES ASSUME PendingAssumption, IInv, [Next]_vars PROVE IInv'
  OBVIOUS
<1>1. CASE UNCHANGED vars
  <2>1. UNCHANGED <<status, pending, orders, held, other, edit, scan, jammed>>
    BY <1>1 DEF vars
  <2>2. TypeOK' /\ EditedNotTriggered'
    BY <2>1 DEF IInv, TypeOK, EditedNotTriggered
  <2> QED BY <2>1, <2>2, Untouched DEF IInv
<1>2. CASE Trader
  BY <1>2, CreateKeeps, ModifyReadKeeps, ModifyWriteKeeps, CancelKeeps, MarketKeeps
    DEF Trader, Active
<1>3. CASE WorkerEvaluate
  BY <1>3, WorkerKeeps
<1>4. ASSUME NEW s \in Scans, (\E p \in Prices : Tick(p, s)) \/ ScanStep(s) \/ Abort(s)
      PROVE  IInv'
  BY <1>4, ScanKeeps, TriggerKeeps DEF ScanStep
<1>5. CASE Jam
  BY <1>5, JamKeeps
<1> QED BY <1>1, <1>2, <1>3, <1>4, <1>5 DEF Next

-----------------------------------------------------------------------------
(* The theorems.                                                           *)

\* The inductive invariant: types, settlement, fill prices, and an edit under
\* way is never of an order that a tick has settled.
THEOREM PendingInvariant == Spec => []IInv
BY PendingAssumption, InitInvariant, NextInvariant, PTL DEF Spec

\* Type correctness of the pending orders (pending-orders.ts).
THEOREM TypeInvariant == Spec => []TypeOK
<1>1. IInv => TypeOK
  BY DEF IInv
<1> QED BY <1>1, PendingInvariant, PTL

\* A pending order and its trade order are settled together, whatever scans,
\* edits and cancellations overlap (triggerPendingOrders).
THEOREM SettledTogether == Spec => []SettledWithItsOrder
<1>1. IInv => SettledWithItsOrder
  BY DEF IInv
<1> QED BY <1>1, PendingInvariant, PTL

\* A limit order never fills above its limit, nor a stop below its level
\* (clampPendingOrderFillPrice and the second trigger test under the lock).
THEOREM FillsWithinTrigger == Spec => []FilledWithinTrigger
<1>1. IInv => FilledWithinTrigger
  BY DEF IInv
<1> QED BY <1>1, PendingInvariant, PTL

\* What a step does to an order: nothing to a settled one, and it opens a position
\* only of an order that it triggers while the account may open.
LEMMA StepEffect ==
  ASSUME IInv, PendingAssumption, [Next]_vars, NEW id \in Orders
  PROVE  /\ pending[id].st \in Settled => pending'[id].st = pending[id].st
         /\ held'[id] > held[id] => MayOpen
<1> USE DEF Settled
<1>1. pending \in [Orders -> Row] /\ held \in [Orders -> Nat] /\ other \in Nat
  BY DEF IInv, TypeOK, Row
<1>2. ASSUME UNCHANGED <<pending, held>>
      PROVE  /\ pending'[id].st = pending[id].st /\ ~(held'[id] > held[id])
  BY <1>1, <1>2
<1>3. ASSUME NEW i \in Orders, NEW lots \in Lots, NEW trigger \in Prices,
             NEW seen \in Prices, Create(i, lots, trigger, seen)
      PROVE  /\ pending[id].st \in Settled => pending'[id].st = pending[id].st
             /\ ~(held'[id] > held[id])
  <2>1. pending[i].st = "none" /\ held' = held
    BY <1>3 DEF Create
  <2>2. id # i => pending'[id] = pending[id]
    BY <1>1, <1>3 DEF Create
  <2> QED BY <1>1, <2>1, <2>2
<1>4. ASSUME ModifyWrite
      PROVE  /\ pending'[id].st = pending[id].st /\ ~(held'[id] > held[id])
  <2>1. PICK e \in edit : ModifyWrite!(e)
    BY <1>4 DEF ModifyWrite
  <2>2. held' = held
    BY <2>1
  <2>3. CASE pending' = pending
    BY <1>1, <2>2, <2>3
  <2>4. CASE pending' = [pending EXCEPT ![e.id] = [@ EXCEPT !.lots = e.lots,
                           !.trigger = e.trigger, !.version = e.version + 1]]
    BY <1>1, <2>2, <2>4 DEF Row
  <2> QED BY <2>1, <2>3, <2>4
<1>5. ASSUME NEW ids \in SUBSET Orders, Cancel(ids)
      PROVE  /\ pending[id].st \in Settled => pending'[id].st = pending[id].st
             /\ ~(held'[id] > held[id])
  <2>1. held' = held /\ ids \subseteq Active
    BY <1>5 DEF Cancel
  <2>2. pending[id].st \in Settled => id \notin ids
    BY <2>1 DEF Active
  <2>3. id \notin ids => pending'[id] = pending[id]
    BY <1>5 DEF Cancel
  <2> QED BY <1>1, <2>1, <2>2, <2>3
<1>6. ASSUME NEW lots \in Lots, MarketOpen(lots) PROVE pending' = pending /\ MayOpen
  BY <1>6 DEF MarketOpen
<1>7. ASSUME NEW lotsOf \in [Orders -> Nat], NEW lots \in Nat, MarketClose(lotsOf, lots),
             \A i \in Orders : lotsOf[i] <= held[i]
      PROVE  pending' = pending /\ ~(held'[id] > held[id])
  <2>1. PICK verdict \in Verdicts(status, Flat(lotsOf, lots)) : Evaluate(verdict, lotsOf, lots)
    BY <1>7 DEF MarketClose
  <2>2. held' \in [Orders -> Nat] /\ \A i \in Orders : held'[i] <= lotsOf[i]
    BY <1>7, <2>1, EvaluateTypes DEF IInv, TypeOK
  <2>3. held'[id] <= lotsOf[id] /\ lotsOf[id] <= held[id]
    BY <1>7, <2>2
  <2> QED BY <1>1, <1>7, <2>2, <2>3 DEF MarketClose
<1>8. ASSUME Close PROVE pending' = pending /\ ~(held'[id] > held[id])
  <2>1. Lots \subseteq Nat
    BY DEF PendingAssumption
  <2>2. ASSUME NEW i \in Orders, NEW left \in {0} \cup Lots, left < held[i],
               MarketClose([held EXCEPT ![i] = left], other)
        PROVE  pending' = pending /\ ~(held'[id] > held[id])
    <3> DEFINE lotsOf == [held EXCEPT ![i] = left]
    <3>1. lotsOf \in [Orders -> Nat] /\ \A j \in Orders : lotsOf[j] <= held[j]
      BY <1>1, <2>1, <2>2
    <3>2. MarketClose(lotsOf, other)
      BY <2>2
    <3> HIDE DEF lotsOf
    <3> QED BY <1>1, <1>7, <3>1, <3>2
  <2>3. ASSUME NEW left \in {0} \cup Lots, left < other, MarketClose(held, left)
        PROVE  pending' = pending /\ ~(held'[id] > held[id])
    BY <1>1, <1>7, <2>1, <2>3
  <2> QED BY <1>8, <2>2, <2>3 DEF Close
<1>9. ASSUME NEW s \in Scans, NEW row \in scan[s].rows, Trigger(s, row)
      PROVE  /\ pending[id].st \in Settled => pending'[id].st = pending[id].st
             /\ held'[id] > held[id] => MayOpen
  <2>1. row.id \in Orders /\ scan[s].price \in Int
    BY DEF IInv, TypeOK, Rows
  <2>2. CASE UNCHANGED <<status, pending, orders, held, other>>
    BY <1>1, <2>2
  <2>3. CASE /\ StillActive(row.id) /\ MetAsClaimed(row, scan[s].price)
             /\ Claimed(row, scan[s].price)
    <3>1. /\ held' \in [Orders -> Nat] /\ pending[row.id].st = "active"
          /\ id # row.id => pending'[id] = pending[id] /\ held'[id] <= held[id]
          /\ MayOpen \/ held' = held
      BY <2>1, <2>3, ClaimedEffect
    <3> QED BY <1>1, <3>1
  <2>4. CASE StillActive(row.id) /\ Unspecified(row.id)
    <3>1. /\ held' = held /\ pending[row.id].st = "active"
          /\ id # row.id => pending'[id] = pending[id]
      BY <2>1, <2>4, UnspecifiedEffect DEF StillActive, IInv
    <3> QED BY <1>1, <3>1
  <2> QED BY <1>9, <2>2, <2>3, <2>4 DEF Trigger
<1>10. CASE UNCHANGED vars
  BY <1>2, <1>10 DEF vars
<1>11. CASE WorkerEvaluate \/ Jam
  BY <1>2, <1>11 DEF WorkerEvaluate, Jam
<1>12. ASSUME NEW i \in Orders, NEW lots \in Lots, NEW trigger \in Prices,
              NEW seen \in Prices, ModifyRead(i, lots, trigger, seen)
       PROVE  UNCHANGED <<pending, held>>
  BY <1>12 DEF ModifyRead
<1>13. ASSUME NEW s \in Scans, (\E p \in Prices : Tick(p, s)) \/ ScanRead(s) \/ Abort(s)
       PROVE  UNCHANGED <<pending, held>>
  BY <1>13 DEF Tick, ScanRead, Abort
<1>14. CASE Trader
  BY <1>2, <1>3, <1>4, <1>5, <1>6, <1>8, <1>12, <1>14 DEF Trader, Active
<1>15. CASE \E s \in Scans : (\E p \in Prices : Tick(p, s)) \/ ScanStep(s) \/ Abort(s)
  BY <1>2, <1>9, <1>13, <1>15 DEF ScanStep
<1> QED BY <1>10, <1>11, <1>14, <1>15 DEF Next

\* An order that was settled, by its trader or by a tick, stays as it ended.
THEOREM SettledForGood == Spec => SettledStaysSettled
<1>1. PendingAssumption /\ IInv /\ [Next]_vars
        => [\A id \in Orders : pending[id].st \in Settled => pending'[id].st = pending[id].st]_vars
  BY StepEffect
<1> QED BY <1>1, PendingAssumption, PendingInvariant, PTL DEF Spec, SettledStaysSettled

\* No tick opens a position for an account that may not open (openPosition's
\* status check, made under the account's lock).
THEOREM OpensOnlyWhenAllowed == Spec => TriggersOpenOnlyWhenAllowed
<1>1. PendingAssumption /\ IInv /\ [Next]_vars
        => [(\E id \in Orders : held'[id] > held[id]) => status \in {"active", "pass_pending"}]_vars
  BY StepEffect DEF MayOpen
<1> QED BY <1>1, PendingAssumption, PendingInvariant, PTL DEF Spec, TriggersOpenOnlyWhenAllowed-------

-----------------------------------------------------------------------------
(* What MapThenSumSet adds up over a finite set.  The library's induction  *)
(* theorems take an operator, so the induction over finite sets is done as *)
(* the choice of a smallest counterexample.                                *)

\* The element that a fold takes next.
Pick(s) == CHOOSE x \in s : TRUE

\* g adds up f over every subset of T, element by element.
Adds(g, f, T) ==
  g = [s \in SUBSET T |-> IF s = {} THEN 0 ELSE f[Pick(s)] + g[s \ {Pick(s)}]]

Sum(f, T) == MapThenSumSet(LAMBDA x : f[x], T)

\* Of any subsets of a finite set, one contains no other.
LEMMA SmallestSubset ==
  ASSUME NEW S, IsFiniteSet(S), NEW W \in SUBSET (SUBSET S), W # {}
  PROVE  \E T \in W : \A U \in W : U \subseteq T => U = T
<1>1. IsWellFoundedOn(StrictSubsetOrdering(S), SUBSET S)
  BY FS_StrictSubsetOrderingWellFounded, FS_FiniteSubsetsOfFinite
<1>2. PICK T \in W : \A U \in W : <<U, T>> \notin StrictSubsetOrdering(S)
  BY <1>1, WFMin
<1>3. \A U \in W : U \subseteq T => U = T
  BY <1>2 DEF StrictSubsetOrdering
<1> QED BY <1>3

LEMMA PickIsIn == \A s : s # {} => Pick(s) \in s
BY DEF Pick

\* Two functions that add up f agree wherever both are defined.
LEMMA AddsAgree ==
  ASSUME NEW T, IsFiniteSet(T), NEW U \in SUBSET T, NEW f, NEW g, NEW h,
         Adds(g, f, T), Adds(h, f, U)
  PROVE  \A s \in SUBSET U : g[s] = h[s]
<1> DEFINE W == {s \in SUBSET U : g[s] # h[s]}
<1>1. SUFFICES ASSUME W # {} PROVE FALSE
  OBVIOUS
<1>a. W \subseteq SUBSET T /\ \A s \in SUBSET U : s \notin W => g[s] = h[s]
  OBVIOUS
<1>b. \A s \in W : s \in SUBSET U /\ g[s] # h[s]
  OBVIOUS
<1> HIDE DEF W
<1>2. PICK s \in W : \A r \in W : r \subseteq s => r = s
  BY <1>1, <1>a, SmallestSubset
<1>3. g[s] = IF s = {} THEN 0 ELSE f[Pick(s)] + g[s \ {Pick(s)}]
  BY <1>b DEF Adds
<1>4. h[s] = IF s = {} THEN 0 ELSE f[Pick(s)] + h[s \ {Pick(s)}]
  BY <1>b DEF Adds
<1>5. s # {} => Pick(s) \in s
  BY PickIsIn
<1>6. s # {} => g[s \ {Pick(s)}] = h[s \ {Pick(s)}]
  BY <1>2, <1>5, <1>a, <1>b
<1> QED BY <1>3, <1>4, <1>6, <1>b

\* A function that adds up f exists: the partial ones on smaller sets agree.
LEMMA AddsExists ==
  ASSUME NEW S, IsFiniteSet(S), NEW f
  PROVE  \E g : Adds(g, f, S)
<1> DEFINE W == {t \in SUBSET S : \A g : ~Adds(g, f, t)}
<1>1. SUFFICES ASSUME W # {} PROVE FALSE
  OBVIOUS
<1>a. W \subseteq SUBSET S /\ \A t \in SUBSET S : t \notin W => \E g : Adds(g, f, t)
  OBVIOUS
<1>b. \A t \in W : \A g : ~Adds(g, f, t)
  OBVIOUS
<1> HIDE DEF W
<1>2. PICK T \in W : \A U \in W : U \subseteq T => U = T
  BY <1>1, <1>a, SmallestSubset
<1> DEFINE G(t) == CHOOSE g : Adds(g, f, t)
<1>3. \A t \in SUBSET T : t # T => Adds(G(t), f, t)
  BY <1>2, <1>a
<1>4. \A t \in SUBSET S : IsFiniteSet(t)
  BY FS_Subset
<1> DEFINE g == [t \in SUBSET T |->
     IF t = T /\ T # {} THEN f[Pick(T)] + G(T \ {Pick(T)})[T \ {Pick(T)}]
     ELSE IF t = {} THEN 0 ELSE G(t)[t]]
<1>5. ASSUME NEW t \in SUBSET T
      PROVE  g[t] = IF t = {} THEN 0 ELSE f[Pick(t)] + g[t \ {Pick(t)}]
  <2>1. CASE t = {}
    BY <2>1
  <2>2. CASE t # {}
    <3> DEFINE r == t \ {Pick(t)}
    <3>1. r \in SUBSET T /\ r # T /\ r \in SUBSET t
      BY <2>2, PickIsIn
    <3>2. Adds(G(r), f, r)
      BY <1>3, <3>1
    <3>3. g[r] = G(r)[r]
      <4>1. CASE r = {}
        <5>1. G(r)[r] = 0
          BY <3>2, <4>1 DEF Adds
        <5> QED BY <3>1, <4>1, <5>1
      <4>2. CASE r # {}
        BY <3>1, <4>2
      <4> QED BY <4>1, <4>2
    <3>4. CASE t = T
      BY <2>2, <3>3, <3>4
    <3>5. CASE t # T
      <4>1. Adds(G(t), f, t)
        BY <1>3, <3>5
      <4>2. G(t)[t] = f[Pick(t)] + G(t)[r]
        BY <2>2, <4>1 DEF Adds
      <4>3. G(t)[r] = G(r)[r]
        <5>1. IsFiniteSet(t)
          BY <1>a, <1>4
        <5> HIDE DEF G, r
        <5> QED BY <5>1, <3>1, <3>2, <4>1, AddsAgree
      <4>4. g[t] = G(t)[t]
        BY <2>2, <3>5
      <4> QED BY <2>2, <3>3, <4>2, <4>3, <4>4
    <3> QED BY <3>4, <3>5
  <2> QED BY <2>1, <2>2
<1>6. Adds(g, f, T)
  <2> DEFINE h == [s \in SUBSET T |-> IF s = {} THEN 0 ELSE f[Pick(s)] + g[s \ {Pick(s)}]]
  <2>1. g = [t \in SUBSET T |-> g[t]]
    OBVIOUS
  <2> HIDE DEF g
  <2>2. g = h
    BY <1>5, <2>1
  <2> QED BY <2>2 DEF Adds
<1> QED BY <1>b, <1>6

LEMMA SumIs ==
  ASSUME NEW f, NEW T
  PROVE  Sum(f, T) = (CHOOSE g : Adds(g, f, T))[T]
BY DEF Sum, MapThenSumSet, MapThenFoldSet, Adds, Pick

\* The function that the fold of MapThenSumSet is, and any other that adds up f.
LEMMA SumUnfolds ==
  ASSUME NEW S, IsFiniteSet(S), NEW f, NEW g, Adds(g, f, S)
  PROVE  \A T \in SUBSET S : Sum(f, T) = g[T]
<1> SUFFICES ASSUME NEW T \in SUBSET S PROVE Sum(f, T) = g[T]
  OBVIOUS
<1> DEFINE h == CHOOSE c : Adds(c, f, T)
<1>1. IsFiniteSet(T)
  BY FS_Subset
<1>2. Adds(h, f, T)
  BY <1>1, AddsExists
<1>3. h[T] = g[T]
  <2> HIDE DEF h
  <2> QED BY <1>2, AddsAgree
<1> QED BY <1>3, SumIs

LEMMA SumOfNone == \A f : Sum(f, {}) = 0
<1> SUFFICES ASSUME NEW f PROVE Sum(f, {}) = 0
  OBVIOUS
<1>1. IsFiniteSet({})
  BY FS_EmptySet
<1>2. PICK g : Adds(g, f, {})
  BY <1>1, AddsExists
<1>3. g[{}] = 0
  BY <1>2 DEF Adds
<1> QED BY <1>1, <1>2, <1>3, SumUnfolds

LEMMA SumPicks ==
  ASSUME NEW S, IsFiniteSet(S), S # {}, NEW f
  PROVE  Sum(f, S) = f[Pick(S)] + Sum(f, S \ {Pick(S)})
<1>1. PICK g : Adds(g, f, S)
  BY AddsExists
<1>2. g[S] = f[Pick(S)] + g[S \ {Pick(S)}]
  BY <1>1 DEF Adds
<1>3. S \ {Pick(S)} \in SUBSET S /\ S \in SUBSET S
  OBVIOUS
<1>4. g[S] = Sum(f, S) /\ g[S \ {Pick(S)}] = Sum(f, S \ {Pick(S)})
  BY <1>1, <1>3, SumUnfolds
<1> QED BY <1>2, <1>4

\* A sum of integers is an integer.
LEMMA SumIsInt ==
  ASSUME NEW S, IsFiniteSet(S), NEW f, \A x \in S : f[x] \in Int
  PROVE  Sum(f, S) \in Int
<1> DEFINE W == {T \in SUBSET S : Sum(f, T) \notin Int}
<1>1. SUFFICES ASSUME W # {} PROVE FALSE
  OBVIOUS
<1>2. /\ W \subseteq SUBSET S /\ \A T \in W : Sum(f, T) \notin Int
      /\ \A T \in SUBSET S : T \notin W => Sum(f, T) \in Int
  OBVIOUS
<1> HIDE DEF W
<1>3. PICK T \in W : \A U \in W : U \subseteq T => U = T
  BY <1>1, <1>2, SmallestSubset
<1>4. T \in SUBSET S /\ IsFiniteSet(T)
  BY <1>2, FS_Subset
<1>5. T # {}
  BY <1>2, SumOfNone
<1> DEFINE R == T \ {Pick(T)}
<1>6. Pick(T) \in T /\ Sum(f, T) = f[Pick(T)] + Sum(f, R)
  BY <1>4, <1>5, PickIsIn, SumPicks
<1>7. Sum(f, R) \in Int
  BY <1>2, <1>3, <1>4, <1>6
<1> QED BY <1>2, <1>4, <1>6, <1>7

\* Whatever element is taken out, the sum is the element and the rest.
LEMMA SumTakesOut ==
  ASSUME NEW S, IsFiniteSet(S), NEW f, \A x \in S : f[x] \in Int, NEW a \in S
  PROVE  Sum(f, S) = f[a] + Sum(f, S \ {a})
<1> DEFINE Right(T) == \A x \in T : Sum(f, T) = f[x] + Sum(f, T \ {x})
           W == {T \in SUBSET S : ~Right(T)}
<1>1. SUFFICES ASSUME W # {} PROVE FALSE
  <2>1. S \in SUBSET S
    OBVIOUS
  <2>2. S \notin W
    BY <1>1
  <2> QED BY <2>1, <2>2
<1>2. /\ W \subseteq SUBSET S /\ \A T \in W : ~Right(T)
      /\ \A T \in SUBSET S : T \notin W => Right(T)
  OBVIOUS
<1> HIDE DEF W
<1>3. PICK T \in W : \A U \in W : U \subseteq T => U = T
  BY <1>1, <1>2, SmallestSubset
<1>4. T \in SUBSET S /\ IsFiniteSet(T)
  BY <1>2, FS_Subset
<1>5. PICK x \in T : Sum(f, T) # f[x] + Sum(f, T \ {x})
  BY <1>2
<1> DEFINE c == Pick(T)
<1>6. c \in T /\ Sum(f, T) = f[c] + Sum(f, T \ {c})
  BY <1>4, <1>5, PickIsIn, SumPicks
<1>7. x # c
  BY <1>5, <1>6
<1> DEFINE R == (T \ {c}) \ {x}
<1> HIDE DEF c
<1>8. Right(T \ {c}) /\ Right(T \ {x})
  BY <1>2, <1>3, <1>4, <1>5, <1>6
<1>9. Sum(f, T \ {c}) = f[x] + Sum(f, R)
  BY <1>5, <1>7, <1>8
<1>10. (T \ {x}) \ {c} = R
  OBVIOUS
<1>11. Sum(f, T \ {x}) = f[c] + Sum(f, R)
  BY <1>6, <1>7, <1>8, <1>10
<1>12. Sum(f, R) \in Int
  <2>1. R \in SUBSET S /\ IsFiniteSet(R)
    BY <1>4, FS_Subset
  <2> QED BY <2>1, SumIsInt
<1>13. f[x] \in Int /\ f[c] \in Int
  BY <1>4, <1>5, <1>6
<1> QED BY <1>5, <1>6, <1>9, <1>11, <1>12, <1>13

\* A sum of larger terms is not smaller.
LEMMA SumIsMonotone ==
  ASSUME NEW S, IsFiniteSet(S), NEW f, NEW g,
         \A x \in S : f[x] \in Int /\ g[x] \in Int /\ f[x] <= g[x]
  PROVE  Sum(f, S) <= Sum(g, S)
<1> DEFINE W == {T \in SUBSET S : ~(Sum(f, T) <= Sum(g, T))}
<1>1. SUFFICES ASSUME W # {} PROVE FALSE
  OBVIOUS
<1>2. /\ W \subseteq SUBSET S /\ \A T \in W : ~(Sum(f, T) <= Sum(g, T))
      /\ \A T \in SUBSET S : T \notin W => Sum(f, T) <= Sum(g, T)
  OBVIOUS
<1> HIDE DEF W
<1>3. PICK T \in W : \A U \in W : U \subseteq T => U = T
  BY <1>1, <1>2, SmallestSubset
<1>4. T \in SUBSET S /\ IsFiniteSet(T)
  BY <1>2, FS_Subset
<1>5. Sum(f, {}) = 0 /\ Sum(g, {}) = 0
  BY SumOfNone
<1>6. T # {}
  <2>1. ~(Sum(f, T) <= Sum(g, T))
    BY <1>2
  <2>2. T = {} => Sum(f, T) = 0 /\ Sum(g, T) = 0
    BY <1>5
  <2> QED BY <2>1, <2>2
<1> DEFINE c == Pick(T)
           R == T \ {Pick(T)}
<1>7. c \in T /\ Sum(f, T) = f[c] + Sum(f, R) /\ Sum(g, T) = g[c] + Sum(g, R)
  BY <1>4, <1>6, PickIsIn, SumPicks
<1>8. R \in SUBSET S /\ IsFiniteSet(R) /\ Sum(f, R) <= Sum(g, R)
  BY <1>2, <1>3, <1>4, <1>7, FS_Subset
<1>9. Sum(f, R) \in Int /\ Sum(g, R) \in Int
  BY <1>8, SumIsInt
<1> HIDE DEF c, R
<1>10. f[c] \in Int /\ g[c] \in Int /\ f[c] <= g[c]
  BY <1>4, <1>7
<1> QED BY <1>2, <1>7, <1>8, <1>9, <1>10

\* Equal terms have equal sums.
LEMMA SumIsLocal ==
  ASSUME NEW S, IsFiniteSet(S), NEW f, NEW g,
         \A x \in S : f[x] \in Int /\ g[x] = f[x]
  PROVE  Sum(g, S) = Sum(f, S)
<1>1. Sum(f, S) \in Int /\ Sum(g, S) \in Int
  BY SumIsInt
<1>2. \A x \in S : f[x] <= g[x] /\ g[x] <= f[x] /\ g[x] \in Int
  OBVIOUS
<1>3. Sum(f, S) <= Sum(g, S) /\ Sum(g, S) <= Sum(f, S)
  BY <1>2, SumIsMonotone
<1> QED BY <1>1, <1>3

\* Changing one term changes the sum by as much.
LEMMA SumChangesWith ==
  ASSUME NEW S, IsFiniteSet(S), NEW f, NEW g, NEW a \in S, f[a] \in Int, g[a] \in Int,
         \A x \in S \ {a} : f[x] \in Int /\ g[x] = f[x]
  PROVE  Sum(g, S) = Sum(f, S) + g[a] - f[a]
<1>1. Sum(f, S) = f[a] + Sum(f, S \ {a})
  BY SumTakesOut
<1>2. Sum(g, S) = g[a] + Sum(g, S \ {a})
  <2>1. \A x \in S : g[x] \in Int
    OBVIOUS
  <2> QED BY <2>1, SumTakesOut
<1>3. IsFiniteSet(S \ {a})
  BY FS_Subset
<1>4. Sum(f, S \ {a}) \in Int
  BY <1>3, SumIsInt
<1>5. Sum(g, S \ {a}) = Sum(f, S \ {a})
  BY <1>3, SumIsLocal
<1> QED BY <1>1, <1>2, <1>4, <1>5

\* A sum of zeros is zero.
LEMMA SumOfZeros ==
  ASSUME NEW S, IsFiniteSet(S), NEW f, \A x \in S : f[x] = 0
  PROVE  Sum(f, S) = 0
<1> DEFINE W == {T \in SUBSET S : Sum(f, T) # 0}
<1>1. SUFFICES ASSUME W # {} PROVE FALSE
  OBVIOUS
<1>2. /\ W \subseteq SUBSET S /\ \A T \in W : Sum(f, T) # 0
      /\ \A T \in SUBSET S : T \notin W => Sum(f, T) = 0
  OBVIOUS
<1> HIDE DEF W
<1>3. PICK T \in W : \A U \in W : U \subseteq T => U = T
  BY <1>1, <1>2, SmallestSubset
<1>4. T \in SUBSET S /\ IsFiniteSet(T)
  BY <1>2, FS_Subset
<1>5. T # {}
  BY <1>2, SumOfNone
<1> DEFINE R == T \ {Pick(T)}
<1>6. Pick(T) \in T /\ Sum(f, T) = f[Pick(T)] + Sum(f, R)
  BY <1>4, <1>5, PickIsIn, SumPicks
<1>7. Sum(f, R) = 0
  BY <1>2, <1>3, <1>4, <1>6
<1> QED BY <1>2, <1>4, <1>6, <1>7

-----------------------------------------------------------------------------
(* The exposure.                                                           *)

Exposure(lotsOf, lots) == lots + Sum(lotsOf, Orders)

LEMMA OpenLotsAre ==
  /\ OpenLots = Exposure(held, other)
  /\ OpenLots' = Exposure(held', other')
<1>1. OpenLots = Exposure(held, other)
  BY DEF OpenLots, Exposure, Sum
<1>2. OpenLots' = Exposure(held', other')
  <2>1. (OpenLots = Exposure(held, other))'
    BY <1>1, PTL
  <2> QED BY <2>1 DEF Exposure
<1> QED BY <1>1, <1>2

\* Less of every position is less exposure.
LEMMA LessIsLess ==
  ASSUME IsFiniteSet(Orders),
         NEW more \in [Orders -> Nat], NEW m \in Nat,
         NEW less \in [Orders -> Nat], NEW l \in Nat,
         l <= m, \A id \in Orders : less[id] <= more[id],
         ExposureLimit \in Nat, Exposure(more, m) <= ExposureLimit
  PROVE  Exposure(less, l) <= ExposureLimit
<1>1. /\ \A id \in Orders : less[id] \in Int /\ more[id] \in Int /\ less[id] <= more[id]
      /\ \A id \in Orders : less[id] \in Int
      /\ \A id \in Orders : more[id] \in Int
  OBVIOUS
<1>2. Sum(less, Orders) <= Sum(more, Orders)
  BY <1>1, SumIsMonotone
<1>3. Sum(less, Orders) \in Int /\ Sum(more, Orders) \in Int
  BY <1>1, SumIsInt
<1> QED BY <1>2, <1>3 DEF Exposure

\* An evaluation never leaves more open than the command did.
LEMMA EvaluatedWithin ==
  ASSUME IInv, PendingAssumption, IsFiniteSet(Orders),
         NEW flat, NEW verdict \in Verdicts(status, flat),
         NEW lotsOf \in [Orders -> Nat], NEW lots \in Nat,
         Exposure(lotsOf, lots) <= ExposureLimit, Evaluate(verdict, lotsOf, lots)
  PROVE  ExposureStaysWithinLimit'
<1>1. /\ held' \in [Orders -> Nat] /\ other' \in Nat
      /\ \A id \in Orders : held'[id] <= lotsOf[id]
  BY EvaluateTypes DEF IInv, TypeOK
<1>2. other' <= lots
  BY DEF Evaluate
<1>3. Exposure(held', other') <= ExposureLimit
  BY <1>1, <1>2, LessIsLess DEF PendingAssumption
<1> QED BY <1>3, OpenLotsAre DEF ExposureStaysWithinLimit

\* A fill adds the lots of an order that had no position.
LEMMA ClaimedWithin ==
  ASSUME IInv, PendingAssumption, IsFiniteSet(Orders), ExposureStaysWithinLimit,
         NEW row, row.id \in Orders, NEW p \in Int,
         StillActive(row.id), Claimed(row, p)
  PROVE  ExposureStaysWithinLimit'
<1> DEFINE id == row.id
<1>1. PICK gated \in BOOLEAN : Claimed(row, p)!(gated)
  BY DEF Claimed
<1>2. id \in Orders /\ held \in [Orders -> Nat] /\ other \in Nat /\ pending[id].lots \in Nat
  BY DEF IInv, TypeOK
<1>3. held[id] = 0
  BY <1>2 DEF StillActive, IInv, SettledWithItsOrder
<1>4. CASE UNCHANGED <<held, other>>
  BY <1>4, OpenLotsAre DEF ExposureStaysWithinLimit
<1>5. CASE ~UNCHANGED <<held, other>>
  <2> DEFINE filled == [held EXCEPT ![id] = pending[id].lots]
  <2>1. PICK verdict \in Verdicts(status, FALSE) : Evaluate(verdict, filled, other)
    BY <1>1, <1>5
  <2>2. WithinLimit(pending[id].lots)
    BY <1>1, <1>5
  <2>3. filled \in [Orders -> Nat] /\ filled[id] = pending[id].lots
          /\ \A x \in Orders \ {id} : held[x] \in Int /\ filled[x] = held[x]
    BY <1>2
  <2> HIDE DEF id, filled
  <2>4. Sum(filled, Orders) = Sum(held, Orders) + filled[id] - held[id]
    BY <1>2, <2>3, SumChangesWith
  <2>5. Sum(held, Orders) \in Int
    <3>1. \A x \in Orders : held[x] \in Int
      BY <1>2
    <3> QED BY <3>1, SumIsInt
  <2>6. Exposure(filled, other) <= ExposureLimit
    BY <1>2, <1>3, <2>2, <2>3, <2>4, <2>5, OpenLotsAre DEF WithinLimit, Exposure
  <2> QED BY <1>2, <2>1, <2>3, <2>6, EvaluatedWithin
<1> QED BY <1>4, <1>5

LEMMA MarketWithin ==
  ASSUME IInv, PendingAssumption, IsFiniteSet(Orders), ExposureStaysWithinLimit,
         Close \/ (\E lots \in Lots : MarketOpen(lots))
  PROVE  ExposureStaysWithinLimit'
<1>1. held \in [Orders -> Nat] /\ other \in Nat /\ Lots \subseteq Nat /\ ExposureLimit \in Nat
  BY DEF IInv, TypeOK, PendingAssumption
<1>2. Exposure(held, other) <= ExposureLimit
  BY OpenLotsAre DEF ExposureStaysWithinLimit
<1>3. ASSUME NEW lots \in Lots, MarketOpen(lots) PROVE ExposureStaysWithinLimit'
  <2>1. PICK verdict \in Verdicts(status, FALSE) : Evaluate(verdict, held, other + lots)
    BY <1>3 DEF MarketOpen
  <2>2. \A x \in Orders : held[x] \in Int
    BY <1>1
  <2>3. Sum(held, Orders) \in Int /\ other + lots \in Nat
    BY <1>1, <2>2, SumIsInt
  <2>4. Exposure(held, other + lots) <= ExposureLimit
    BY <1>1, <1>3, <2>3, OpenLotsAre DEF MarketOpen, WithinLimit, Exposure
  <2> QED BY <1>1, <2>1, <2>3, <2>4, EvaluatedWithin
<1>4. ASSUME NEW lotsOf \in [Orders -> Nat], NEW lots \in Nat, MarketClose(lotsOf, lots),
             lots <= other, \A id \in Orders : lotsOf[id] <= held[id]
      PROVE  ExposureStaysWithinLimit'
  <2>1. PICK verdict \in Verdicts(status, Flat(lotsOf, lots)) : Evaluate(verdict, lotsOf, lots)
    BY <1>4 DEF MarketClose
  <2>2. Exposure(lotsOf, lots) <= ExposureLimit
    BY <1>1, <1>2, <1>4, LessIsLess
  <2> QED BY <2>1, <2>2, EvaluatedWithin
<1>5. ASSUME NEW id \in Orders, NEW left \in {0} \cup Lots, left < held[id],
             MarketClose([held EXCEPT ![id] = left], other)
      PROVE  ExposureStaysWithinLimit'
  <2> DEFINE lotsOf == [held EXCEPT ![id] = left]
  <2>1. lotsOf \in [Orders -> Nat] /\ \A i \in Orders : lotsOf[i] <= held[i]
    BY <1>1, <1>5
  <2>2. MarketClose(lotsOf, other) /\ other <= other
    BY <1>1, <1>5
  <2> HIDE DEF lotsOf
  <2> QED BY <1>1, <1>4, <2>1, <2>2
<1>6. ASSUME NEW left \in {0} \cup Lots, left < other, MarketClose(held, left)
      PROVE  ExposureStaysWithinLimit'
  <2>1. left \in Nat /\ left <= other /\ \A i \in Orders : held[i] <= held[i]
    BY <1>1, <1>6
  <2> QED BY <1>1, <1>4, <1>6, <2>1
<1> QED BY <1>3, <1>5, <1>6 DEF Close

LEMMA ExposureKeeps ==
  ASSUME IInv, PendingAssumption, IsFiniteSet(Orders), ExposureStaysWithinLimit, [Next]_vars
  PROVE  ExposureStaysWithinLimit'
<1>1. ASSUME UNCHANGED <<held, other>> PROVE ExposureStaysWithinLimit'
  BY <1>1, OpenLotsAre DEF ExposureStaysWithinLimit
<1>2. CASE UNCHANGED vars
  BY <1>1, <1>2 DEF vars
<1>3. CASE WorkerEvaluate \/ Jam
  BY <1>1, <1>3 DEF WorkerEvaluate, Jam
<1>4. CASE Trader
  <2>1. CASE Close \/ (\E lots \in Lots : MarketOpen(lots))
    BY <2>1, MarketWithin
  <2>2. ASSUME NEW id \in Orders, NEW lots \in Lots, NEW trigger \in Prices, NEW seen \in Prices,
               Create(id, lots, trigger, seen) \/ ModifyRead(id, lots, trigger, seen)
        PROVE  UNCHANGED <<held, other>>
    BY <2>2 DEF Create, ModifyRead
  <2>3. ASSUME NEW ids \in SUBSET Orders, Cancel(ids) PROVE UNCHANGED <<held, other>>
    BY <2>3 DEF Cancel
  <2>4. CASE ModifyWrite
    BY <1>1, <2>4 DEF ModifyWrite
  <2> QED BY <1>1, <1>4, <2>1, <2>2, <2>3, <2>4 DEF Trader, Active
<1>5. CASE \E s \in Scans : (\E p \in Prices : Tick(p, s)) \/ ScanStep(s) \/ Abort(s)
  <2>1. ASSUME NEW s \in Scans, (\E p \in Prices : Tick(p, s)) \/ ScanRead(s) \/ Abort(s)
        PROVE  UNCHANGED <<held, other>>
    BY <2>1 DEF Tick, ScanRead, Abort
  <2>2. ASSUME NEW s \in Scans, NEW row \in scan[s].rows, Trigger(s, row)
        PROVE  ExposureStaysWithinLimit'
    <3>1. row.id \in Orders /\ scan[s].price \in Int
      BY DEF IInv, TypeOK, Rows
    <3>2. CASE UNCHANGED <<status, pending, orders, held, other>>
      BY <1>1, <3>2
    <3>3. CASE StillActive(row.id) /\ Claimed(row, scan[s].price)
      BY <3>1, <3>3, ClaimedWithin
    <3>4. CASE Unspecified(row.id)
      BY <1>1, <3>4 DEF Unspecified
    <3> QED BY <2>2, <3>2, <3>3, <3>4 DEF Trigger
  <2> QED BY <1>1, <1>5, <2>1, <2>2 DEF ScanStep
<1> QED BY <1>2, <1>3, <1>4, <1>5 DEF Next

\* TRADING-ORDER-003 for any number of orders: a creation counts no other pending
\* order, but the check that openPosition makes again at the fill, under the
\* account's lock, keeps what they open together within the limit.
THEOREM ExposureIsLimited ==
  ASSUME IsFiniteSet(Orders)
  PROVE  Spec => []ExposureStaysWithinLimit
<1>1. PendingAssumption /\ Init => ExposureStaysWithinLimit
  <2> SUFFICES ASSUME PendingAssumption, Init PROVE ExposureStaysWithinLimit
    OBVIOUS
  <2>1. \A id \in Orders : held[id] = 0
    BY DEF Init
  <2>2. Sum(held, Orders) = 0
    BY <2>1, SumOfZeros
  <2> QED BY <2>2, OpenLotsAre DEF Init, Exposure, ExposureStaysWithinLimit, PendingAssumption
<1>2. PendingAssumption /\ IInv /\ ExposureStaysWithinLimit /\ [Next]_vars
        => ExposureStaysWithinLimit'
  BY ExposureKeeps
<1> QED BY <1>1, <1>2, PendingAssumption, PendingInvariant, PTL DEF Spec
=============================================================================

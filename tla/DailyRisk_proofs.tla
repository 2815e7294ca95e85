-------------------------- MODULE DailyRisk_proofs --------------------------
(***************************************************************************)
(* Theorems about DailyRisk, for every policy, every number of days and    *)
(* every delay of the commands' clocks.                                    *)
(*                                                                         *)
(* The lemmas follow a book through the functions a transaction is made    *)
(* of: each keeps it well typed, keeps its floors within bounds and leaves *)
(* the finalized rows as they are.                                         *)
(***************************************************************************)
EXTENDS DailyRisk, TLAPS

-----------------------------------------------------------------------------
(* The rules.                                                              *)

\* NextMaximumLossFloor: from a floor within bounds, whatever the highest end
\* of day balance, it gives a floor within bounds that is no lower.
LEMMA NextFloorBounded ==
  ASSUME NEW floor \in InitialMaximumLossFloor..Nominal, NEW highest \in Int
  PROVE  /\ NextMaximumLossFloor(floor, highest) \in InitialMaximumLossFloor..Nominal
         /\ NextMaximumLossFloor(floor, highest) >= floor
  BY RulesAssumption, SMT
     DEF NextMaximumLossFloor, InitialMaximumLossFloor, Smaller, Larger

\* The initial floor is within the bounds it sets.
LEMMA InitialFloorBounded == InitialMaximumLossFloor \in InitialMaximumLossFloor..Nominal
  BY RulesAssumption, SMT DEF InitialMaximumLossFloor

\* NextMaximumLossFloor of two integers is an integer.
LEMMA NextFloorInt ==
  ASSUME NEW floor \in Int, NEW highest \in Int
  PROVE  NextMaximumLossFloor(floor, highest) \in Int
  BY RulesAssumption, SMT DEF NextMaximumLossFloor, Smaller, Larger

\* evaluateAccountRisk recommends a status, given one.
LEMMA RecommendsAStatus ==
  ASSUME NEW in, in.status \in Statuses
  PROVE  RecommendedStatus(in) \in Statuses
  BY DEF RecommendedStatus, Statuses

-----------------------------------------------------------------------------
(* The book.                                                               *)

\* The days are integers, the last one is a day.
LEMMA DaysType == Days \subseteq Int /\ MaxDay \in Days
  BY DayAssumption, SMT DEF Days

\* The most recent row with a status is a day's row and has that status.
LEMMA LatestIsThat ==
  ASSUME NEW b, NEW st, HasLatest(b, st)
  PROVE  Latest(b, st) \in Days /\ b.rows[Latest(b, st)].st = st
  BY DEF HasLatest, Latest, IsLatest, DaysThat

\* The balance of an account is an integer.
LEMMA BalanceType ==
  ASSUME NEW b \in Books
  PROVE  Balance(b) \in Int
  BY DaysType DEF Balance, Books

\* Posting on a day writes no row and no balance of an earlier day.
LEMMA PostKeeps ==
  ASSUME NEW b \in Books, NEW day \in Days, NEW amount \in Int
  PROVE  /\ Post(b, day, amount) \in Books
         /\ Post(b, day, amount).rows = b.rows
         /\ Post(b, day, amount).status = b.status
         /\ \A d \in Days : d < day => Post(b, day, amount).bal[d] = b.bal[d]
  <1> DEFINE bal == [d \in Days |-> IF d >= day THEN b.bal[d] + amount ELSE b.bal[d]]
  <1>1. bal \in [Days -> Int]
    BY DaysType, SMT DEF Books
  <1>2. Post(b, day, amount) = [status |-> b.status, bal |-> bal, rows |-> b.rows]
    BY DEF Post, Books
  <1>3. \A d \in Days : d < day => bal[d] = b.bal[d]
    BY DaysType, SMT
  <1> HIDE DEF bal
  <1> QED BY <1>1, <1>2, <1>3 DEF Books

\* The floor a new row starts on is an integer, and within bounds where those
\* of the finalized rows are.
LEMMA PreviousFloorType ==
  ASSUME NEW b \in Books
  PROVE  /\ PreviousFloor(b) \in Int
         /\ FloorsBounded(b) => PreviousFloor(b) \in InitialMaximumLossFloor..Nominal
  <1>1. CASE HasLatest(b, "finalized")
    BY <1>1, LatestIsThat DEF PreviousFloor, FloorsBounded, Books, Rows
  <1>2. CASE ~HasLatest(b, "finalized")
    BY <1>2, InitialFloorBounded DEF PreviousFloor
  <1> QED BY <1>1, <1>2

\* The highest end of day balance so far is an integer.
LEMMA PreviousHighestType ==
  ASSUME NEW b \in Books
  PROVE  PreviousHighest(b) \in Int
  BY LatestIsThat, RulesAssumption DEF PreviousHighest, Books, Rows

\* A new row is an open row that starts on the previous floor.
LEMMA NewRowType ==
  ASSUME NEW b \in Books, NEW balance \in Int, NEW equity \in Int
  PROVE  /\ NewRow(b, balance, equity) \in Rows
         /\ NewRow(b, balance, equity).st = "open"
         /\ NewRow(b, balance, equity).floorBefore = PreviousFloor(b)
  <1> DEFINE first == ~HasLatest(b, "finalized")
             sod == IF first THEN Nominal ELSE balance
             ref == IF first THEN Nominal ELSE DailyReference(sod, equity)
  <1>1. sod \in Int /\ ref \in Int
    BY RulesAssumption, SMT DEF DailyReference, Larger
  <1>2. NewRow(b, balance, equity) =
          [st |-> "open", sod |-> sod, reference |-> ref, floorBefore |-> PreviousFloor(b),
           eod |-> 0, floorAfter |-> 0, highest |-> 0]
    BY DEF NewRow
  <1> HIDE DEF sod, ref
  <1> QED BY <1>1, <1>2, PreviousFloorType DEF Rows

\* What every function of a transaction keeps: types, bounds, finalized rows.
Follows(b, c) ==
  /\ c \in Books
  /\ c.bal = b.bal
  /\ FloorsBounded(b) => FloorsBounded(c)
  /\ \A d \in Days : b.rows[d].st = "finalized" => c.rows[d] = b.rows[d]

\* ensureTodaySnapshot writes at most one row, that nothing wrote before.
LEMMA EnsureFollows ==
  ASSUME NEW b \in Books, NEW day \in Days, NEW balance \in Int, NEW equity \in Int
  PROVE  /\ Follows(b, EnsureTodaySnapshot(b, day, balance, equity))
         /\ EnsureTodaySnapshot(b, day, balance, equity).status = b.status
         /\ \A d \in Days :
              EnsureTodaySnapshot(b, day, balance, equity).rows[d].st = "finalized"
                => b.rows[d].st = "finalized"
  <1> DEFINE c == EnsureTodaySnapshot(b, day, balance, equity)
             row == NewRow(b, balance, equity)
  <1>1. CASE b.rows[day].st # "none"
    <2>1. c = b
      BY <1>1 DEF EnsureTodaySnapshot
    <2> QED BY <2>1 DEF Follows
  <1>2. CASE b.rows[day].st = "none"
    <2>1. c = [status |-> b.status, bal |-> b.bal, rows |-> [b.rows EXCEPT ![day] = row]]
      BY <1>2 DEF EnsureTodaySnapshot, Books
    <2>2. row \in Rows /\ row.st = "open" /\ row.floorBefore = PreviousFloor(b)
      BY NewRowType
    <2> HIDE DEF row, c
    <2>3. c \in Books
      BY <2>1, <2>2 DEF Books
    <2>4. \A d \in Days : c.rows[d] = IF d = day THEN row ELSE b.rows[d]
      BY <2>1 DEF Books
    <2>5. FloorsBounded(b) => FloorsBounded(c)
      BY <2>2, <2>4, PreviousFloorType DEF FloorsBounded
    <2>6. \A d \in Days : b.rows[d].st = "finalized" => c.rows[d] = b.rows[d]
      BY <1>2, <2>4
    <2>7. \A d \in Days : c.rows[d].st = "finalized" => b.rows[d].st = "finalized"
      BY <2>2, <2>4
    <2>8. c.bal = b.bal /\ c.status = b.status
      BY <2>1
    <2> QED BY <2>3, <2>5, <2>6, <2>7, <2>8 DEF Follows, c
  <1> QED BY <1>1, <1>2

\* A finalization writes the most recent open row, whose day has elapsed.
LEMMA FinalizeFollows ==
  ASSUME NEW b \in Books, NEW day \in Days
  PROVE  /\ Follows(b, FinalizeElapsedDay(b, day))
         /\ \A d \in Days :
              FinalizeElapsedDay(b, day).rows[d].st = "finalized"
                => \/ b.rows[d].st = "finalized"
                   \/ d < day /\ FinalizeElapsedDay(b, day).rows[d].eod = b.bal[d]
  <1> DEFINE c == FinalizeElapsedDay(b, day)
  <1>1. CASE ~BoundaryElapsed(b, day)
    <2>1. c = b
      BY <1>1 DEF FinalizeElapsedDay
    <2> QED BY <2>1 DEF Follows
  <1>2. CASE BoundaryElapsed(b, day)
    <2> DEFINE e == Latest(b, "open")
               row == FinalizedRow(b, e)
               highest == Larger(PreviousHighest(b), b.bal[e])
               status == IF b.status = "soft_locked" THEN "active" ELSE b.status
    <2>1. e \in Days /\ b.rows[e].st = "open" /\ e < day
      BY <1>2, LatestIsThat DEF BoundaryElapsed
    <2>2. c = [status |-> status, bal |-> b.bal, rows |-> [b.rows EXCEPT ![e] = row]]
      BY <1>2 DEF FinalizeElapsedDay, Books
    <2>3. highest \in Int
      BY <2>1, PreviousHighestType, SMT DEF Larger, Books
    <2>4. /\ row \in Rows
          /\ row.st = "finalized" /\ row.eod = b.bal[e]
          /\ row.floorBefore = b.rows[e].floorBefore
          /\ row.floorAfter = NextMaximumLossFloor(b.rows[e].floorBefore, highest)
      <3>1. b.rows[e] \in Rows /\ b.rows[e].floorBefore \in Int /\ b.bal[e] \in Int
        BY <2>1 DEF Books, Rows
      <3>2. NextMaximumLossFloor(b.rows[e].floorBefore, highest) \in Int
        BY <2>3, <3>1, NextFloorInt
      <3>3. row = [b.rows[e] EXCEPT !.st = "finalized", !.eod = b.bal[e], !.highest = highest,
                     !.floorAfter = NextMaximumLossFloor(b.rows[e].floorBefore, highest)]
        BY DEF FinalizedRow
      <3> HIDE DEF row, highest, e
      <3> QED BY <2>3, <3>1, <3>2, <3>3 DEF Rows
    <2>5. status \in Statuses
      BY DEF Books, Statuses
    <2> HIDE DEF row, highest, e, status, c
    <2>6. c \in Books
      BY <2>1, <2>2, <2>4, <2>5 DEF Books
    <2>7. \A d \in Days : c.rows[d] = IF d = e THEN row ELSE b.rows[d]
      BY <2>1, <2>2 DEF Books
    <2>8. FloorsBounded(b) => FloorsBounded(c)
      BY <2>1, <2>3, <2>4, <2>7, NextFloorBounded DEF FloorsBounded
    <2>9. \A d \in Days : b.rows[d].st = "finalized" => c.rows[d] = b.rows[d]
      BY <2>1, <2>7
    <2>10. \A d \in Days : c.rows[d].st = "finalized"
             => b.rows[d].st = "finalized" \/ (d < day /\ c.rows[d].eod = b.bal[d])
      BY <2>1, <2>4, <2>7
    <2>11. c.bal = b.bal
      BY <2>2
    <2> QED BY <2>6, <2>8, <2>9, <2>10, <2>11 DEF Follows, c
  <1> QED BY <1>1, <1>2

\* Two writes one after the other are a write of the same kind.
LEMMA FollowsTransitive ==
  ASSUME NEW b, NEW c, NEW e, Follows(b, c), Follows(c, e)
  PROVE  Follows(b, e)
  BY DEF Follows

\* The rows finalized since b: a day before `day`, on the ledger's balance.
OnTheLedger(b, c, day) ==
  \A d \in Days : c.rows[d].st = "finalized"
    => b.rows[d].st = "finalized" \/ (d < day /\ c.rows[d].eod = b.bal[d])

\* A boundary caught up to a day finalizes a day before it, on its ledger.
LEMMA CatchUpFollows ==
  ASSUME NEW b \in Books, NEW day \in Days, NEW balance \in Int, NEW equity \in Int
  PROVE  LET c == EnsureTodaySnapshot(FinalizeElapsedDay(b, day), day, balance, equity)
         IN  Follows(b, c) /\ OnTheLedger(b, c, day)
  <1> DEFINE f == FinalizeElapsedDay(b, day)
             c == EnsureTodaySnapshot(f, day, balance, equity)
  <1>1. Follows(b, f)
    BY FinalizeFollows
  <1>2. OnTheLedger(b, f, day)
    BY FinalizeFollows DEF OnTheLedger
  <1>3. f \in Books
    BY <1>1 DEF Follows
  <1> HIDE DEF f
  <1>4. Follows(f, c) /\ \A d \in Days : c.rows[d].st = "finalized" => f.rows[d].st = "finalized"
    BY <1>3, EnsureFollows
  <1> HIDE DEF c
  <1>5. Follows(b, c)
    BY <1>1, <1>4, FollowsTransitive
  <1>6. \A d \in Days : f.rows[d].st = "finalized" => c.rows[d] = f.rows[d]
    BY <1>4 DEF Follows
  <1>7. OnTheLedger(b, c, day)
    BY <1>2, <1>4, <1>6 DEF OnTheLedger
  <1> QED BY <1>5, <1>7 DEF c, f

\* The worker's first transaction is such a catch-up.
LEMMA WorkerFollows ==
  ASSUME NEW b \in Books, NEW day \in Days
  PROVE  /\ Follows(b, FinalizeDailyBoundary(b, day))
         /\ OnTheLedger(b, FinalizeDailyBoundary(b, day), day)
  <1> DEFINE opening == IF BoundaryElapsed(b, day) THEN b.bal[Latest(b, "open")] ELSE Balance(b)
  <1>1. opening \in Int
    BY BalanceType, LatestIsThat DEF BoundaryElapsed, Books
  <1>2. FinalizeDailyBoundary(b, day) =
          EnsureTodaySnapshot(FinalizeElapsedDay(b, day), day, opening, opening)
    BY DEF FinalizeDailyBoundary
  <1> HIDE DEF opening
  <1> QED BY <1>1, <1>2, CatchUpFollows

\* So is an evaluation, which also writes a status the account may have.
LEMMA EvaluationFollows ==
  ASSUME NEW b \in Books, NEW day \in Days, NEW u \in Int, NEW holding, NEW trigger
  PROVE  /\ Follows(b, Evaluated(b, day, u, holding, trigger).book)
         /\ OnTheLedger(b, Evaluated(b, day, u, holding, trigger).book, day)
  <1> DEFINE c == CaughtUp(b, day, u)
             to == RecommendedStatus(EngineInput(c, day, u, holding))
             status == IF trigger = "daily_finalization" /\ to = "pass_pending"
                       THEN "passed" ELSE to
             e == Evaluated(b, day, u, holding, trigger).book
  <1>1. Balance(b) \in Int /\ Balance(b) + u \in Int
    BY BalanceType
  <1>2. Follows(b, c) /\ OnTheLedger(b, c, day)
    BY <1>1, CatchUpFollows DEF CaughtUp
  <1>3. c \in Books
    BY <1>2 DEF Follows
  <1> HIDE DEF c
  <1>4. EngineInput(c, day, u, holding).status \in Statuses
    BY <1>3 DEF EngineInput, Books
  <1>5. to \in Statuses
    BY <1>4, RecommendsAStatus
  <1> HIDE DEF to
  <1>6. status \in Statuses
    BY <1>5 DEF Statuses
  <1>7. e = [c EXCEPT !.status = status]
    BY DEF Evaluated, c, to
  <1> HIDE DEF status, e
  <1>8. e \in Books /\ e.bal = c.bal /\ e.rows = c.rows
    BY <1>3, <1>6, <1>7 DEF Books
  <1>9. Follows(b, e)
    BY <1>2, <1>8 DEF Follows, FloorsBounded
  <1>10. OnTheLedger(b, e, day)
    BY <1>2, <1>8 DEF OnTheLedger
  <1> QED BY <1>9, <1>10 DEF e

-----------------------------------------------------------------------------
(* Steps.                                                                  *)

\* What a transaction of day `day` does to the account.
Moves(day) ==
  /\ book' \in Books
  /\ FloorsBounded(book) => FloorsBounded(book')
  /\ \A d \in Days : book.rows[d].st = "finalized" => book'.rows[d] = book.rows[d]
  /\ OnTheLedger(book, book', day)
  /\ \A d \in Days : d < day => book'.bal[d] = book.bal[d]

\* The tail of a command: two postings on its day around an evaluation.
LEMMA BookMoves ==
  ASSUME TypeOK, NEW day \in Days, NEW amount \in Int, NEW u \in Int,
         NEW holding \in BOOLEAN, Book(day, amount, u, holding)
  PROVE  Moves(day) /\ open' \in BOOLEAN /\ UNCHANGED <<today, worker, crashes>>
  <1> DEFINE posted == Post(book, day, amount)
             after == Evaluated(posted, day, u, holding, "trade_order").book
  <1>1. /\ posted \in Books /\ posted.rows = book.rows
        /\ \A d \in Days : d < day => posted.bal[d] = book.bal[d]
    BY PostKeeps DEF TypeOK
  <1>2. /\ \/ book' = after
           \/ \E forced \in {0} \cup Amounts : book' = Post(after, day, forced)
        /\ open' \in BOOLEAN
        /\ UNCHANGED <<today, worker, crashes>>
    BY DEF Book
  <1> HIDE DEF posted
  <1>3. Follows(posted, after) /\ OnTheLedger(posted, after, day)
    BY <1>1, EvaluationFollows
  <1> HIDE DEF after
  <1>4. after \in Books /\ after.bal = posted.bal
    BY <1>3 DEF Follows
  <1>5. /\ book' \in Books /\ book'.rows = after.rows
        /\ \A d \in Days : d < day => book'.bal[d] = after.bal[d]
    <2>1. CASE book' = after
      BY <2>1, <1>4
    <2>2. ASSUME NEW forced \in {0} \cup Amounts, book' = Post(after, day, forced)
          PROVE  <1>5
      <3>1. forced \in Int
        BY DailyRiskAssumption
      <3> QED BY <2>2, <3>1, <1>4, PostKeeps
    <2> QED BY <1>2, <2>1, <2>2
  <1>6. FloorsBounded(book) => FloorsBounded(book')
    BY <1>1, <1>3, <1>5 DEF FloorsBounded, Follows
  <1>7. \A d \in Days : book.rows[d].st = "finalized" => book'.rows[d] = book.rows[d]
    BY <1>1, <1>3, <1>5 DEF Follows
  <1>8. OnTheLedger(book, book', day)
    BY <1>1, <1>3, <1>5 DEF OnTheLedger
  <1>9. \A d \in Days : d < day => book'.bal[d] = book.bal[d]
    BY <1>1, <1>4, <1>5
  <1> QED BY <1>2, <1>5, <1>6, <1>7, <1>8, <1>9 DEF Moves

\* Every trading command is such a transaction, on a day of the clocks.
LEMMA TradeMoves ==
  ASSUME TypeOK, Trade
  PROVE  /\ \E day \in Clocks : Moves(day)
         /\ open' \in BOOLEAN /\ UNCHANGED <<today, worker, crashes>>
  <1>1. PICK day \in Clocks, amount \in Int, u \in Int, holding \in BOOLEAN :
          Book(day, amount, u, holding)
    BY DailyRiskAssumption DEF Trade, TradeOn, OpenPosition, ClosePosition, ModifyPositionRisk
  <1> QED BY <1>1, BookMoves DEF Clocks

\* So is every step of the worker, on today.
LEMMA WorkerMoves ==
  ASSUME TypeOK, WorkerFinalize \/ WorkerEvaluate
  PROVE  Moves(today)
  <1>1. CASE WorkerFinalize
    <2>1. book' = FinalizeDailyBoundary(book, today)
      BY <1>1 DEF WorkerFinalize
    <2> QED BY <2>1, WorkerFollows DEF TypeOK, Moves, Follows
  <1>2. CASE WorkerEvaluate
    <2> DEFINE risk == Evaluated(book, today, 0, open, "daily_finalization")
    <2>1. book' = risk.book \/ book' = book
      BY <1>2 DEF WorkerEvaluate
    <2>2. Follows(book, risk.book) /\ OnTheLedger(book, risk.book, today)
      BY EvaluationFollows DEF TypeOK
    <2> HIDE DEF risk
    <2> QED BY <2>1, <2>2 DEF TypeOK, Moves, Follows, OnTheLedger
  <1> QED BY <1>1, <1>2

\* Every step is a transaction of some day of the clocks, or leaves the book alone.
LEMMA StepMoves ==
  ASSUME TypeOK, [Next]_vars
  PROVE  UNCHANGED book \/ (\E day \in Clocks : Moves(day) /\ UNCHANGED today)
  <1>1. CASE Trade
    BY <1>1, TradeMoves
  <1>2. CASE WorkerFinalize \/ WorkerEvaluate
    <2>1. today \in Clocks /\ UNCHANGED today
      BY <1>2, DaysType, DailyRiskAssumption, SMT
         DEF Clocks, TypeOK, WorkerFinalize, WorkerEvaluate
    <2> QED BY <1>2, <2>1, WorkerMoves
  <1>3. CASE WorkerStart \/ WorkerCrash \/ Midnight \/ UNCHANGED vars
    BY <1>3 DEF WorkerStart, WorkerCrash, Midnight, vars
  <1> QED BY <1>1, <1>2, <1>3 DEF Next, Worker

-----------------------------------------------------------------------------
(* Theorems.                                                               *)

\* Type correctness: whatever the commands and the worker do, the status is one
\* the database knows, the ledger and the snapshots hold numbers.
THEOREM TypeInvariant == Spec => []TypeOK
  <1>1. Init => TypeOK
    <2>1. NoRow \in Rows /\ "active" \in Statuses
      BY DEF NoRow, Rows, Statuses
    <2>2. Activated \in Books
      BY <2>1, RulesAssumption DEF Activated, Books
    <2>3. 0 \in Days
      BY DayAssumption, SMT DEF Days
    <2>4. Init => crashes \in Nat
      BY SMT DEF Init
    <2> QED BY <2>2, <2>3, <2>4, Zenon DEF Init, TypeOK
  <1>2. TypeOK /\ [Next]_vars => TypeOK'
    <2> SUFFICES ASSUME TypeOK, [Next]_vars PROVE TypeOK'
      OBVIOUS
    <2>1. CASE Trade
      BY <2>1, TradeMoves DEF TypeOK, Moves
    <2>2. CASE WorkerStart
      BY <2>2 DEF TypeOK, WorkerStart
    <2>3. CASE WorkerFinalize
      BY <2>3, WorkerMoves DEF TypeOK, WorkerFinalize, Moves
    <2>4. CASE WorkerEvaluate
      BY <2>4, WorkerMoves DEF TypeOK, WorkerEvaluate, Moves
    <2>5. CASE WorkerCrash
      BY <2>5 DEF TypeOK, WorkerCrash
    <2>6. CASE Midnight
      BY <2>6, DayAssumption, SMT DEF TypeOK, Midnight, Days
    <2>7. CASE UNCHANGED vars
      BY <2>7 DEF TypeOK, vars
    <2> QED BY <2>1, <2>2, <2>3, <2>4, <2>5, <2>6, <2>7 DEF Next, Worker
  <1> QED BY <1>1, <1>2, PTL DEF Spec

\* ONE-021: at no time, and however late the clocks of the commands are, is
\* there a row whose Maximum Loss floor lies below the initial one or above the
\* nominal balance.
THEOREM FloorsStayBounded == Spec => []FloorsAreBounded
  <1>1. Init => FloorsAreBounded
    BY DEF Init, Activated, NoRow, FloorsAreBounded, FloorsBounded
  <1>2. TypeOK /\ FloorsAreBounded /\ [Next]_vars => FloorsAreBounded'
    BY StepMoves DEF FloorsAreBounded, Moves
  <1> QED BY <1>1, <1>2, TypeInvariant, PTL DEF Spec

\* A finalized row is final: no command, however late its clock, and no run of
\* the worker writes it again.
THEOREM FinalizedStaysFrozen == Spec => FinalizedIsFrozen
  <1>1. TypeOK /\ [Next]_vars =>
          [\A d \in Days : book.rows[d].st = "finalized" => book'.rows[d] = book.rows[d]]_vars
    BY StepMoves DEF Moves
  <1> QED BY <1>1, TypeInvariant, PTL DEF Spec, FinalizedIsFrozen

-----------------------------------------------------------------------------
(* The days in order.  From here on no command is overtaken by a step of a  *)
(* later day: midnight may pass while it waits, for any Lag, but it gets    *)
(* the lock before the account has a row of a day after its own.            *)

\* h is the highest of the nominal balance and the end of day balances of days.
IsTop(h, b, days) ==
  LET eods == {Nominal} \cup {b.rows[d].eod : d \in days}
  IN  h \in eods /\ \A x \in eods : h >= x
Trailing(h) == Smaller(Nominal, h - MaximumLoss)
Until(b, d) == {e \in DaysThat(b, "finalized") : e <= d}
Before(b, d) == {e \in DaysThat(b, "finalized") : e < d}

\* Finalized days have elapsed; the open row, if there is one, is the last; it
\* is missing only in an account that nothing has touched.
RowsInOrder(b, day) ==
  /\ \A d \in DaysThat(b, "finalized") : d < day
  /\ \A d \in DaysThat(b, "open") : d <= day /\ \A e \in Days : b.rows[e].st # "none" => e <= d
  /\ DaysThat(b, "open") = {} => DaysThat(b, "finalized") = {}
  /\ DaysThat(b, "finalized") = {} \/ HasLatest(b, "finalized")

\* What a row carries is the highest balance of the days up to it, and the
\* floors that trail it.
RowsTrail(b) ==
  /\ \A d \in DaysThat(b, "finalized") :
       /\ IsTop(b.rows[d].highest, b, Until(b, d))
       /\ b.rows[d].floorAfter = Trailing(b.rows[d].highest)
  /\ \A d \in Days : b.rows[d].st # "none" =>
       \E h \in Int : IsTop(h, b, Before(b, d)) /\ b.rows[d].floorBefore = Trailing(h)

\* Nothing is booked later than day, nor later than an open row.
LevelFrom(b, day) == \A d \in Days : d >= day => b.bal[d] = Balance(b)
Rests(b) == \A d \in DaysThat(b, "open") : LevelFrom(b, d)
Untouched(b) == DaysThat(b, "open") = {} => \A d \in Days : b.bal[d] = Nominal

Chain(b, day) == RowsInOrder(b, day) /\ RowsTrail(b) /\ LevelFrom(b, day)

\* The first row of an account, and a day that takes over from an open row e.
Starts(b, c, day) ==
  /\ \A d \in Days : b.rows[d].st = "none"
  /\ c.rows[day].st = "open"
  /\ c.rows[day].floorBefore = InitialMaximumLossFloor
  /\ c.rows[day].reference = Nominal
  /\ \A d \in Days \ {day} : c.rows[d] = b.rows[d]
  /\ c.status = b.status
Highest(b, e) == Larger(PreviousHighest(b), b.bal[e])
TakesOver(b, c, day, e, reference) ==
  /\ b.rows[e].st = "open" /\ e < day /\ b.rows[day].st = "none"
  /\ c.rows[e].st = "finalized" /\ c.rows[e].eod = b.bal[e]
  /\ c.rows[e].highest = Highest(b, e)
  /\ c.rows[e].floorBefore = b.rows[e].floorBefore
  /\ c.rows[e].floorAfter = NextMaximumLossFloor(b.rows[e].floorBefore, Highest(b, e))
  /\ c.rows[day].st = "open" /\ c.rows[day].floorBefore = c.rows[e].floorAfter
  /\ c.rows[day].reference = reference
  /\ \A d \in Days \ {e, day} : c.rows[d] = b.rows[d]
  /\ c.status = IF b.status = "soft_locked" THEN "active" ELSE b.status

\* Catching up to a day changes nothing, starts the first row or lets the day
\* take over from the one open row.
CatchesUp(b, c, day, reference) ==
  /\ c \in Books /\ c.bal = b.bal
  /\ \/ c = b /\ b.rows[day].st = "open"
     \/ Starts(b, c, day)
     \/ \E e \in Days : TakesOver(b, c, day, e, reference)

\* The only open row is the latest one.
LEMMA OpenIsLatest ==
  ASSUME NEW b \in Books, NEW day \in Days, RowsInOrder(b, day), NEW e \in DaysThat(b, "open")
  PROVE  HasLatest(b, "open") /\ Latest(b, "open") = e
  <1>1. IsLatest(b, "open", e) /\ e \in Days
    BY DaysType DEF RowsInOrder, IsLatest, DaysThat
  <1>2. \A d \in Days : IsLatest(b, "open", d) => d = e
    BY <1>1, DaysType, SMT DEF IsLatest
  <1> QED BY <1>1, <1>2 DEF HasLatest, Latest

\* The latest finalized row is the one there is.
LEMMA LatestIs ==
  ASSUME NEW b, NEW st, NEW e \in Days, IsLatest(b, st, e)
  PROVE  HasLatest(b, st) /\ Latest(b, st) = e
  <1>1. \A d \in Days : IsLatest(b, st, d) => d = e
    BY DaysType, SMT DEF IsLatest, DaysThat
  <1> QED BY <1>1 DEF HasLatest, Latest

\* A transaction that catches up a book whose rows are in order does one of the
\* three.
LEMMA CatchUpCases ==
  ASSUME NEW b \in Books, NEW day \in Days, NEW balance \in Int, NEW equity \in Int,
         RowsInOrder(b, day)
  PROVE  CatchesUp(b, EnsureTodaySnapshot(FinalizeElapsedDay(b, day), day, balance, equity),
                   day, DailyReference(balance, equity))
  <1> DEFINE f == FinalizeElapsedDay(b, day)
             c == EnsureTodaySnapshot(f, day, balance, equity)
  <1>0. c \in Books /\ c.bal = b.bal
    BY CatchUpFollows DEF Follows
  <1>1. CASE b.rows[day].st = "open"
    <2>1. day \in DaysThat(b, "open")
      BY <1>1 DEF DaysThat
    <2>2. Latest(b, "open") = day
      BY <2>1, OpenIsLatest
    <2>3. ~BoundaryElapsed(b, day)
      BY <2>2, DaysType, SMT DEF BoundaryElapsed
    <2>4. f = b
      BY <2>3 DEF FinalizeElapsedDay
    <2>5. c = b
      BY <1>1, <2>4 DEF EnsureTodaySnapshot
    <2> HIDE DEF c
    <2> QED BY <1>0, <1>1, <2>5 DEF CatchesUp, c
  <1>2. CASE b.rows[day].st # "open"
    <2>0. b.rows[day].st = "none"
      BY <1>2, DaysType, SMT DEF RowsInOrder, DaysThat, Books, Rows
    <2>1. CASE DaysThat(b, "open") = {}
      <3>1. DaysThat(b, "finalized") = {}
        BY <2>1 DEF RowsInOrder
      <3>2. ~BoundaryElapsed(b, day) /\ ~HasLatest(b, "finalized")
        BY <2>1, <3>1 DEF BoundaryElapsed, HasLatest, IsLatest
      <3>3. f = b
        BY <3>2 DEF FinalizeElapsedDay
      <3>4. c = [b EXCEPT !.rows = [b.rows EXCEPT ![day] = NewRow(b, balance, equity)]]
        BY <2>0, <3>3 DEF EnsureTodaySnapshot
      <3>5. /\ NewRow(b, balance, equity).st = "open"
            /\ NewRow(b, balance, equity).floorBefore = InitialMaximumLossFloor
            /\ NewRow(b, balance, equity).reference = Nominal
        BY <3>2 DEF NewRow, PreviousFloor
      <3>6. \A d \in Days : b.rows[d].st = "none"
        BY <2>1, <3>1 DEF DaysThat, Books, Rows
      <3>7. /\ c.status = b.status
            /\ \A d \in Days : c.rows[d] = IF d = day THEN NewRow(b, balance, equity) ELSE b.rows[d]
        BY <3>4 DEF Books
      <3> HIDE DEF c
      <3>8. Starts(b, c, day)
        BY <3>5, <3>6, <3>7 DEF Starts
      <3> QED BY <1>0, <3>8 DEF CatchesUp, c
    <2>2. CASE DaysThat(b, "open") # {}
      <3>1. PICK e \in DaysThat(b, "open") : TRUE
        BY <2>2
      <3>2. /\ e \in Days /\ b.rows[e].st = "open" /\ e < day
            /\ HasLatest(b, "open") /\ Latest(b, "open") = e
        <4>1. e \in Days /\ b.rows[e].st = "open"
          BY <3>1 DEF DaysThat
        <4>2. e <= day /\ e # day
          BY <1>2, <3>1, <4>1 DEF RowsInOrder
        <4>3. e < day
          BY <4>1, <4>2, DaysType, SMT
        <4> QED BY <3>1, <4>1, <4>3, OpenIsLatest
      <3> DEFINE row == FinalizedRow(b, e)
                 status == IF b.status = "soft_locked" THEN "active" ELSE b.status
      <3>3. f = [b EXCEPT !.rows = [b.rows EXCEPT ![e] = row], !.status = status]
        BY <3>2 DEF FinalizeElapsedDay, BoundaryElapsed
      <3>4. /\ row.st = "finalized" /\ row.eod = b.bal[e] /\ row.highest = Highest(b, e)
            /\ row.floorBefore = b.rows[e].floorBefore
            /\ row.floorAfter = NextMaximumLossFloor(b.rows[e].floorBefore, Highest(b, e))
        <4>1. b.rows[e] \in Rows
          BY <3>2 DEF Books
        <4> QED BY <4>1 DEF FinalizedRow, Highest, Rows
      <3> HIDE DEF row
      <3>5. /\ f.status = status
            /\ \A d \in Days : f.rows[d] = IF d = e THEN row ELSE b.rows[d]
        BY <3>3 DEF Books
      <3>6. f \in Books
        BY FinalizeFollows DEF Follows
      <3> HIDE DEF f, status
      <3>7. IsLatest(f, "finalized", e)
        <4>1. \A d \in Days : b.rows[d].st # "none" => d <= e
          BY <3>1 DEF RowsInOrder
        <4>2. \A d \in DaysThat(f, "finalized") : d = e \/ d <= e
          BY <3>5, <4>1 DEF DaysThat
        <4>3. e <= e
          BY <3>2, DaysType, SMT
        <4> QED BY <3>2, <3>4, <3>5, <4>2, <4>3 DEF IsLatest, DaysThat
      <3>8. HasLatest(f, "finalized") /\ Latest(f, "finalized") = e
        BY <3>2, <3>7, LatestIs
      <3>9. f.rows[day].st = "none"
        BY <2>0, <3>2, <3>5, DaysType, SMT
      <3>10. /\ NewRow(f, balance, equity).st = "open"
             /\ NewRow(f, balance, equity).floorBefore = row.floorAfter
             /\ NewRow(f, balance, equity).reference = DailyReference(balance, equity)
        BY <3>2, <3>5, <3>8 DEF NewRow, PreviousFloor
      <3>11. c = [f EXCEPT !.rows = [f.rows EXCEPT ![day] = NewRow(f, balance, equity)]]
        BY <3>9 DEF EnsureTodaySnapshot
      <3>12. /\ c.status = status
             /\ \A d \in Days : c.rows[d] = IF d = day THEN NewRow(f, balance, equity) ELSE f.rows[d]
        BY <3>5, <3>6, <3>11 DEF Books
      <3> HIDE DEF c
      <3>13. TakesOver(b, c, day, e, DailyReference(balance, equity))
        BY <2>0, <3>2, <3>4, <3>5, <3>10, <3>12, DaysType, SMT DEF TakesOver, status
      <3> QED BY <1>0, <3>2, <3>13 DEF CatchesUp, c, f
    <2> QED BY <2>1, <2>2
  <1> QED BY <1>1, <1>2
\* The highest of given days is an integer and there is one only; with a day
\* more it is the larger of it and that day's balance.
LEMMA TopFacts ==
  ASSUME NEW b \in Books, NEW days \in SUBSET Days, NEW h, IsTop(h, b, days)
  PROVE  /\ h \in Int
         /\ \A g : IsTop(g, b, days) => g = h
         /\ \A e \in Days : IsTop(Larger(h, b.rows[e].eod), b, days \cup {e})
         /\ \A c : (\A d \in days : c.rows[d].eod = b.rows[d].eod) => IsTop(h, c, days)
  <1>1. Nominal \in Int /\ \A d \in Days : b.rows[d].eod \in Int
    BY RulesAssumption DEF Books, Rows
  <1>2. h \in Int
    BY <1>1 DEF IsTop
  <1>3. ASSUME NEW g, IsTop(g, b, days) PROVE g = h
    <2>1. g \in Int
      BY <1>1, <1>3 DEF IsTop
    <2>2. g >= h /\ h >= g
      BY <1>3 DEF IsTop
    <2> QED BY <1>2, <2>1, <2>2
  <1>4. ASSUME NEW e \in Days PROVE IsTop(Larger(h, b.rows[e].eod), b, days \cup {e})
    BY <1>1, <1>2 DEF IsTop, Larger
  <1>5. ASSUME NEW c, \A d \in days : c.rows[d].eod = b.rows[d].eod PROVE IsTop(h, c, days)
    BY <1>5 DEF IsTop
  <1> QED BY <1>2, <1>3, <1>4, <1>5

\* The previous highest and the previous floor are those of all finalized days.
LEMMA PreviousIsTop ==
  ASSUME NEW b \in Books, NEW day \in Days, RowsInOrder(b, day), RowsTrail(b)
  PROVE  /\ IsTop(PreviousHighest(b), b, DaysThat(b, "finalized"))
         /\ PreviousFloor(b) = Trailing(PreviousHighest(b))
  <1>1. CASE HasLatest(b, "finalized")
    <2> DEFINE e == Latest(b, "finalized")
    <2>1. e \in Days /\ IsLatest(b, "finalized", e)
      BY <1>1 DEF HasLatest, Latest
    <2>2. PreviousHighest(b) = b.rows[e].highest /\ PreviousFloor(b) = b.rows[e].floorAfter
      BY <1>1 DEF PreviousHighest, PreviousFloor
    <2> HIDE DEF e
    <2>3. e \in DaysThat(b, "finalized") /\ Until(b, e) = DaysThat(b, "finalized")
      BY <2>1 DEF IsLatest, Until
    <2> QED BY <2>2, <2>3 DEF RowsTrail
  <1>2. CASE ~HasLatest(b, "finalized")
    <2>1. DaysThat(b, "finalized") = {}
      BY <1>2 DEF RowsInOrder
    <2>2. PreviousHighest(b) = Nominal /\ PreviousFloor(b) = InitialMaximumLossFloor
      BY <1>2 DEF PreviousHighest, PreviousFloor
    <2>3. InitialMaximumLossFloor = Trailing(Nominal)
      BY RulesAssumption, SMT DEF InitialMaximumLossFloor, Trailing, Smaller
    <2>4. IsTop(Nominal, b, {})
      BY RulesAssumption DEF IsTop
    <2> QED BY <2>1, <2>2, <2>3, <2>4
  <1> QED BY <1>1, <1>2

\* The recurrence that the rows carry computes the floor from the history: the
\* next floor on a trailing floor is the trailing floor of the next highest.
LEMMA NextFloorTrails ==
  ASSUME NEW h \in Int, NEW eod \in Int
  PROVE  NextMaximumLossFloor(Trailing(h), Larger(h, eod)) = Trailing(Larger(h, eod))
  BY RulesAssumption, SMT DEF NextMaximumLossFloor, Trailing, Larger, Smaller

\* The initial floor is the one that trails the nominal balance alone.
LEMMA InitialFloorTrails == InitialMaximumLossFloor = Trailing(Nominal)
  BY RulesAssumption, SMT DEF InitialMaximumLossFloor, Trailing, Smaller

\* The floor of the open row trails the finalized days.
LEMMA OpenFloorTrails ==
  ASSUME NEW b \in Books, NEW day \in Days, Chain(b, day), NEW e \in DaysThat(b, "open")
  PROVE  b.rows[e].floorBefore = Trailing(PreviousHighest(b)) /\ PreviousHighest(b) \in Int
  <1>1. Before(b, e) = DaysThat(b, "finalized")
    <2>1. \A d \in DaysThat(b, "finalized") : d <= e /\ d # e
      BY DEF Chain, RowsInOrder, DaysThat
    <2>2. \A d \in DaysThat(b, "finalized") : d \in Int /\ e \in Int
      BY DaysType DEF DaysThat
    <2>3. \A d \in DaysThat(b, "finalized") : d < e
      BY <2>1, <2>2, SMT
    <2> QED BY <2>3 DEF Before
  <1>2. PICK h \in Int : IsTop(h, b, DaysThat(b, "finalized"))
                          /\ b.rows[e].floorBefore = Trailing(h)
    BY <1>1 DEF DaysThat, Chain, RowsTrail
  <1>3. IsTop(PreviousHighest(b), b, DaysThat(b, "finalized"))
    BY PreviousIsTop DEF Chain
  <1>4. DaysThat(b, "finalized") \in SUBSET Days
    BY DEF DaysThat
  <1> QED BY <1>2, <1>3, <1>4, TopFacts

\* Catching up keeps rows, floors and ledger in order, and leaves the day's row
\* open.
LEMMA CatchUpChains ==
  ASSUME NEW b \in Books, NEW c, NEW day \in Days, NEW reference,
         Chain(b, day), CatchesUp(b, c, day, reference)
  PROVE  Chain(c, day) /\ c.rows[day].st = "open"
  <1>0. c \in Books /\ c.bal = b.bal /\ Balance(c) = Balance(b)
    BY DEF CatchesUp, Balance
  <1>00. LevelFrom(c, day)
    BY <1>0 DEF Chain, LevelFrom
  <1>1. CASE c = b /\ b.rows[day].st = "open"
    BY <1>1
  <1>2. CASE Starts(b, c, day)
    <2>1. /\ DaysThat(c, "open") = {day} /\ DaysThat(c, "finalized") = {}
          /\ \A d \in Days \ {day} : c.rows[d].st = "none"
      BY <1>2 DEF Starts, DaysThat
    <2>2. RowsInOrder(c, day)
      BY <2>1, DaysType, SMT DEF RowsInOrder
    <2>3. Before(c, day) = {} /\ IsTop(Nominal, c, {})
      BY <2>1, RulesAssumption DEF Before, IsTop
    <2>4. c.rows[day].floorBefore = Trailing(Nominal)
      BY <1>2, InitialFloorTrails DEF Starts
    <2>5. RowsTrail(c)
      BY <2>1, <2>3, <2>4, RulesAssumption DEF RowsTrail
    <2> QED BY <1>00, <1>2, <2>2, <2>5 DEF Chain, Starts
  <1>3. ASSUME NEW e \in Days, TakesOver(b, c, day, e, reference)
        PROVE  Chain(c, day) /\ c.rows[day].st = "open"
    <2> DEFINE fin == DaysThat(b, "finalized")
               high == Highest(b, e)
    <2>1. /\ e < day /\ e \in DaysThat(b, "open") /\ e \notin fin
          /\ \A d \in Days : b.rows[d].st # "none" => d <= e
          /\ \A d \in fin : d \in Days /\ d < e
      BY <1>3, DaysType, SMT DEF TakesOver, Chain, RowsInOrder, DaysThat
    <2>2. DaysThat(c, "open") = {day}
      <3>1. \A d \in Days : b.rows[d].st = "open" => d = e
        BY <2>1, DaysType, SMT DEF Chain, RowsInOrder, DaysThat
      <3> QED BY <1>3, <3>1 DEF TakesOver, DaysThat
    <2>3. DaysThat(c, "finalized") = fin \cup {e}
      BY <1>3 DEF TakesOver, DaysThat
    <2>4. \A d \in Days : c.rows[d].st # "none" => d <= e \/ d = day
      BY <1>3, <2>1 DEF TakesOver
    <2>5. IsLatest(c, "finalized", e)
      <3>1. \A d \in DaysThat(c, "finalized") : d \in Int /\ (d < e \/ d = e)
        BY <2>1, <2>3, DaysType
      <3>2. e \in Int /\ e \in DaysThat(c, "finalized")
        BY <2>3, DaysType
      <3>3. \A d \in DaysThat(c, "finalized") : d <= e
        BY <3>1, <3>2, SMT
      <3> QED BY <3>2, <3>3 DEF IsLatest
    <2>6. RowsInOrder(c, day)
      <3>1. HasLatest(c, "finalized")
        BY <2>5 DEF HasLatest
      <3>2. \A d \in Days : d <= e => d < day
        BY <2>1, DaysType, SMT
      <3>3. e <= e /\ day <= day
        BY DaysType, SMT
      <3>4. \A d \in DaysThat(c, "finalized") : d <= e /\ d \in Days
        BY <2>5 DEF IsLatest, DaysThat
      <3>5. \A d \in Days : c.rows[d].st # "none" => d <= day
        BY <2>4, <3>2, <3>3, DaysType, SMT
      <3> QED BY <2>2, <3>1, <3>2, <3>3, <3>4, <3>5 DEF RowsInOrder
    <2>7. /\ IsTop(PreviousHighest(b), b, fin)
          /\ fin \subseteq Days /\ e \notin fin /\ day \notin fin
      BY <2>1, <1>3, PreviousIsTop DEF Chain, TakesOver, DaysThat
    <2>8. \A d \in fin : c.rows[d] = b.rows[d]
      BY <1>3, <2>7 DEF TakesOver
    <2>9. IsTop(high, c, fin \cup {e}) /\ high \in Int
      <3>1. IsTop(PreviousHighest(b), c, fin)
        BY <2>7, <2>8, TopFacts
      <3>2. IsTop(Larger(PreviousHighest(b), c.rows[e].eod), c, fin \cup {e})
        BY <1>0, <2>7, <3>1, TopFacts
      <3>3. high = Larger(PreviousHighest(b), c.rows[e].eod)
        BY <1>3 DEF TakesOver, Highest
      <3>4. fin \cup {e} \in SUBSET Days
        BY <2>7
      <3>5. IsTop(high, c, fin \cup {e})
        BY <3>2, <3>3
      <3> HIDE DEF high, fin
      <3>6. high \in Int
        BY <1>0, <3>4, <3>5, TopFacts
      <3> QED BY <3>5, <3>6
    <2>10. b.rows[e].floorBefore = Trailing(PreviousHighest(b)) /\ PreviousHighest(b) \in Int
      BY <2>1, OpenFloorTrails
    <2>11. c.rows[e].floorAfter = Trailing(high)
      <3>1. b.bal[e] \in Int
        BY DEF Books
      <3> QED BY <1>3, <2>10, <3>1, NextFloorTrails DEF TakesOver, Highest
    <2> HIDE DEF fin, high
    <2>12. ASSUME NEW d \in fin \cup {e}
           PROVE  /\ IsTop(c.rows[d].highest, c, Until(c, d))
                  /\ c.rows[d].floorAfter = Trailing(c.rows[d].highest)
      <3>1. CASE d = e
        <4>1. Until(c, e) = fin \cup {e}
          BY <2>1, <2>3, DaysType, SMT DEF Until
        <4>2. c.rows[e].highest = high
          BY <1>3 DEF TakesOver, high
        <4> QED BY <2>9, <2>11, <3>1, <4>1, <4>2
      <3>2. CASE d # e
        <4>1. d \in fin
          BY <3>2
        <4>2. Until(c, d) = Until(b, d) /\ Until(b, d) \subseteq fin
          <5>1. d \in Int /\ e \in Int /\ d < e
            BY <2>1, <4>1, DaysType DEF fin
          <5>2. ~(e <= d)
            BY <5>1, SMT
          <5>3. \A x : x \in DaysThat(c, "finalized") <=> x \in fin \/ x = e
            BY <2>3 DEF fin
          <5> QED BY <5>2, <5>3 DEF Until, fin
        <4>3. IsTop(b.rows[d].highest, b, Until(b, d))
              /\ b.rows[d].floorAfter = Trailing(b.rows[d].highest)
          BY <4>1 DEF Chain, RowsTrail, fin
        <4>4. Until(b, d) \in SUBSET Days /\ \A x \in Until(b, d) : c.rows[x].eod = b.rows[x].eod
          BY <2>7, <2>8, <4>2
        <4>5. IsTop(b.rows[d].highest, c, Until(b, d))
          BY <4>3, <4>4, TopFacts
        <4> QED BY <2>8, <4>1, <4>2, <4>3, <4>5
      <3> QED BY <3>1, <3>2
    <2>13. ASSUME NEW d \in Days, c.rows[d].st # "none"
           PROVE  \E h \in Int : IsTop(h, c, Before(c, d)) /\ c.rows[d].floorBefore = Trailing(h)
      <3>1. CASE d = day
        <4>1. Before(c, day) = fin \cup {e}
          <5>1. \A x \in fin \cup {e} : x < day
            <6>1. \A x \in fin : x \in Int /\ x < e
              BY <2>1, DaysType DEF fin
            <6> QED BY <2>1, <6>1, DaysType, SMT
          <5>2. DaysThat(c, "finalized") = fin \cup {e}
            BY <2>3 DEF fin
          <5> QED BY <5>1, <5>2 DEF Before
        <4>2. c.rows[day].floorBefore = Trailing(high)
          BY <1>3, <2>11 DEF TakesOver
        <4> QED BY <2>9, <3>1, <4>1, <4>2
      <3>2. CASE d # day
        <4>1. d <= e /\ c.rows[d].floorBefore = b.rows[d].floorBefore /\ b.rows[d].st # "none"
          BY <1>3, <2>4, <2>13, <3>2 DEF TakesOver
        <4>2. Before(c, d) = Before(b, d) /\ Before(b, d) \subseteq fin
          <5>1. ~(e < d)
            BY <4>1, DaysType, SMT
          <5>2. \A x : x \in DaysThat(c, "finalized") <=> x \in fin \/ x = e
            BY <2>3 DEF fin
          <5> QED BY <5>1, <5>2 DEF Before, fin
        <4>3. PICK h \in Int : IsTop(h, b, Before(b, d)) /\ b.rows[d].floorBefore = Trailing(h)
          BY <4>1 DEF Chain, RowsTrail
        <4>4. Before(b, d) \in SUBSET Days /\ \A x \in Before(b, d) : c.rows[x].eod = b.rows[x].eod
          BY <2>7, <2>8, <4>2
        <4>5. IsTop(h, c, Before(b, d))
          BY <4>3, <4>4, TopFacts
        <4> QED BY <4>1, <4>2, <4>3, <4>5
      <3> QED BY <3>1, <3>2
    <2>14. RowsTrail(c)
      BY <2>3, <2>12, <2>13 DEF RowsTrail
    <2> QED BY <1>00, <1>3, <2>6, <2>14 DEF Chain, TakesOver
  <1> QED BY <1>1, <1>2, <1>3 DEF CatchesUp
\* A catch-up that has posted nothing keeps an account above its floor; it locks
\* none, and where it lifts the soft lock the account is clear of it.
Above(b) == \A d \in DaysThat(b, "open") : Balance(b) > b.rows[d].floorBefore
Unlocked(b) == \A d \in DaysThat(b, "open") : Balance(b) > DailyLossFloor(b.rows[d].reference)
LEMMA CatchUpIsHarmless ==
  ASSUME NEW b \in Books, NEW c, NEW day \in Days,
         Chain(b, day), Rests(b), Untouched(b), CatchesUp(b, c, day, Balance(b))
  PROVE  /\ Rests(c) /\ Untouched(c)
         /\ Above(b) => Above(c)
         /\ Unlocked(b) \/ c.status # b.status => Unlocked(c)
  <1>0. c \in Books /\ c.bal = b.bal /\ Balance(c) = Balance(b) /\ Balance(b) \in Int
    BY BalanceType DEF CatchesUp, Balance
  <1>1. CASE c = b
    BY <1>1
  <1>2. CASE Starts(b, c, day)
    <2>1. DaysThat(c, "open") = {day} /\ DaysThat(b, "open") = {}
      BY <1>2 DEF Starts, DaysThat
    <2>2. Rests(c) /\ Untouched(c)
      BY <1>0, <2>1 DEF Chain, LevelFrom, Rests, Untouched
    <2>3. Balance(c) = Nominal /\ Nominal \in Int
      <3>1. b.bal[MaxDay] = Nominal
        BY <2>1, DaysType DEF Untouched
      <3> QED BY <1>0, <3>1, RulesAssumption DEF Balance
    <2>4. /\ c.rows[day].floorBefore = Nominal - MaximumLoss
          /\ DailyLossFloor(c.rows[day].reference) = Nominal - DailyLoss
      BY <1>2 DEF Starts, InitialMaximumLossFloor, DailyLossFloor
    <2>5. Nominal > Nominal - MaximumLoss /\ Nominal > Nominal - DailyLoss
      BY RulesAssumption, SMT
    <2> QED BY <2>1, <2>2, <2>3, <2>4, <2>5 DEF Above, Unlocked
  <1>3. ASSUME NEW e \in Days, TakesOver(b, c, day, e, Balance(b))
        PROVE  /\ Rests(c) /\ Untouched(c)
               /\ Above(b) => Above(c)
               /\ Unlocked(c)
    <2>1. e \in DaysThat(b, "open")
      BY <1>3 DEF TakesOver, DaysThat
    <2>2. DaysThat(c, "open") = {day}
      <3>1. \A d \in Days : b.rows[d].st = "open" => d = e
        BY <2>1, OpenIsLatest DEF Chain, DaysThat
      <3> QED BY <1>3, <3>1 DEF TakesOver, DaysThat
    <2>3. b.bal[e] = Balance(b)
      BY <2>1, DaysType, SMT DEF Rests, LevelFrom
    <2>4. Rests(c) /\ Untouched(c)
      BY <1>0, <2>2 DEF Chain, LevelFrom, Rests, Untouched
    <2>5. b.rows[e].floorBefore = Trailing(PreviousHighest(b)) /\ PreviousHighest(b) \in Int
      BY <2>1, OpenFloorTrails
    <2>6. c.rows[day].floorBefore = Trailing(Larger(PreviousHighest(b), Balance(b)))
      BY <1>0, <1>3, <2>3, <2>5, NextFloorTrails DEF TakesOver, Highest
    <2>7. Balance(b) > Trailing(PreviousHighest(b)) => Balance(b) > c.rows[day].floorBefore
      BY <1>0, <2>5, <2>6, RulesAssumption, SMT DEF Trailing, Larger, Smaller
    <2>8. Above(b) => Above(c)
      BY <1>0, <2>1, <2>2, <2>5, <2>7 DEF Above
    <2>9. Balance(b) > DailyLossFloor(c.rows[day].reference)
      <3>1. c.rows[day].reference = Balance(b)
        BY <1>3 DEF TakesOver
      <3> QED BY <1>0, <3>1, RulesAssumption, SMT DEF DailyLossFloor
    <2>10. Unlocked(c)
      BY <1>0, <2>2, <2>9 DEF Unlocked
    <2> QED BY <2>4, <2>8, <2>10
  <1> QED BY <1>1, <1>2, <1>3 DEF CatchesUp

\* A book that posts on its day stays in order; from the day's open row on the
\* ledger is level.
LEMMA PostChains ==
  ASSUME NEW b \in Books, NEW day \in Days, NEW amount \in Int, Chain(b, day)
  PROVE  LET c == Post(b, day, amount)
         IN  /\ c \in Books /\ Chain(c, day) /\ c.rows = b.rows /\ c.status = b.status
             /\ b.rows[day].st = "open" => Rests(c) /\ Untouched(c)
  <1> DEFINE c == Post(b, day, amount)
  <1>1. c \in Books /\ c.rows = b.rows /\ c.status = b.status
    BY PostKeeps
  <1>2. LevelFrom(c, day)
    <2>1. c.bal = [d \in Days |-> IF d >= day THEN b.bal[d] + amount ELSE b.bal[d]]
      BY DEF Post, Books
    <2>2. MaxDay \in Days /\ MaxDay >= day
      BY DayAssumption, SMT DEF Days
    <2>3. \A d \in Days : d >= day => b.bal[d] = b.bal[MaxDay]
      BY DEF Chain, LevelFrom, Balance
    <2> HIDE DEF c
    <2> QED BY <2>1, <2>2, <2>3 DEF LevelFrom, Balance
  <1> HIDE DEF c
  <1>3. \A st : DaysThat(c, st) = DaysThat(b, st)
    BY <1>1 DEF DaysThat
  <1>4. RowsInOrder(c, day)
    BY <1>1, <1>3 DEF Chain, RowsInOrder, HasLatest, IsLatest
  <1>5. RowsTrail(c)
    BY <1>1, <1>3 DEF Chain, RowsTrail, IsTop, Until, Before
  <1>6. b.rows[day].st = "open" => Rests(c) /\ Untouched(c)
    <2> SUFFICES ASSUME b.rows[day].st = "open" PROVE Rests(c) /\ Untouched(c)
      OBVIOUS
    <2>1. day \in DaysThat(c, "open")
      BY <1>3 DEF DaysThat
    <2>2. \A d \in DaysThat(c, "open") : d = day
      BY <1>1, <1>4, <2>1, OpenIsLatest
    <2> QED BY <1>2, <2>1, <2>2 DEF Rests, Untouched
  <1> QED BY <1>1, <1>2, <1>4, <1>5, <1>6 DEF Chain, c

\* A status changes nothing of this.
LEMMA StatusChains ==
  ASSUME NEW b \in Books, NEW c, NEW day \in Days, c.bal = b.bal, c.rows = b.rows
  PROVE  /\ Balance(c) = Balance(b)
         /\ Chain(b, day) => Chain(c, day)
         /\ Rests(b) => Rests(c)
         /\ Untouched(b) => Untouched(c)
         /\ Above(b) <=> Above(c)
         /\ Unlocked(b) <=> Unlocked(c)
  <1>1. (\A st : DaysThat(c, st) = DaysThat(b, st)) /\ Balance(c) = Balance(b)
    BY DEF DaysThat, Balance
  <1>2. Chain(b, day) => Chain(c, day)
    <2>1. RowsInOrder(b, day) => RowsInOrder(c, day)
      BY <1>1 DEF RowsInOrder, HasLatest, IsLatest
    <2>2. RowsTrail(b) => RowsTrail(c)
      BY <1>1 DEF RowsTrail, IsTop, Until, Before
    <2>3. LevelFrom(b, day) => LevelFrom(c, day)
      BY <1>1 DEF LevelFrom
    <2> QED BY <2>1, <2>2, <2>3 DEF Chain
  <1> QED BY <1>1, <1>2 DEF Rests, LevelFrom, Untouched, Above, Unlocked
\* An evaluation writes the recommended status on the caught-up book, and
\* nothing else.
LEMMA EvaluationSets ==
  ASSUME NEW b \in Books, NEW day \in Days, NEW u \in Int, NEW holding, NEW trigger
  PROVE  LET caught == CaughtUp(b, day, u)
             to == RecommendedStatus(EngineInput(caught, day, u, holding))
             risk == Evaluated(b, day, u, holding, trigger)
         IN  /\ caught \in Books
             /\ risk.breaches <=> to = "breached" /\ caught.status # "breached"
             /\ risk.book.bal = caught.bal /\ risk.book.rows = caught.rows
             /\ risk.book.status = IF trigger = "daily_finalization" /\ to = "pass_pending"
                                   THEN "passed" ELSE to
  <1> DEFINE caught == CaughtUp(b, day, u)
             to == RecommendedStatus(EngineInput(caught, day, u, holding))
             risk == Evaluated(b, day, u, holding, trigger)
             set == IF trigger = "daily_finalization" /\ to = "pass_pending" THEN "passed" ELSE to
  <1>1. caught \in Books
    BY BalanceType, CatchUpFollows DEF CaughtUp, Follows
  <1>2. /\ risk.breaches <=> to = "breached" /\ caught.status # "breached"
        /\ risk.book = [caught EXCEPT !.status = set]
    BY DEF Evaluated
  <1> HIDE DEF caught, to, risk
  <1>3. /\ risk.book.bal = caught.bal /\ risk.book.rows = caught.rows
        /\ risk.book.status = set
    BY <1>1, <1>2 DEF Books
  <1> QED BY <1>1, <1>2, <1>3 DEF caught, to, risk

\* An evaluation on the day keeps a book in order.  The account it leaves live
\* has equity above the day's floor, and an active one is clear of the soft
\* lock: without a position, that is its balance.
LEMMA EvaluationChains ==
  ASSUME NEW b \in Books, NEW day \in Days, NEW u \in Int, NEW holding, NEW trigger,
         Chain(b, day)
  PROVE  LET after == Evaluated(b, day, u, holding, trigger).book
         IN  /\ after \in Books /\ after.bal = b.bal
             /\ Chain(after, day) /\ after.rows[day].st = "open"
             /\ Rests(after) /\ Untouched(after)
             /\ after.status \in {"active", "soft_locked", "pass_pending"} /\ u = 0
                  => b.status \in {"active", "soft_locked", "pass_pending"} /\ Above(after)
             /\ after.status = "active" /\ u = 0 => Unlocked(after)
  <1> DEFINE caught == CaughtUp(b, day, u)
             in == EngineInput(caught, day, u, holding)
             to == RecommendedStatus(in)
             after == Evaluated(b, day, u, holding, trigger).book
  <1>1. Balance(b) \in Int /\ Balance(b) + u \in Int
    BY BalanceType
  <1>2. CatchesUp(b, caught, day, DailyReference(Balance(b), Balance(b) + u))
    BY <1>1, CatchUpCases DEF CaughtUp, Chain
  <1> HIDE DEF caught
  <1>3. /\ caught \in Books /\ caught.bal = b.bal /\ Balance(caught) = Balance(b)
        /\ caught.status # b.status => b.status = "soft_locked" /\ caught.status = "active"
    BY <1>2 DEF CatchesUp, Balance, Starts, TakesOver
  <1>4. Chain(caught, day) /\ caught.rows[day].st = "open"
    BY <1>2, CatchUpChains
  <1>5. /\ in.status = caught.status /\ in.equity = Balance(b) + u
        /\ in.reference = caught.rows[day].reference
        /\ in.floor = caught.rows[day].floorBefore
    BY <1>3 DEF EngineInput
  <1>6. /\ after.bal = caught.bal /\ after.rows = caught.rows
        /\ after.status = IF trigger = "daily_finalization" /\ to = "pass_pending"
                          THEN "passed" ELSE to
        /\ after \in Books
    <2>1. after \in Books
      BY EvaluationFollows DEF Follows
    <2> QED BY <2>1, EvaluationSets DEF caught
  <1> HIDE DEF in, after
  <1>7. /\ to # "breached" => ~MaximumLossBreached(in.equity, in.floor)
        /\ to = "active" => ~SoftLockTriggered(in.equity, in.reference)
        /\ to \in {"active", "soft_locked", "pass_pending"}
             => in.status \in {"active", "soft_locked", "pass_pending"}
    BY DEF RecommendedStatus
  <1> HIDE DEF to
  <1>8. /\ Chain(after, day) /\ Balance(after) = Balance(b)
        /\ Above(after) <=> Above(caught)
        /\ Unlocked(after) <=> Unlocked(caught)
    BY <1>3, <1>4, <1>6, StatusChains
  <1>9. \A d \in DaysThat(caught, "open") : d = day
    BY <1>3, <1>4, OpenIsLatest DEF Chain, DaysThat
  <1>10. day \in DaysThat(after, "open") /\ \A d \in DaysThat(after, "open") : d = day
    BY <1>4, <1>6, <1>9 DEF DaysThat
  <1>11. Rests(after) /\ Untouched(after)
    BY <1>8, <1>10 DEF Chain, Rests, Untouched
  <1>12. ASSUME after.status \in {"active", "soft_locked", "pass_pending"}, u = 0
         PROVE  b.status \in {"active", "soft_locked", "pass_pending"} /\ Above(after)
    <2>1. to = after.status /\ to # "breached"
      BY <1>6, <1>12
    <2>2. b.status \in {"active", "soft_locked", "pass_pending"}
      BY <1>3, <1>5, <1>7, <1>12, <2>1
    <2>3. caught.rows[day].floorBefore \in Int
      BY <1>3 DEF Books, Rows
    <2>4. Balance(b) > caught.rows[day].floorBefore
      BY <1>1, <1>5, <1>7, <1>12, <2>1, <2>3 DEF MaximumLossBreached
    <2> QED BY <1>3, <1>8, <1>9, <2>2, <2>4 DEF Above
  <1>13. ASSUME after.status = "active", u = 0 PROVE Unlocked(after)
    <2>1. to = "active"
      BY <1>6, <1>13
    <2>2. caught.rows[day].reference \in Int
      BY <1>3 DEF Books, Rows
    <2>3. Balance(b) > DailyLossFloor(caught.rows[day].reference)
      BY <1>1, <1>5, <1>7, <1>13, <2>1, <2>2, RulesAssumption DEF SoftLockTriggered, DailyLossFloor
    <2> QED BY <1>3, <1>8, <1>9, <2>3 DEF Unlocked
  <1> QED BY <1>3, <1>4, <1>6, <1>8, <1>11, <1>12, <1>13 DEF after

-----------------------------------------------------------------------------
(* The invariant and what follows from it.                                 *)

\* The account's book is in order, and an account that is live and holds no
\* position is above the floor of its open row; an active one is clear of the
\* soft lock.
InOrder(b, day) == Chain(b, day) /\ Rests(b) /\ Untouched(b)
Settled == Live /\ ~open => Above(book)
Clear == book.status = "active" /\ ~open => Unlocked(book)
IInv == InOrder(book, today) /\ Settled /\ Clear

\* A day that no row is later than is as good as today: the book is in order on it.
LEMMA NewestInOrder ==
  ASSUME TypeOK, IInv, NEW day \in Days, Newest(day)
  PROVE  InOrder(book, day)
  <1>1. /\ RowsInOrder(book, today) /\ RowsTrail(book) /\ Rests(book) /\ Untouched(book)
    BY DEF IInv, InOrder, Chain
  <1>2. CASE DaysThat(book, "open") = {}
    <2>1. \A d \in Days : book.bal[d] = Nominal
      BY <1>1, <1>2 DEF Untouched
    <2>2. LevelFrom(book, day)
      BY <2>1, DaysType DEF LevelFrom, Balance
    <2>3. RowsInOrder(book, day)
      BY <1>1, <1>2 DEF RowsInOrder
    <2> QED BY <1>1, <2>2, <2>3 DEF InOrder, Chain
  <1>3. CASE DaysThat(book, "open") # {}
    <2>1. PICK e \in DaysThat(book, "open") : TRUE
      BY <1>3
    <2>2. e \in Days /\ e \in Int /\ day \in Int /\ e <= day /\ book.rows[e].st = "open"
      BY <2>1, DaysType DEF Newest, DaysThat
    <2>3. \A d \in DaysThat(book, "finalized") : d < day
      <3>1. SUFFICES ASSUME NEW d \in DaysThat(book, "finalized") PROVE d < day
        OBVIOUS
      <3>2. d \in Int /\ d # e
        BY <2>2, DaysType DEF DaysThat
      <3>3. d <= e
        BY <1>1, <2>1 DEF RowsInOrder, DaysThat
      <3> QED BY <2>2, <3>2, <3>3
    <2>4. RowsInOrder(book, day)
      BY <1>1, <2>3 DEF RowsInOrder, Newest, DaysThat
    <2>5. LevelFrom(book, day)
      <3>1. LevelFrom(book, e)
        BY <1>1, <2>1 DEF Rests
      <3>2. \A d \in Days : d >= day => d >= e
        BY <2>2, DaysType, SMT
      <3> QED BY <3>1, <3>2 DEF LevelFrom
    <2> QED BY <1>1, <2>4, <2>5 DEF InOrder, Chain
  <1> QED BY <1>2, <1>3

\* What is in order on a day stays so on later ones.
LEMMA LaterInOrder ==
  ASSUME NEW b, NEW day \in Days, NEW later \in Days, day <= later, Chain(b, day)
  PROVE  Chain(b, later)
  <1>1. \A d \in Days : /\ d < day => d < later
                        /\ d <= day => d <= later
                        /\ d >= later => d >= day
    BY DaysType, SMT
  <1>2. RowsInOrder(b, later)
    BY <1>1 DEF Chain, RowsInOrder, DaysThat
  <1>3. LevelFrom(b, later)
    BY <1>1 DEF Chain, LevelFrom
  <1> QED BY <1>2, <1>3 DEF Chain

\* A command that nothing of a later day has overtaken.
LEMMA BookKeeps ==
  ASSUME TypeOK, IInv, NEW day \in Days, day <= today, Newest(day),
         NEW amount \in Int, NEW u \in Int, NEW holding \in BOOLEAN,
         ~holding => u = 0, Book(day, amount, u, holding)
  PROVE  IInv'
  <1> DEFINE posted == Post(book, day, amount)
             risk == Evaluated(posted, day, u, holding, "trade_order")
             after == risk.book
  <1>1. posted \in Books /\ Chain(posted, day)
    BY NewestInOrder, PostChains DEF TypeOK, InOrder
  <1>2. /\ IF risk.breaches
           THEN \E forced \in {0} \cup Amounts : book' = Post(after, day, forced)
           ELSE book' = after /\ open' = holding
        /\ today' = today
    BY DEF Book
  <1> HIDE DEF posted
  <1>3. /\ after \in Books /\ Chain(after, day) /\ after.rows[day].st = "open"
        /\ Rests(after) /\ Untouched(after)
        /\ after.status \in {"active", "soft_locked", "pass_pending"} /\ u = 0 => Above(after)
        /\ after.status = "active" /\ u = 0 => Unlocked(after)
    BY <1>1, EvaluationChains DEF TypeOK
  <1>4. CASE risk.breaches
    <2>1. PICK forced \in Int : book' = Post(after, day, forced)
      BY <1>2, <1>4, DailyRiskAssumption
    <2>2. after.status = "breached"
      BY <1>1, <1>4, EvaluationSets DEF TypeOK
    <2> HIDE DEF risk, after
    <2>3. /\ Chain(book', day) /\ Rests(book') /\ Untouched(book')
          /\ book'.status = "breached"
      BY <1>3, <2>1, <2>2, PostChains DEF TypeOK
    <2> QED BY <1>2, <2>3, LaterInOrder DEF IInv, InOrder, Settled, Clear, Live, TypeOK
  <1>5. CASE ~risk.breaches
    <2>1. book' = after /\ open' = holding
      BY <1>2, <1>5
    <2> HIDE DEF risk, after
    <2> QED BY <1>2, <1>3, <2>1, LaterInOrder DEF IInv, InOrder, Settled, Clear, Live, TypeOK
  <1> QED BY <1>4, <1>5

\* A command of the trader.
LEMMA TradeKeeps ==
  ASSUME TypeOK, IInv, TradeInTime
  PROVE  IInv'
  <1>1. PICK day \in Clocks, amount \in Int, u \in Int, holding \in BOOLEAN :
          Newest(day) /\ Book(day, amount, u, holding) /\ (~holding => u = 0)
    BY DailyRiskAssumption
       DEF TradeInTime, TradeOn, OpenPosition, ClosePosition, ModifyPositionRisk
  <1>2. day \in Days /\ day <= today
    BY DEF Clocks
  <1> QED BY <1>1, <1>2, BookKeeps

\* The worker's first transaction opens the new day on the balance there is.
LEMMA FinalizeCatchesUp ==
  ASSUME NEW b \in Books, NEW day \in Days, InOrder(b, day)
  PROVE  CatchesUp(b, FinalizeDailyBoundary(b, day), day, Balance(b))
  <1> DEFINE opening == IF BoundaryElapsed(b, day) THEN b.bal[Latest(b, "open")] ELSE Balance(b)
  <1>1. opening = Balance(b)
    <2>1. CASE BoundaryElapsed(b, day)
      <3>1. Latest(b, "open") \in DaysThat(b, "open") /\ Latest(b, "open") \in Days
        BY <2>1, LatestIsThat DEF BoundaryElapsed, DaysThat
      <3>2. Latest(b, "open") >= Latest(b, "open")
        <4>1. \A d \in Days : d >= d
          BY DaysType, SMT
        <4> QED BY <3>1, <4>1
      <3> QED BY <2>1, <3>1, <3>2 DEF InOrder, Rests, LevelFrom
    <2> QED BY <2>1
  <1>2. FinalizeDailyBoundary(b, day) =
          EnsureTodaySnapshot(FinalizeElapsedDay(b, day), day, opening, opening)
    BY DEF FinalizeDailyBoundary
  <1> HIDE DEF opening
  <1>3. Balance(b) \in Int /\ DailyReference(Balance(b), Balance(b)) = Balance(b)
    BY BalanceType DEF DailyReference, Larger
  <1> QED BY <1>1, <1>2, <1>3, CatchUpCases DEF InOrder, Chain

LEMMA FinalizeKeeps ==
  ASSUME TypeOK, IInv, WorkerFinalize
  PROVE  IInv'
  <1>1. book' = FinalizeDailyBoundary(book, today) /\ UNCHANGED <<open, today>>
    BY DEF WorkerFinalize
  <1>2. CatchesUp(book, book', today, Balance(book))
    BY <1>1, FinalizeCatchesUp DEF TypeOK, IInv
  <1>3. Chain(book', today)
    BY <1>2, CatchUpChains DEF TypeOK, IInv, InOrder
  <1>4. /\ Rests(book') /\ Untouched(book')
        /\ Above(book) => Above(book')
        /\ Unlocked(book) \/ book'.status # book.status => Unlocked(book')
    BY <1>2, CatchUpIsHarmless DEF TypeOK, IInv, InOrder
  <1>5. book'.status # book.status => book.status = "soft_locked"
    BY <1>2 DEF CatchesUp, Starts, TakesOver
  <1>6. Settled'
    BY <1>1, <1>4, <1>5 DEF IInv, Settled, Live
  <1>7. Clear'
    BY <1>1, <1>4, <1>5 DEF IInv, Clear
  <1> QED BY <1>1, <1>3, <1>4, <1>6, <1>7 DEF IInv, InOrder

LEMMA EvaluateKeeps ==
  ASSUME TypeOK, IInv, WorkerEvaluate
  PROVE  IInv'
  <1> DEFINE after == Evaluated(book, today, 0, open, "daily_finalization").book
  <1>1. (book' = after \/ book' = book) /\ UNCHANGED <<open, today>>
    BY DEF WorkerEvaluate
  <1>2. /\ Chain(after, today) /\ Rests(after) /\ Untouched(after)
        /\ after.status \in {"active", "soft_locked", "pass_pending"} => Above(after)
        /\ after.status = "active" => Unlocked(after)
    BY EvaluationChains DEF TypeOK, IInv, InOrder
  <1> HIDE DEF after
  <1> QED BY <1>1, <1>2 DEF IInv, InOrder, Settled, Clear, Live

\* A day later the book is still in order.
LEMMA MidnightKeeps ==
  ASSUME TypeOK, IInv, Midnight
  PROVE  IInv'
  <1>1. UNCHANGED <<book, open>> /\ today' = today + 1 /\ today \in Int
    BY DaysType DEF Midnight, TypeOK
  <1>2. \A d \in Days : /\ d < today => d < today'
                        /\ d <= today => d <= today'
                        /\ d >= today' => d >= today
    BY <1>1, DaysType, SMT
  <1>3. RowsInOrder(book, today')
    BY <1>2 DEF IInv, InOrder, Chain, RowsInOrder, DaysThat
  <1>4. LevelFrom(book, today')
    BY <1>2 DEF IInv, InOrder, Chain, LevelFrom
  <1> QED BY <1>1, <1>3, <1>4 DEF IInv, InOrder, Chain, Settled, Clear, Live

\* Commands in time are commands.
LEMMA InTimeTypes == SpecInTime => Spec /\ []TypeOK
  <1>1. [NextInTime]_vars => [Next]_vars
    BY DEF NextInTime, Next, TradeInTime, Trade
  <1> QED BY <1>1, TypeInvariant, PTL DEF SpecInTime, Spec

\* When no command is overtaken, the rows stay in order, carry the trailing
\* floors from day to day, and no settled account is at its limits unnoticed:
\* whatever the commands and the worker, which may stop between its
\* transactions, do with the account.
THEOREM ChainInvariant == SpecInTime => []IInv
  <1>1. Init => IInv
    <2> SUFFICES ASSUME Init PROVE IInv
      OBVIOUS
    <2>1. /\ \A d \in Days : book.bal[d] = Nominal /\ book.rows[d].st = "none"
          /\ book.status = "active"
      BY DEF Init, Activated, NoRow
    <2>2. DaysThat(book, "open") = {} /\ DaysThat(book, "finalized") = {}
      BY <2>1 DEF DaysThat
    <2>3. \A d \in Days : book.bal[d] = Balance(book)
      BY <2>1, DaysType DEF Balance
    <2>4. RowsInOrder(book, today) /\ RowsTrail(book)
      BY <2>1, <2>2 DEF RowsInOrder, RowsTrail
    <2>5. LevelFrom(book, today) /\ Rests(book) /\ Untouched(book)
      BY <2>1, <2>2, <2>3 DEF LevelFrom, Rests, Untouched
    <2> QED BY <2>2, <2>4, <2>5 DEF IInv, InOrder, Chain, Settled, Clear, Above, Unlocked
  <1>2. TypeOK /\ IInv /\ [NextInTime]_vars => IInv'
    <2> SUFFICES ASSUME TypeOK, IInv, [NextInTime]_vars PROVE IInv'
      OBVIOUS
    <2>1. CASE TradeInTime
      BY <2>1, TradeKeeps
    <2>2. CASE WorkerFinalize
      BY <2>2, FinalizeKeeps
    <2>3. CASE WorkerEvaluate
      BY <2>3, EvaluateKeeps
    <2>4. CASE Midnight
      BY <2>4, MidnightKeeps
    <2>5. CASE WorkerStart \/ WorkerCrash \/ UNCHANGED vars
      <3>1. UNCHANGED <<book, open, today>>
        BY <2>5 DEF WorkerStart, WorkerCrash, vars
      <3> QED BY <3>1 DEF IInv, Settled, Clear, Live
    <2> QED BY <2>1, <2>2, <2>3, <2>4, <2>5 DEF NextInTime, Worker
  <1> QED BY <1>1, <1>2, InTimeTypes, PTL DEF SpecInTime

\* Only elapsed days are finalized, on the balance of their ledger.
ClosedOnTheLedger == \A d \in Finalized : d < today /\ book.rows[d].eod = book.bal[d]

\* When no command is overtaken, the end of day balance of a finalized row is that
\* of its day's ledger for good.  (A command that waited until the worker had
\* finalized its day books on a finalized day.)
THEOREM EodStaysOnTheLedger == SpecInTime => []EodIsTheLedger
  <1>1. Init => ClosedOnTheLedger
    BY DEF Init, Activated, NoRow, ClosedOnTheLedger, Finalized, DaysThat
  <1>2. TypeOK /\ IInv /\ ClosedOnTheLedger /\ [NextInTime]_vars => ClosedOnTheLedger'
    <2> SUFFICES ASSUME TypeOK, IInv, ClosedOnTheLedger, [NextInTime]_vars
                 PROVE  ClosedOnTheLedger'
      OBVIOUS
    <2>1. ASSUME NEW day \in Days, Newest(day), day <= today, Moves(day), UNCHANGED today
          PROVE  ClosedOnTheLedger'
      <3>1. \A d \in Finalized : d < day
        BY <2>1, NewestInOrder DEF InOrder, Chain, RowsInOrder, Finalized
      <3>2. \A d \in Days : d < day => d < today
        BY <2>1, DaysType, SMT DEF TypeOK
      <3> QED BY <2>1, <3>1, <3>2
           DEF Moves, OnTheLedger, ClosedOnTheLedger, Finalized, DaysThat
    <2>2. CASE TradeInTime
      <3>1. PICK day \in Clocks, amount \in Int, u \in Int, holding \in BOOLEAN :
              Newest(day) /\ Book(day, amount, u, holding)
        BY <2>2, DailyRiskAssumption
           DEF TradeInTime, TradeOn, OpenPosition, ClosePosition, ModifyPositionRisk
      <3> QED BY <2>1, <3>1, BookMoves DEF Clocks
    <2>3. CASE WorkerFinalize \/ WorkerEvaluate
      <3>1. today \in Days /\ today <= today /\ UNCHANGED today
        BY <2>3, DaysType, SMT DEF TypeOK, WorkerFinalize, WorkerEvaluate
      <3>2. Newest(today)
        <4>1. RowsInOrder(book, today)
          BY DEF IInv, InOrder, Chain
        <4>2. \A d \in Days : book.rows[d].st \in {"none", "open", "finalized"}
          BY DEF TypeOK, Books, Rows
        <4>3. CASE DaysThat(book, "open") = {}
          BY <4>1, <4>2, <4>3 DEF RowsInOrder, DaysThat, Newest
        <4>4. ASSUME NEW e \in DaysThat(book, "open")
              PROVE  Newest(today)
          <5>1. e <= today /\ \A d \in Days : book.rows[d].st # "none" => d <= e
            BY <4>1, <4>4 DEF RowsInOrder
          <5>2. e \in Days
            BY <4>4 DEF DaysThat
          <5> QED BY <5>1, <5>2, DaysType, SMT DEF Newest, TypeOK
        <4> QED BY <4>3, <4>4
      <3> QED BY <2>1, <2>3, <3>1, <3>2, WorkerMoves
    <2>4. CASE Midnight
      <3>1. UNCHANGED book /\ \A d \in Days : d < today => d < today'
        BY <2>4, DaysType, SMT DEF Midnight, TypeOK
      <3> QED BY <3>1 DEF ClosedOnTheLedger, Finalized, DaysThat
    <2>5. CASE WorkerStart \/ WorkerCrash \/ UNCHANGED vars
      BY <2>5 DEF WorkerStart, WorkerCrash, vars, ClosedOnTheLedger, Finalized
    <2> QED BY <2>2, <2>3, <2>4, <2>5 DEF NextInTime, Worker
  <1>3. ClosedOnTheLedger => EodIsTheLedger
    BY DEF ClosedOnTheLedger, EodIsTheLedger
  <1> QED BY <1>1, <1>2, <1>3, InTimeTypes, ChainInvariant, PTL DEF SpecInTime

\* TrailingFloor is the floor that trails the highest of the days.
LEMMA TrailingIsTop ==
  ASSUME book \in Books, NEW days \in SUBSET Days, NEW h, IsTop(h, book, days)
  PROVE  TrailingFloor(days) = Trailing(h)
  <1> DEFINE eods == {Nominal} \cup {book.rows[d].eod : d \in days}
  <1>1. h \in eods /\ \A x \in eods : h >= x
    BY DEF IsTop
  <1>2. eods \subseteq Int
    BY RulesAssumption DEF Books, Rows
  <1> HIDE DEF eods
  <1>3. ASSUME NEW x \in eods, \A y \in eods : x >= y PROVE x = h
    <2>1. x \in Int /\ h \in Int /\ x >= h /\ h >= x
      BY <1>1, <1>2, <1>3
    <2> QED BY <2>1, SMT
  <1>4. Max(eods) = h
    BY <1>1, <1>3 DEF Max
  <1> QED BY <1>4 DEF TrailingFloor, Trailing, eods

\* ONE-021: the floors that the rows hand on, whoever finalized them, are the
\* Rulebook's over the whole history: every day starts on the floor that trails
\* the days before it and ends on the one that counts its own balance.
THEOREM FloorTrails == SpecInTime => []FloorIsTrailing
  <1>1. TypeOK /\ IInv => FloorIsTrailing
    <2> SUFFICES ASSUME TypeOK, IInv, NEW d \in Days
                 PROVE  LET before == {e \in Finalized : e < d}
                        IN  /\ book.rows[d].st # "none" =>
                                 book.rows[d].floorBefore = TrailingFloor(before)
                            /\ d \in Finalized =>
                                 book.rows[d].floorAfter = TrailingFloor(before \cup {d})
      BY DEF FloorIsTrailing
    <2>1. {e \in Finalized : e < d} = Before(book, d)
      BY DEF Finalized, Before
    <2>2. book \in Books /\ Before(book, d) \in SUBSET Days /\ Until(book, d) \in SUBSET Days
      BY DEF TypeOK, Before, Until, DaysThat
    <2>3. ASSUME book.rows[d].st # "none"
          PROVE  book.rows[d].floorBefore = TrailingFloor(Before(book, d))
      BY <2>2, <2>3, TrailingIsTop DEF IInv, InOrder, Chain, RowsTrail
    <2>4. ASSUME d \in Finalized
          PROVE  book.rows[d].floorAfter = TrailingFloor(Before(book, d) \cup {d})
      <3>1. Before(book, d) \cup {d} = Until(book, d)
        <4>1. \A e \in Days : e <= d <=> e < d \/ e = d
          BY DaysType, SMT
        <4> QED BY <2>4, <4>1 DEF Before, Until, Finalized, DaysThat
      <3>2. /\ IsTop(book.rows[d].highest, book, Until(book, d))
            /\ book.rows[d].floorAfter = Trailing(book.rows[d].highest)
        BY <2>4 DEF IInv, InOrder, Chain, RowsTrail, Finalized
      <3> QED BY <2>2, <3>1, <3>2, TrailingIsTop
    <2> QED BY <2>1, <2>3, <2>4
  <1> QED BY <1>1, InTimeTypes, ChainInvariant, PTL

\* A live account without a position has more than the floor in force, also
\* between the worker's two transactions and after a run that stopped there.
THEOREM SettledStaysAbove == SpecInTime => []SettledAboveFloor
  <1>1. TypeOK /\ IInv => SettledAboveFloor
    <2> SUFFICES ASSUME TypeOK, IInv, Live, ~open PROVE Balance(book) > FloorInForce(book)
      BY DEF SettledAboveFloor
    <2> DEFINE days == {d \in Days : book.rows[d].st # "none"}
    <2>0. book \in Books
      BY DEF TypeOK
    <2>1. CASE DaysThat(book, "open") = {}
      <3>1. days = {}
        BY <2>0, <2>1 DEF IInv, InOrder, Chain, RowsInOrder, DaysThat, Books, Rows
      <3>2. FloorInForce(book) = InitialMaximumLossFloor
        BY <3>1 DEF FloorInForce
      <3>3. Balance(book) = Nominal
        BY <2>1, DaysType DEF IInv, InOrder, Untouched, Balance
      <3> QED BY <3>2, <3>3, RulesAssumption, SMT DEF InitialMaximumLossFloor
    <2>2. CASE DaysThat(book, "open") # {}
      <3>1. PICK e \in Days : book.rows[e].st = "open"
        BY <2>2 DEF DaysThat
      <3>2. e \in days /\ \A d \in days : d <= e
        BY <3>1 DEF IInv, InOrder, Chain, RowsInOrder, DaysThat
      <3>3. days \subseteq Int
        BY DaysType
      <3>4. FloorInForce(book) = IF days = {} THEN InitialMaximumLossFloor
              ELSE IF book.rows[Max(days)].st = "open" THEN book.rows[Max(days)].floorBefore
                   ELSE book.rows[Max(days)].floorAfter
        BY DEF FloorInForce
      <3> HIDE DEF days
      <3>5. Max(days) = e
        <4>1. \A d \in days : e >= d
          BY <3>2, <3>3, SMT
        <4>2. \A x \in days : (\A y \in days : x >= y) => x = e
          BY <3>2, <3>3, SMT
        <4> QED BY <3>2, <4>1, <4>2 DEF Max
      <3>6. FloorInForce(book) = book.rows[e].floorBefore
        BY <3>1, <3>2, <3>4, <3>5
      <3> QED BY <3>1, <3>6 DEF IInv, Settled, Above, DaysThat
    <2> QED BY <2>1, <2>2
  <1> QED BY <1>1, InTimeTypes, ChainInvariant, PTL

\* The worker's evaluation, which prices no position, takes nothing from an
\* account that holds none: it neither breaches nor locks it.
THEOREM SettledOnlyAdvance == SpecInTime => SettledAccountsOnlyAdvance
  <1>1. TypeOK /\ IInv => [WorkerEvaluate /\ ~open /\ Live =>
                             book'.status \in {book.status, "active", "passed"}]_vars
    <2> SUFFICES ASSUME TypeOK, IInv, WorkerEvaluate, ~open, Live
                 PROVE  book'.status \in {book.status, "active", "passed"}
      OBVIOUS
    <2> DEFINE caught == CaughtUp(book, today, 0)
               in == EngineInput(caught, today, 0, open)
               to == RecommendedStatus(in)
               risk == Evaluated(book, today, 0, open, "daily_finalization")
    <2>1. book' = risk.book \/ book' = book
      BY DEF WorkerEvaluate
    <2>2. /\ caught \in Books
          /\ risk.book.status = IF to = "pass_pending" THEN "passed" ELSE to
      BY EvaluationSets DEF TypeOK
    <2>3. CatchesUp(book, caught, today, Balance(book))
      <3>1. Balance(book) \in Int /\ Balance(book) + 0 = Balance(book)
        BY BalanceType DEF TypeOK
      <3>2. DailyReference(Balance(book), Balance(book)) = Balance(book)
        BY DEF DailyReference, Larger
      <3> QED BY <3>1, <3>2, CatchUpCases DEF CaughtUp, TypeOK, IInv, InOrder, Chain
    <2> HIDE DEF caught
    <2>4. /\ in.status = caught.status /\ in.equity = Balance(caught) + 0
          /\ in.reference = caught.rows[today].reference
          /\ in.floor = caught.rows[today].floorBefore
      BY DEF EngineInput
    <2> HIDE DEF in, risk
    <2>5. /\ Above(book)
          /\ book.status = "active" => Unlocked(book)
          /\ book.status \in {"active", "soft_locked", "pass_pending"}
      BY DEF IInv, Settled, Clear, Live
    <2>6. /\ Above(caught)
          /\ Unlocked(book) \/ caught.status # book.status => Unlocked(caught)
      BY <2>3, <2>5, CatchUpIsHarmless DEF TypeOK, IInv, InOrder
    <2>7. caught.status = book.status \/ (book.status = "soft_locked" /\ caught.status = "active")
      BY <2>3 DEF CatchesUp, Starts, TakesOver
    <2>8. today \in DaysThat(caught, "open")
      BY <2>3, CatchUpChains DEF TypeOK, IInv, InOrder, DaysThat
    <2>9. /\ Balance(caught) + 0 = Balance(caught)
          /\ Balance(caught) > in.floor
          /\ caught.status = "active" => Balance(caught) > DailyLossFloor(in.reference)
      BY <2>2, <2>4, <2>5, <2>6, <2>7, <2>8, BalanceType DEF Above, Unlocked
    <2>10. /\ Balance(caught) \in Int /\ in.floor \in Int /\ DailyLossFloor(in.reference) \in Int
      BY <2>2, <2>4, RulesAssumption, BalanceType DEF Books, Rows, DailyLossFloor, TypeOK
    <2>11. /\ ~MaximumLossBreached(in.equity, in.floor)
           /\ in.status = "active" => ~SoftLockTriggered(in.equity, in.reference)
      <3>1. in.equity = Balance(caught)
        BY <2>4, <2>9
      <3>2. ~(Balance(caught) <= in.floor)
        BY <2>9, <2>10, SMT
      <3>3. in.status = "active" => ~(Balance(caught) <= DailyLossFloor(in.reference))
        BY <2>4, <2>9, <2>10, SMT
      <3> QED BY <3>1, <3>2, <3>3 DEF MaximumLossBreached, SoftLockTriggered
    <2>12. to \in {in.status, "pass_pending", "active"}
      BY <2>11 DEF RecommendedStatus
    <2> HIDE DEF to
    <2> QED BY <2>1, <2>2, <2>4, <2>5, <2>7, <2>12
  <1> QED BY <1>1, InTimeTypes, ChainInvariant, PTL DEF SettledAccountsOnlyAdvance
=============================================================================

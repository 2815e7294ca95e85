----------------------------- MODULE DailyRisk ------------------------------
(***************************************************************************)
(* The days of one Evaluation account: trading commands, the daily         *)
(* finalization worker and the UTC midnight, interleaved.                  *)
(*                                                                         *)
(* Each command is one transaction that holds the account's row, so it is  *)
(* one step; what it fills is left to the amount it posts and the profit   *)
(* it leaves unrealized (AccountTrading has the positions and the orders). *)
(* Its `now` was read before it waited for the lock: the day it books on   *)
(* may already be over, by up to Lag days.  The worker works through two   *)
(* transactions and may die before, between or after them.                 *)
(***************************************************************************)
EXTENDS AccountBook

CONSTANTS Amounts,     \* what a command may post to the ledger
          Unrealized,  \* the profit it may leave in open positions
          Lag,         \* how many days a command's `now` may be behind
          MaxSwing,    \* bound: the balance stays within Nominal +- MaxSwing
          MaxCrashes   \* bound: the crashes of the worker

ASSUME DailyRiskAssumption ==
  /\ Amounts \subseteq Int
  /\ Unrealized \subseteq Int /\ 0 \in Unrealized
  /\ Lag \in Nat
  /\ MaxSwing \in Nat
  /\ MaxCrashes \in Nat

VARIABLES book,     \* the account's rows
          open,     \* has the account an open position?
          today,    \* the UTC day
          worker,   \* idle; due (account picked); finalized (first transaction done)
          crashes   \* worker crashes so far

vars == <<book, open, today, worker, crashes>>

TypeOK ==
  /\ book \in Books
  /\ open \in BOOLEAN
  /\ today \in Days
  /\ worker \in {"idle", "due", "finalized"}
  /\ crashes \in Nat

Init ==
  /\ book = Activated
  /\ open = FALSE
  /\ today = 0
  /\ worker = "idle"
  /\ crashes = 0

-----------------------------------------------------------------------------
(* Trading commands.                                                       *)

Clocks == {d \in Days : d <= today /\ today <= d + Lag}
InSwing(balance) == Nominal - MaxSwing <= balance /\ balance <= Nominal + MaxSwing

\* The tail of every command: post, evaluate, and on a breach close every
\* position that has a quote, which posts again and may leave some open.  The
\* evaluations of the forced closes find the account breached and leave it.
Book(day, amount, unrealized, holding) ==
  LET posted == Post(book, day, amount)
      risk == Evaluated(posted, day, unrealized, holding, "trade_order")
  IN  /\ InSwing(Balance(posted))
      /\ risk.commits
      /\ IF risk.breaches
         THEN \E forced \in {0} \cup Amounts, left \in BOOLEAN :
                /\ left \/ forced # 0 => holding
                /\ book' = Post(risk.book, day, forced)
                /\ open' = left
         ELSE book' = risk.book /\ open' = holding
      /\ UNCHANGED <<today, worker, crashes>>

\* openPosition: the commission is posted, the position is open.
OpenPosition(day, amount, unrealized) ==
  /\ book.status \in {"active", "pass_pending"}
  /\ amount <= 0
  /\ Book(day, amount, unrealized, TRUE)

\* closePosition of one position, wholly or partly: others may stay open.
ClosePosition(day, amount, unrealized, holding) ==
  /\ book.status \in {"active", "soft_locked", "breached"}
  /\ open
  /\ ~holding => unrealized = 0
  /\ Book(day, amount, unrealized, holding)

\* modifyPositionRisk
ModifyPositionRisk(day, unrealized) ==
  /\ book.status \in {"active", "soft_locked"}
  /\ open
  /\ Book(day, 0, unrealized, TRUE)

TradeOn(day) ==
  \E u \in Unrealized :
    \/ \E x \in Amounts : OpenPosition(day, x, u)
    \/ \E x \in Amounts, holding \in BOOLEAN : ClosePosition(day, x, u, holding)
    \/ ModifyPositionRisk(day, u)

Trade == \E day \in Clocks : TradeOn(day)

\* A command that midnight may have passed while it waited, but no other command
\* and no worker of the new day: the account has no row of a later day.
Newest(day) == \A d \in Days : book.rows[d].st # "none" => d <= day
TradeInTime == \E day \in Clocks : Newest(day) /\ TradeOn(day)

-----------------------------------------------------------------------------
(* The worker.                                                             *)

\* The poll finds the account due.
WorkerStart ==
  /\ worker = "idle"
  /\ DueForFinalization(book, today)
  /\ worker' = "due"
  /\ UNCHANGED <<book, open, today, crashes>>

WorkerFinalize ==
  /\ worker = "due"
  /\ book' = FinalizeDailyBoundary(book, today)
  /\ worker' = "finalized"
  /\ UNCHANGED <<open, today, crashes>>

\* The second transaction prices nothing: marketBySymbol is empty.  An
\* evaluation that aborts is logged and the account left for a later run.
WorkerEvaluate ==
  /\ worker = "finalized"
  /\ LET risk == Evaluated(book, today, 0, open, "daily_finalization")
     IN  book' = IF risk.commits THEN risk.book ELSE book
  /\ worker' = "idle"
  /\ UNCHANGED <<open, today, crashes>>

WorkerCrash ==
  /\ worker # "idle"
  /\ crashes < MaxCrashes
  /\ crashes' = crashes + 1
  /\ worker' = "idle"
  /\ UNCHANGED <<book, open, today>>

Midnight ==
  /\ today < MaxDay
  /\ today' = today + 1
  /\ UNCHANGED <<book, open, worker, crashes>>

Worker == WorkerStart \/ WorkerFinalize \/ WorkerEvaluate \/ WorkerCrash

Next == Trade \/ Worker \/ Midnight

Spec == Init /\ [][Next]_vars

\* The behaviours in which no command is overtaken by one of a later day.
NextInTime == TradeInTime \/ Worker \/ Midnight
SpecInTime == Init /\ [][NextInTime]_vars

\* The poll timer fires again and again, and a run that started goes on: its
\* transactions wait for no one.  Nothing makes a trader trade.
RunGoesOn ==
  /\ worker # "idle"
  /\ worker' = IF worker = "due" THEN "finalized" ELSE "idle"
  /\ UNCHANGED crashes
FairSpec == SpecInTime /\ WF_vars(WorkerStart) /\ WF_<<worker, crashes>>(RunGoesOn)

-----------------------------------------------------------------------------
(* Properties.                                                             *)

Live == book.status \in {"active", "soft_locked", "pass_pending"}
Finalized == DaysThat(book, "finalized")

\* The Rulebook's floor, from the whole history: it trails the highest end of
\* day balance by the maximum loss and stops at the nominal balance.
TrailingFloor(days) ==
  Smaller(Nominal, Max({Nominal} \cup {book.rows[d].eod : d \in days}) - MaximumLoss)

\* ONE-021: the floors that finalizations carry from row to row, whoever ran
\* them, are the Rulebook's: a day starts on the floor of the days finalized
\* before it and ends on the floor that counts its own end of day balance.
FloorIsTrailing ==
  \A d \in Days :
    LET before == {e \in Finalized : e < d}
    IN  /\ book.rows[d].st # "none" => book.rows[d].floorBefore = TrailingFloor(before)
        /\ d \in Finalized => book.rows[d].floorAfter = TrailingFloor(before \cup {d})

\* Every floor lies between the initial one and the nominal balance, however
\* late the commands' clocks are.
FloorsAreBounded == FloorsBounded(book)

\* The end of day balance a finalization writes is that of the day's ledger and
\* stays so: nothing is booked on a finalized day.
EodIsTheLedger == \A d \in Finalized : book.rows[d].eod = book.bal[d]

\* An account that is still live and holds no position has more than the floor
\* in force, also in between the worker's two transactions.
SettledAboveFloor == Live /\ ~open => Balance(book) > FloorInForce(book)

\* A finalized row is never written again.
FinalizedIsFrozen ==
  [][\A d \in Days : book.rows[d].st = "finalized" => book'.rows[d] = book.rows[d]]_vars

\* The worker prices no position.  For an account that holds none its
\* evaluation takes nothing away: it neither breaches nor locks the account.
SettledAccountsOnlyAdvance ==
  [][WorkerEvaluate /\ ~open /\ Live => book'.status \in {book.status, "active", "passed"}]_vars

\* An elapsed day of a live account is finalized, by the worker or by a trade.
ElapsedDaysAreFinalized ==
  \A d \in Days :
    (Live /\ book.rows[d].st = "open" /\ d < today) ~> (book.rows[d].st = "finalized" \/ ~Live)
=============================================================================

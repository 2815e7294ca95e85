---------------------------- MODULE AccountBook -----------------------------
(***************************************************************************)
(* One Evaluation account as the database keeps it: its status, its ledger *)
(* and its daily snapshots, with the functions that the trading commands   *)
(* and the daily worker run on it inside their transactions                *)
(* (packages/database/src/risk.ts and daily-finalization.ts).              *)
(*                                                                         *)
(* The ledger is kept as its balances: bal[d] sums the entries whose       *)
(* occurred_at falls on day d or before.  Short-duration eligibility is    *)
(* off, so the account, program and risk balances are one.                 *)
(***************************************************************************)
EXTENDS RiskRules, FiniteSetsExt

CONSTANT MaxDay     \* bound: the last UTC day

ASSUME DayAssumption == MaxDay \in Nat

Days == 0..MaxDay

Rows == [st: {"none", "open", "finalized"}, sod: Int, reference: Int,
         floorBefore: Int, eod: Int, floorAfter: Int, highest: Int]
NoRow == [st |-> "none", sod |-> 0, reference |-> 0,
          floorBefore |-> 0, eod |-> 0, floorAfter |-> 0, highest |-> 0]

Books == [status: Statuses, bal: [Days -> Int], rows: [Days -> Rows]]

\* An activated account: active, its nominal balance on the ledger, no snapshot.
Activated == [status |-> "active",
              bal    |-> [d \in Days |-> Nominal],
              rows   |-> [d \in Days |-> NoRow]]

Balance(b) == b.bal[MaxDay]
Post(b, day, amount) ==
  [b EXCEPT !.bal = [d \in Days |-> IF d >= day THEN b.bal[d] + amount ELSE b.bal[d]]]

-----------------------------------------------------------------------------
(* Daily snapshots.                                                        *)

DaysThat(b, st) == {d \in Days : b.rows[d].st = st}
IsLatest(b, st, d) == d \in DaysThat(b, st) /\ \A e \in DaysThat(b, st) : e <= d
HasLatest(b, st) == \E d \in Days : IsLatest(b, st, d)
Latest(b, st) == CHOOSE d \in Days : IsLatest(b, st, d)

\* A wrong previous floor: the history is not read.
FloorStartsOver(b) == InitialMaximumLossFloor
PreviousFloor(b) ==
  IF HasLatest(b, "finalized") THEN b.rows[Latest(b, "finalized")].floorAfter
  ELSE InitialMaximumLossFloor
PreviousHighest(b) ==
  IF HasLatest(b, "finalized") THEN b.rows[Latest(b, "finalized")].highest
  ELSE Nominal

\* The day's row, opened on the balance and equity the caller gives; before any
\* day is finalized, on the nominal balance.
NewRow(b, balance, equity) ==
  LET first == ~HasLatest(b, "finalized")
      sod == IF first THEN Nominal ELSE balance
  IN  [st |-> "open", sod |-> sod,
       reference |-> IF first THEN Nominal ELSE DailyReference(sod, equity),
       floorBefore |-> PreviousFloor(b), eod |-> 0, floorAfter |-> 0, highest |-> 0]

\* A wrong day's row: an upsert in place of the insert that does nothing.
UpsertedSnapshot(b, day, balance, equity) ==
  [b EXCEPT !.rows = [b.rows EXCEPT ![day] = NewRow(b, balance, equity)]]
EnsureTodaySnapshot(b, day, balance, equity) ==
  IF b.rows[day].st # "none" THEN b
  ELSE [b EXCEPT !.rows = [b.rows EXCEPT ![day] = NewRow(b, balance, equity)]]

\* Only the most recent open row, and only once its day has elapsed.
BoundaryElapsed(b, day) == HasLatest(b, "open") /\ Latest(b, "open") < day

\* A wrong finalization: on the live balance, not that at the boundary.
RowOnLiveBalance(b, d) ==
  [b.rows[d] EXCEPT !.st = "finalized", !.eod = Balance(b),
     !.highest = Larger(PreviousHighest(b), Balance(b)),
     !.floorAfter = NextMaximumLossFloor(b.rows[d].floorBefore,
                                         Larger(PreviousHighest(b), Balance(b)))]
FinalizedRow(b, d) ==
  LET highest == Larger(PreviousHighest(b), b.bal[d])
  IN  [b.rows[d] EXCEPT !.st = "finalized", !.eod = b.bal[d], !.highest = highest,
         !.floorAfter = NextMaximumLossFloor(b.rows[d].floorBefore, highest)]

FinalizeElapsedDay(b, day) ==
  IF ~BoundaryElapsed(b, day) THEN b
  ELSE LET d == Latest(b, "open")
       IN  [b EXCEPT !.rows = [b.rows EXCEPT ![d] = FinalizedRow(b, d)],
                     !.status = IF b.status = "soft_locked" THEN "active" ELSE b.status]

\* A wrong boundary: the next day opens on the nominal balance.
FinalizeOnNominal(b, day) ==
  EnsureTodaySnapshot(FinalizeElapsedDay(b, day), day, Nominal, Nominal)

\* finalizeDailyBoundaryForAccount: the worker's first transaction.
FinalizeDailyBoundary(b, day) ==
  LET opening == IF BoundaryElapsed(b, day) THEN b.bal[Latest(b, "open")] ELSE Balance(b)
  IN  EnsureTodaySnapshot(FinalizeElapsedDay(b, day), day, opening, opening)

\* A wrong due list: the soft-locked accounts are left out.
ActiveIsDue(b, day) ==
  /\ b.status \in {"active", "pass_pending"}
  /\ \E d \in DaysThat(b, "open") : d < day

\* listAccountsDueForFinalization
DueForFinalization(b, day) ==
  /\ b.status \in {"active", "soft_locked", "pass_pending"}
  /\ \E d \in DaysThat(b, "open") : d < day

-----------------------------------------------------------------------------
(* evaluateAndApplyAccountRisk.                                            *)

\* The snapshot chain caught up to day; the balance and the equity were read
\* before.
CaughtUp(b, day, unrealized) ==
  EnsureTodaySnapshot(FinalizeElapsedDay(b, day), day, Balance(b), Balance(b) + unrealized)

Profit(b, d) == b.rows[d].eod - b.rows[d].sod
ProfitableDays(b, day) ==
  {d \in DaysThat(b, "finalized") : d <= day /\ Profit(b, d) > 0}

BestProfit(b, day) == Max({0} \cup {Profit(b, d) : d \in ProfitableDays(b, day)})
ProfitSum(b, day) == MapThenSumSet(LAMBDA d : Profit(b, d), ProfitableDays(b, day))

EngineInput(b, day, unrealized, openPositions) ==
  [status        |-> b.status,
   balance       |-> Balance(b),
   equity        |-> Balance(b) + unrealized,
   openPositions |-> openPositions,
   reference     |-> b.rows[day].reference,
   floor         |-> b.rows[day].floorBefore,
   best          |-> BestProfit(b, day),
   sum           |-> ProfitSum(b, day)]

\* The account after the evaluation, and whether the evaluation commits: a
\* recommendation the status machine does not list (assertEvaluationAccount-
\* Transition) aborts the caller's whole transaction.  Only the worker's
\* finalization turns a recommended pass into a pass.
Evaluated(b, day, unrealized, openPositions, trigger) ==
  LET caught == CaughtUp(b, day, unrealized)
      to == RecommendedStatus(EngineInput(caught, day, unrealized, openPositions))
  IN  [commits  |-> to = caught.status \/ to \in Transitions[caught.status],
       breaches |-> to = "breached" /\ caught.status # "breached",
       book     |-> [caught EXCEPT !.status =
                      IF trigger = "daily_finalization" /\ to = "pass_pending"
                      THEN "passed" ELSE to]]

FloorsBounded(b) ==
  \A d \in Days :
    /\ b.rows[d].st # "none" =>
         b.rows[d].floorBefore \in InitialMaximumLossFloor..Nominal
    /\ b.rows[d].st = "finalized" =>
         b.rows[d].floorAfter \in InitialMaximumLossFloor..Nominal

\* The floor in force: that of the most recent row.
FloorInForce(b) ==
  LET days == {d \in Days : b.rows[d].st # "none"}
  IN  IF days = {} THEN InitialMaximumLossFloor
      ELSE LET last == b.rows[Max(days)]
           IN  IF last.st = "open" THEN last.floorBefore ELSE last.floorAfter
=============================================================================

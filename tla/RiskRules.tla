----------------------------- MODULE RiskRules ------------------------------
(***************************************************************************)
(* The rules of an Evaluation account as pure functions: the arithmetic of *)
(* packages/domain/src/risk-math.ts, the status machine of                 *)
(* state-machines.ts and the decision of evaluateAccountRisk in            *)
(* packages/policies/src/risk-engine.ts.                                   *)
(*                                                                         *)
(* Money is an integer.  A rate of the policy is the amount it comes to on *)
(* the account's nominal balance; the Best Day ratio is a percentage.      *)
(***************************************************************************)
EXTENDS Integers

CONSTANTS Nominal,      \* nominal_balance
          MaximumLoss,  \* nominal_balance * maximum_loss_rate
          DailyLoss,    \* nominal_balance * daily_loss_rate
          ProfitTarget, \* nominal_balance * profit_target_rate
          BestDayMax    \* best_day_max_ratio, in percent

ASSUME RulesAssumption ==
  /\ Nominal \in Int
  /\ MaximumLoss \in Nat \ {0}
  /\ DailyLoss \in Nat \ {0}
  /\ ProfitTarget \in Nat \ {0}
  /\ BestDayMax \in 0..100

Larger(x, y) == IF x >= y THEN x ELSE y
Smaller(x, y) == IF x <= y THEN x ELSE y

-----------------------------------------------------------------------------
(* The status machine.                                                     *)

Statuses == {"pending_activation", "active", "soft_locked", "pass_pending",
             "inactive", "passed", "breached", "closed"}

\* EVALUATION_ACCOUNT_TRANSITIONS
Transitions == [
  pending_activation |-> {"active", "closed"},
  active             |-> {"soft_locked", "pass_pending", "inactive", "breached", "closed"},
  soft_locked        |-> {"active", "breached", "closed"},
  pass_pending       |-> {"passed", "active", "breached"},
  inactive           |-> {"active", "closed"},
  passed             |-> {},
  breached           |-> {},
  closed             |-> {}]

-----------------------------------------------------------------------------
(* Loss limits.  A day's row carries its reference and its floor.          *)

DailyReference(balance, equity) == Larger(balance, equity)
DailyLossFloor(reference) == reference - DailyLoss
SoftLockTriggered(equity, reference) == equity <= DailyLossFloor(reference)

InitialMaximumLossFloor == Nominal - MaximumLoss
NextMaximumLossFloor(previousFloor, highestEod) ==
  Smaller(Nominal, Larger(previousFloor, highestEod - MaximumLoss))
\* A wrong breach: equity on the floor survives.
BreachedBelowFloor(equity, floor) == equity < floor
MaximumLossBreached(equity, floor) == equity <= floor

-----------------------------------------------------------------------------
(* Passing.                                                                *)

TargetReached(balance) == balance - Nominal >= ProfitTarget

\* The best finalized day and the sum of the profitable ones.  Without a
\* profitable day the ratio is null, which is not compliant.
BestDayCompliant(best, sum) == sum > 0 /\ 100 * best <= BestDayMax * sum

\* What the engine reads of an account: status, balance, equity, openPositions
\* (is there one), the reference and floor of the current day, best and sum of
\* the finalized profitable days.  pendingOrderCount is always passed as 0.
PassEligible(in) ==
  /\ ~MaximumLossBreached(in.equity, in.floor)
  /\ TargetReached(in.balance)
  /\ BestDayCompliant(in.best, in.sum)
  /\ ~in.openPositions

\* recommendedStatus of evaluateAccountRisk: the first rule that applies.
RecommendedStatus(in) ==
  IF MaximumLossBreached(in.equity, in.floor) THEN "breached"
  ELSE IF PassEligible(in) /\ in.status \in {"active", "soft_locked"} THEN "pass_pending"
  ELSE IF in.status = "active" /\ SoftLockTriggered(in.equity, in.reference) THEN "soft_locked"
  ELSE IF in.status = "soft_locked" /\ ~SoftLockTriggered(in.equity, in.reference) THEN "active"
  ELSE in.status
=============================================================================

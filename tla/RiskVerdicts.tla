---------------------------- MODULE RiskVerdicts ----------------------------
(***************************************************************************)
(* What an evaluation of evaluateAndApplyAccountRiskInTransaction may make *)
(* of an Evaluation account, whatever its amounts: for the modules that    *)
(* keep no amounts.  AccountBook has the rules themselves.                 *)
(***************************************************************************)

Statuses == {"active", "soft_locked", "pass_pending", "passed", "breached"}

\* The statuses an evaluation may leave, at the end of a filled command.
Verdicts(status, flat) ==
  {status} \cup
  (CASE status = "active" -> {"soft_locked", "breached"}
                              \cup (IF flat THEN {"pass_pending"} ELSE {})
     [] status = "soft_locked" -> {"active", "breached"}
     [] status = "pass_pending" -> {"breached"}
     [] OTHER -> {})

\* The evaluation may recommend pass_pending under a soft lock, which the status
\* table does not list: the command is rolled back.
MayRollBack(status, flat) == status = "soft_locked" /\ flat

\* The statuses that the worker's finalization, which prices nothing, may set.
Finalizations(status, flat) ==
  (Verdicts(status, flat) \ {status, "pass_pending"})
    \cup (IF status = "pass_pending" \/ (status = "active" /\ flat) THEN {"passed"} ELSE {})
=============================================================================

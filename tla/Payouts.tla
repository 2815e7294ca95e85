------------------------------ MODULE Payouts ------------------------------
(***************************************************************************)
(* The payouts of one Performance account: the requests of the trader,     *)
(* their review, the provider that pays and the ledger that is debited     *)
(* (payouts.ts, control-payouts-actions.ts), the cycles a payout closes    *)
(* (performance.ts), the reconciliation that every money step runs first   *)
(* (financial-reconciliation.ts) and the freeze of new exposure while a    *)
(* payout is under review (exposure-gate.ts).                              *)
(*                                                                         *)
(* What runs inside one transaction under the account's row lock is one    *)
(* step.  Three operations are not one transaction.  The realtime service  *)
(* creates a request without any: it checks, inserts and freezes in three  *)
(* commits.  A rejection selects the request without a lock and updates it *)
(* by id.  Submission and settlement read the request, talk to the         *)
(* provider and record what it said.  Each of these can be overtaken, and  *)
(* each can be cut off by a crash.                                         *)
(*                                                                         *)
(* A request is named by its idempotency key.  Trading appears as far as   *)
(* payouts depend on it: an order or a position, and what a close earns.   *)
(***************************************************************************)
EXTENDS FiniteSets, FiniteSetsExt, PayoutMath

CONSTANTS Requests,
          MaxCycles,     \* max_payout_cycles_before_review
          DaysRequired,  \* performance_days_required_per_payout
          DayThreshold,  \* the profit that makes a performance day
          BestDayLimit,  \* best_day_max_ratio, in per cent
          Floor,         \* nominal balance and permanent buffer
          Nominal,       \* the balance the account starts with
          Caps,          \* the cap on the trader's net cash, by cycle
          Splits,        \* the trader's split, by cycle
          DebitNeutral,  \* payout_debit_risk_neutral
          Asks,          \* the net sums a trader asks for, in whole cents
          Results,       \* what closing a position earns
          Standings,     \* of "good", "locked" and "incomplete"
          MaxDay,        \* bound: the days
          TroubleDays,   \* bound: the days on which holds, locks and faults begin
          Balances       \* bound: the balances trading reaches

ASSUME PayoutAssumption ==
  /\ MaxCycles \in Nat \ {0} /\ MaxDay \in Nat \ {0} /\ TroubleDays \subseteq Nat
  /\ DaysRequired \in Nat /\ DayThreshold \in Int /\ BestDayLimit \in Int
  /\ Floor \in Int /\ Nominal \in Int
  /\ Caps \in [1..MaxCycles -> Nat]
  /\ Splits \in [1..MaxCycles -> 1..100]
  /\ Asks \subseteq Nat \ {0} /\ Results \subseteq Int /\ Balances \subseteq Int
  /\ Standings \subseteq {"good", "locked", "incomplete"} /\ "good" \in Standings
  /\ DebitNeutral \in BOOLEAN

VARIABLES request,    \* app.payout_requests
          cycle,      \* the status of each row of app.performance_cycles
          opened,     \* the day a cycle was opened
          review,     \* app.performance_review_cases has the account
          balance,    \* the program-eligible balance
          debited,    \* the requests with a payout_debit in the ledger
          credited,   \* the requests whose debit was reversed
          stray,      \* the ledger holds an entry that no fill explains
          hold,       \* integrity_hold
          standing,   \* the account's status and its compliance flags
          exposure,   \* an active pending order, an open position, neither
          day, profit, finalized,  \* the days, their profit, those finalized
          creating,   \* the creations in flight
          rejecting,  \* the rejections that have read their request
          submitting, \* the submissions in flight
          settling,   \* the answers of the provider that are not recorded
          sent,       \* the requests the provider has a record of
          counted,    \* the performance days an approval rested on
          lapsed,     \* requests whose cycle was not frozen after approval
          overtaken   \* requests that a late rejection took from approval

account == <<balance, debited, credited>>
cycles == <<cycle, opened, review>>
trading == <<standing, exposure>>
calendar == <<day, profit, finalized>>
calls == <<creating, rejecting, submitting, settling>>
history == <<counted, overtaken>>
vars == <<request, cycles, account, stray, hold, trading, calendar, calls,
          sent, history, lapsed>>

Cycles == 1..MaxCycles
Days == 1..MaxDay
Outcomes == {"paid", "failed"}   \* failed stands for returned as well
ActiveStatuses == {"pending_review", "approved", "processing"}
Statuses == ActiveStatuses \cup {"none", "rejected", "paid", "failed", "reversed"}
Unrequested == [status |-> "none", cycle |-> 0, net |-> 0, base |-> 0]
Idle == [step |-> "idle", cycle |-> 0, net |-> 0]

TypeOK ==
  /\ request \in [Requests -> [status: Statuses, cycle: 0..MaxCycles,
                               net: Nat, base: Nat]]
  /\ cycle \in [Cycles -> {"none", "active", "payout_pending", "closed"}]
  /\ opened \in [Cycles -> 0..MaxDay]
  /\ \A c \in Cycles : opened[c] = 0 <=> cycle[c] = "none"
  /\ balance \in Int
  /\ debited \subseteq Requests /\ credited \subseteq Requests
  /\ review \in BOOLEAN /\ stray \in BOOLEAN /\ hold \in BOOLEAN
  /\ standing \in Standings
  /\ exposure \in {"flat", "ordered", "open"}
  /\ day \in Days /\ profit \in [Days -> Int] /\ finalized \subseteq Days
  /\ creating \in [Requests -> [step: {"idle", "checked", "inserted"},
                                cycle: 0..MaxCycles, net: Nat]]
  /\ rejecting \subseteq Requests
  /\ submitting \subseteq Requests
  /\ settling \in [Requests -> SUBSET Outcomes]
  /\ sent \subseteq Requests
  /\ counted \in [Requests -> SUBSET Days]
  /\ lapsed \subseteq Requests /\ overtaken \subseteq Requests

Init ==
  /\ request = [r \in Requests |-> Unrequested]
  /\ cycle = [c \in Cycles |-> IF c = 1 THEN "active" ELSE "none"]
  /\ opened = [c \in Cycles |-> IF c = 1 THEN 1 ELSE 0]
  /\ review = FALSE
  /\ balance = Nominal /\ debited = {} /\ credited = {}
  /\ stray = FALSE /\ hold = FALSE
  /\ standing = "good" /\ exposure = "flat"
  /\ day = 1 /\ profit = [d \in Days |-> 0] /\ finalized = {}
  /\ creating = [r \in Requests |-> Idle] /\ rejecting = {}
  /\ submitting = {}
  /\ settling = [r \in Requests |-> {}]
  /\ sent = {}
  /\ counted = [r \in Requests |-> {}]
  /\ lapsed = {} /\ overtaken = {}

-----------------------------------------------------------------------------
(* Reconciliation and eligibility.                                          *)

(* reconstructAccountFinancialState: the debits and reversals of the ledger *)
(* against the requests that say paid, entry by entry instead of in sums.   *)
Matches ==
  ~stray /\ debited \ credited = {r \in Requests : request[r].status = "paid"}

OpenCycles == {c \in Cycles : cycle[c] \in {"active", "payout_pending"}}
Current == CHOOSE c \in OpenCycles : TRUE

(* A wrong CycleDays: the days of the account, the earlier cycles' too.     *)
AllDays == finalized

CycleDays == {d \in finalized : d >= opened[Current]}
PerformanceDays == {d \in CycleDays : profit[d] >= DayThreshold}
Gains == MapThenSumSet(LAMBDA d : profit[d], {d \in CycleDays : profit[d] > 0})

(* Best day over the sum of the positive days; there must be one.  That the *)
(* code rounds the ratio at its fourth decimal is left out.                 *)
Consistent ==
  /\ Gains > 0
  /\ \A d \in CycleDays : 100 * profit[d] <= BestDayLimit * Gains

Eligible ==
  /\ standing # "locked" /\ ~hold
  /\ balance >= Floor
  /\ Cardinality(PerformanceDays) >= DaysRequired
  /\ Consistent
  /\ exposure = "flat"
  /\ standing # "incomplete"
-----------------------------------------------------------------------------
(* The rows a step changes.                                                 *)

SetStatus(r, s) == request' = [request EXCEPT ![r].status = s]

(* The table's check that a cycle has closed_at exactly when it is closed   *)
(* refuses any other status for a closed one: the transaction rolls back.   *)
(* A wrong SetCycle: a closed cycle is opened again.                        *)
SetAnyCycle(c, s) == cycle' = [cycle EXCEPT ![c] = s]

SetCycle(c, s) == cycle[c] # "closed" /\ cycle' = [cycle EXCEPT ![c] = s]

(* A wrong CloseCycleAndAdvance: a closed cycle is closed again.            *)
CloseAnyCycleAndAdvance(c) ==
  /\ cycle' = [k \in Cycles |->
                 IF k = c THEN "closed"
                 ELSE IF k = c + 1 /\ cycle[k] = "none" THEN "active" ELSE cycle[k]]
  /\ opened' = [k \in Cycles |->
                  IF k = c + 1 /\ cycle[k] = "none" THEN day ELSE opened[k]]
  /\ review' = (review \/ c = MaxCycles)

(* closeCycleAndAdvance: a cycle is closed once and opens the next, or the  *)
(* review case after the last.                                              *)
CloseCycleAndAdvance(c) ==
  /\ cycle[c] # "closed"
  /\ cycle' = [k \in Cycles |->
                 IF k = c THEN "closed"
                 ELSE IF k = c + 1 /\ cycle[k] = "none" THEN "active" ELSE cycle[k]]
  /\ opened' = [k \in Cycles |->
                  IF k = c + 1 /\ cycle[k] = "none" THEN day ELSE opened[k]]
  /\ review' = (review \/ c = MaxCycles)

(* A debit counts against the day unless the policy is neutral about it.    *)
Post(amount) ==
  /\ balance' = balance + amount
  /\ profit' = IF DebitNeutral THEN profit ELSE [profit EXCEPT ![day] = @ + amount]

-----------------------------------------------------------------------------
(* createPayoutRequest, without a transaction around it.                    *)

CheckRequest(r, net) ==
  /\ creating[r].step = "idle" /\ request[r].status = "none"
  /\ Matches /\ OpenCycles # {} /\ Eligible
  /\ creating' = [creating EXCEPT ![r] =
                    [step |-> "checked", cycle |-> Current, net |-> net]]
  /\ UNCHANGED <<request, cycles, account, stray, hold, trading, calendar,
                 rejecting, submitting, settling, sent, history>>

(* payout_requests_cycle_one_active refuses a second open request.          *)
InsertRequest(r) ==
  /\ creating[r].step = "checked" /\ request[r].status = "none"
  /\ \A q \in Requests : request[q].cycle = creating[r].cycle
                           => request[q].status \notin ActiveStatuses
  /\ request' = [request EXCEPT ![r] =
                   [status |-> "pending_review", cycle |-> creating[r].cycle,
                    net |-> creating[r].net, base |-> 0]]
  /\ creating' = [creating EXCEPT ![r].step = "inserted"]
  /\ UNCHANGED <<cycles, account, stray, hold, trading, calendar,
                 rejecting, submitting, settling, sent, history>>

FreezeCycle(r) ==
  /\ creating[r].step = "inserted"
  /\ SetCycle(creating[r].cycle, "payout_pending")
  /\ creating' = [creating EXCEPT ![r] = Idle]
  /\ UNCHANGED <<request, opened, review, account, stray, hold, trading, calendar,
                 rejecting, submitting, settling, sent, history>>

(* The creation ends early: an index or a check refuses it, or a crash.     *)
CreationEnds(r) ==
  /\ creating[r].step # "idle"
  /\ creating' = [creating EXCEPT ![r] = Idle]
  /\ UNCHANGED <<request, cycles, account, stray, hold, trading, calendar,
                 rejecting, submitting, settling, sent, history>>

-----------------------------------------------------------------------------
(* The review: approvePayoutRequest is one transaction, rejectPayoutRequest *)
(* reads without a lock and then updates by id.                             *)

(* requested_gross_base, stored with the net sum that was asked for.         *)
RequestedGross(r) == GrossOf(request[r].net, Splits[request[r].cycle])

Approve(r) ==
  /\ request[r].status = "pending_review"
  /\ Matches /\ OpenCycles # {} /\ Eligible
  /\ LET c == request[r].cycle IN
     request' = [request EXCEPT
       ![r].status = "approved",
       ![r].base = ApprovedGross(EligibleExcess(balance, Floor), RequestedGross(r),
                                 GrossOf(Caps[c], Splits[c]))]
  /\ counted' = [counted EXCEPT ![r] = PerformanceDays]
  /\ UNCHANGED <<cycles, account, stray, hold, trading, calendar, calls,
                 sent, overtaken>>

(* Revalidation fails: a mismatch also places the hold.                     *)
RefuseApproval(r) ==
  /\ request[r].status = "pending_review"
  /\ ~Matches \/ (OpenCycles # {} /\ ~Eligible)
  /\ SetStatus(r, "rejected")
  /\ SetCycle(request[r].cycle, "active")
  /\ hold' = (hold \/ ~Matches)
  /\ UNCHANGED <<opened, review, account, stray, trading, calendar, calls,
                 sent, history>>

ReadForRejection(r) ==
  /\ request[r].status = "pending_review" /\ r \notin rejecting
  /\ rejecting' = rejecting \cup {r}
  /\ UNCHANGED <<request, cycles, account, stray, hold, trading, calendar,
                 creating, submitting, settling, sent, history>>

Reject(r) ==
  /\ r \in rejecting
  /\ SetStatus(r, "rejected")
  /\ SetCycle(request[r].cycle, "active")
  /\ rejecting' = rejecting \ {r}
  /\ submitting' = submitting \ {r} /\ settling' = [settling EXCEPT ![r] = {}]
  /\ overtaken' = IF request[r].status \in {"pending_review", "rejected"}
                   THEN overtaken ELSE overtaken \cup {r}
  /\ UNCHANGED <<opened, review, account, stray, hold, trading, calendar,
                 creating, sent, counted>>

RejectionEnds(r) ==
  /\ r \in rejecting
  /\ rejecting' = rejecting \ {r}
  /\ UNCHANGED <<request, cycles, account, stray, hold, trading, calendar,
                 creating, submitting, settling, sent, history>>
-----------------------------------------------------------------------------
(* Submission and settlement: read, ask the provider, record.  An answer    *)
(* that arrives for a settled request changes nothing and is forgotten.     *)

(* A wrong SubmitToProvider: a request under review is work, too.           *)
SubmitUnreviewed(r) ==
  /\ request[r].status \in {"pending_review", "approved"} /\ r \notin submitting
  /\ submitting' = submitting \cup {r}
  /\ sent' = sent \cup {r}
  /\ UNCHANGED <<request, cycles, account, stray, hold, trading, calendar,
                 creating, rejecting, settling, history>>

(* The provider answers a key it knows with the record it has.              *)
SubmitToProvider(r) ==
  /\ request[r].status = "approved" /\ r \notin submitting
  /\ submitting' = submitting \cup {r}
  /\ sent' = sent \cup {r}
  /\ UNCHANGED <<request, cycles, account, stray, hold, trading, calendar,
                 creating, rejecting, settling, history>>

RecordSubmission(r) ==
  /\ r \in submitting /\ request[r].status = "approved"
  /\ SetStatus(r, "processing")
  /\ submitting' = submitting \ {r}
  /\ UNCHANGED <<cycles, account, stray, hold, trading, calendar,
                 creating, rejecting, settling, sent, history>>

(* A replay, an error or a crash: the request may stay approved.            *)
SubmissionEnds(r) ==
  /\ r \in submitting
  /\ submitting' = submitting \ {r}
  /\ UNCHANGED <<request, cycles, account, stray, hold, trading, calendar,
                 creating, rejecting, settling, sent, history>>

(* settlePayoutRequest: two operators may give the provider two outcomes.   *)
AskProvider(r, outcome) ==
  /\ request[r].status = "processing"
  /\ settling' = [settling EXCEPT ![r] = @ \cup {outcome}]
  /\ UNCHANGED <<request, cycles, account, stray, hold, trading, calendar,
                 creating, rejecting, submitting, sent, history>>

SettlePaid(r) ==
  /\ "paid" \in settling[r] /\ request[r].status = "processing"
  /\ Matches
  /\ SetStatus(r, "paid")
  /\ r \notin debited /\ debited' = debited \cup {r}
  /\ Post(-request[r].base)
  /\ CloseCycleAndAdvance(request[r].cycle)
  /\ settling' = [settling EXCEPT ![r] = {}]
  /\ UNCHANGED <<credited, stray, hold, trading, day, finalized,
                 creating, rejecting, submitting, sent, history>>

RecordFailure(r) ==
  /\ "failed" \in settling[r] /\ request[r].status = "processing"
  /\ SetStatus(r, "failed")
  /\ SetCycle(request[r].cycle, "active")
  /\ settling' = [settling EXCEPT ![r] = {}]
  /\ UNCHANGED <<opened, review, account, stray, hold, trading, calendar,
                 creating, rejecting, submitting, sent, history>>

(* A replay, an error that rolls back, or a crash before the record.        *)
SettlementEnds(r, outcome) ==
  /\ outcome \in settling[r]
  /\ settling' = [settling EXCEPT ![r] = @ \ {outcome}]
  /\ UNCHANGED <<request, cycles, account, stray, hold, trading, calendar,
                 creating, rejecting, submitting, sent, history>>

ReversePayout(r) ==
  /\ request[r].status = "paid" /\ Matches /\ r \in debited
  /\ SetStatus(r, "reversed")
  /\ r \notin credited /\ credited' = credited \cup {r}
  /\ Post(request[r].base)
  /\ UNCHANGED <<cycles, debited, stray, hold, trading, day, finalized, calls,
                 sent, history>>

-----------------------------------------------------------------------------
(* Holds, and the fault they are for.                                       *)

(* A member of staff places it, or a reconciliation that fails.             *)
PlaceHold ==
  /\ day \in TroubleDays /\ ~hold /\ hold' = TRUE
  /\ UNCHANGED <<request, cycles, account, stray, trading, calendar, calls,
                 sent, history>>

ClearHold ==
  /\ hold /\ Matches /\ hold' = FALSE
  /\ UNCHANGED <<request, cycles, account, stray, trading, calendar, calls,
                 sent, history>>

(* An entry without its fill appears, or is repaired, outside this code.    *)
LedgerFault ==
  /\ day \in TroubleDays \/ stray
  /\ stray' = ~stray
  /\ UNCHANGED <<request, cycles, account, hold, trading, calendar, calls,
                 sent, history>>

-----------------------------------------------------------------------------
(* Trading, as far as payouts see it.                                       *)

(* A wrong MayIncreaseExposure: a payout under review freezes nothing.      *)
UnfrozenByPayout == ~hold /\ standing # "locked"

(* findExposureIncreaseRejection, and the account's own status.             *)
MayIncreaseExposure ==
  /\ ~hold /\ \A c \in Cycles : cycle[c] # "payout_pending"
  /\ standing # "locked"

PlaceOrder ==
  /\ exposure = "flat" /\ MayIncreaseExposure /\ exposure' = "ordered"
  /\ UNCHANGED <<request, cycles, account, stray, hold, standing, calendar, calls,
                 sent, history>>

(* Cancelled, or rejected when it triggers.                                 *)
DropOrder ==
  /\ exposure = "ordered" /\ exposure' = "flat"
  /\ UNCHANGED <<request, cycles, account, stray, hold, standing, calendar, calls,
                 sent, history>>

OpenPosition ==
  /\ exposure # "open" /\ MayIncreaseExposure /\ exposure' = "open"
  /\ UNCHANGED <<request, cycles, account, stray, hold, standing, calendar, calls,
                 sent, history>>

(* A trade finalizes the days that have ended before it posts.              *)
ClosePosition(result) ==
  /\ exposure = "open" /\ exposure' = "flat"
  /\ day < MaxDay /\ balance + result \in Balances   \* bounds
  /\ balance' = balance + result
  /\ profit' = [profit EXCEPT ![day] = @ + result]
  /\ finalized' = 1..(day - 1)
  /\ UNCHANGED <<request, cycles, debited, credited, stray, hold, standing, day,
                 calls, sent, history>>

(* The risk engine locks or unlocks; Control sets the compliance flags.     *)
ChangeStanding(s) ==
  /\ day \in TroubleDays \/ s = "good"
  /\ s # standing /\ standing' = s
  /\ UNCHANGED <<request, cycles, account, stray, hold, exposure, calendar, calls,
                 sent, history>>

Midnight ==
  /\ day < MaxDay /\ day' = day + 1
  /\ UNCHANGED <<request, cycles, account, stray, hold, trading, profit, finalized,
                 calls, sent, history>>

FinalizeDays ==
  /\ finalized # 1..(day - 1) /\ finalized' = 1..(day - 1)
  /\ UNCHANGED <<request, cycles, account, stray, hold, trading, day, profit,
                 calls, sent, history>>

-----------------------------------------------------------------------------

Step ==
  \/ \E r \in Requests :
       \/ \E net \in Asks : CheckRequest(r, net)
       \/ InsertRequest(r) \/ FreezeCycle(r) \/ CreationEnds(r)
       \/ Approve(r) \/ RefuseApproval(r)
       \/ ReadForRejection(r) \/ Reject(r) \/ RejectionEnds(r)
       \/ SubmitToProvider(r) \/ RecordSubmission(r) \/ SubmissionEnds(r)
       \/ \E o \in Outcomes : AskProvider(r, o) \/ SettlementEnds(r, o)
       \/ SettlePaid(r) \/ RecordFailure(r) \/ ReversePayout(r)
  \/ PlaceHold \/ ClearHold \/ LedgerFault
  \/ PlaceOrder \/ DropOrder \/ OpenPosition
  \/ \E result \in Results : ClosePosition(result)
  \/ \E s \in Standings : ChangeStanding(s)
  \/ Midnight \/ FinalizeDays

(* History: after its approval a request was seen with a cycle not frozen.  *)
Watch ==
  lapsed' = lapsed \cup
    {r \in Requests : /\ request'[r].status \in {"approved", "processing"}
                      /\ cycle'[request'[r].cycle] # "payout_pending"}

Next == Step /\ Watch

Spec == Init /\ [][Next]_vars

-----------------------------------------------------------------------------
(* Every step leaves the ledger telling the same story as the requests: one *)
(* debit for each paid request, given back for each reversed one, so that   *)
(* reconciliation fails only on entries from elsewhere.                     *)
LedgerFollowsRequests ==
  /\ debited = {r \in Requests : request[r].status \in {"paid", "reversed"}}
  /\ credited = {r \in Requests : request[r].status = "reversed"}

(* What was approved while the freeze held is still covered by the balance  *)
(* above the buffer when it comes to be debited, whatever happened between. *)
BufferCoversApprovals ==
  \A r \in Requests \ lapsed :
    request[r].status \in {"approved", "processing"} =>
      balance - request[r].base >= Floor

(* The performance days that one payout rested on never support another.    *)
DaysCountOnce ==
  \A q, r \in debited : q # r => counted[q] \cap counted[r] = {}

(* Nothing is sent to the provider for a request that was not approved,     *)
(* unless a rejection that had read it before overtook the approval.        *)
OnlyApprovedIsSent ==
  \A r \in Requests \ overtaken :
    r \in sent => request[r].status \notin {"none", "pending_review", "rejected"}

(* The trader's cash stays within the cap of its cycle and within the net   *)
(* sum that was asked for, in whole cents, through every rounding.          *)
CashWithinCap ==
  \A r \in Requests :
    LET c == request[r].cycle IN
    request[r].status # "none" =>
      /\ TraderNet(request[r].base, Splits[c]) <= Caps[c]
      /\ TraderNet(request[r].base, Splits[c]) <= request[r].net
      /\ WaribaShare(request[r].base, Splits[c]) >= 0

(* The ledger pays as the book of payouts promises: the cycles in turn,     *)
(* one request in each, undone once at most; a late settlement of a request *)
(* whose cycle another one closed pays nothing.                             *)
PaidIn == [c \in Cycles |-> {r \in debited : request[r].cycle = c}]
Book == INSTANCE PayoutBook WITH paidIn <- PaidIn, undone <- credited
CyclesPayInTurn == Book!Spec
=============================================================================

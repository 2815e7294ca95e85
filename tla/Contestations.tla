--------------------------- MODULE Contestations ---------------------------
(***************************************************************************)
(* Support requests and the contestations that some of them carry: the     *)
(* trader's side (support-tickets.ts, contestations.ts) and the operators' *)
(* (control-support.ts, control-contestations.ts).                         *)
(*                                                                         *)
(* An operator opens the page of a request or of a contestation and later  *)
(* acts on it.  The action sends the version the page was built from;      *)
(* meanwhile the trader may have replied and other operators may have      *)
(* acted.  Every handler locks the row it changes.  A contestation belongs *)
(* to the request it was opened with, a request has at most one.           *)
(*                                                                         *)
(* What a contested decision says is never written, so whether it may be   *)
(* corrected by a replacement account is a constant.  A handler that       *)
(* refuses changes nothing, and neither does a repeated order to issue an  *)
(* account that exists: these are no steps.                                *)
(***************************************************************************)
EXTENDS Naturals, Functions

CONSTANTS Requests,    \* ids of app.support_tickets
          Decisions,   \* the trader's risk violations that may be contested
          Correctable, \* those whose correction is a replacement account
          Staff,
          None,
          MaxEdits     \* bound: the changes to all rows

ASSUME ContestationsAssumption ==
  /\ Correctable \subseteq Decisions /\ None \notin Staff /\ None \notin Decisions
  /\ MaxEdits \in Nat

VARIABLES ticket,       \* app.support_tickets, with the trader's messages
          contestation, \* app.contestations, by the request it came with
          replacements, \* the contestations with a replacement account
          page          \* the page each operator has open

vars == <<ticket, contestation, replacements, page>>

InReview == {"open", "under_review", "needs_information"}
Live == InReview \cup {"correction_required", "finance_compliance_review"}
Statuses == Live \cup {"upheld", "closed", "decision_corrected"}
TicketStatuses == {"open", "waiting_for_user", "under_review", "resolved", "closed"}
Owners == Staff \cup {None}

Tickets == [status: TicketStatuses \cup {"none"}, owner: Owners, version: Nat, messages: Nat]
Cases == [status: Statuses \cup {"none"}, target: Decisions \cup {None}, owner: Owners,
          version: Nat]
Pages == [about: {"ticket"}, request: Requests, seen: Tickets]
           \cup [about: {"contestation"}, request: Requests, seen: Cases]

TypeOK ==
  /\ ticket \in [Requests -> Tickets]
  /\ contestation \in [Requests -> Cases]
  /\ replacements \subseteq Requests
  /\ page \in [Staff -> Pages \cup {None}]

Init ==
  /\ ticket = [r \in Requests |->
       [status |-> "none", owner |-> None, version |-> 0, messages |-> 0]]
  /\ contestation = [r \in Requests |->
       [status |-> "none", target |-> None, owner |-> None, version |-> 0]]
  /\ replacements = {}
  /\ page = [s \in Staff |-> None]

(* Every change advances a version, so their sum counts the changes. *)
MayEdit ==
  FoldFunction(+, 0, [r \in Requests |-> ticket[r].version + contestation[r].version]) < MaxEdits

NewTicket == [status |-> "open", owner |-> None, version |-> 1, messages |-> 1]

(* The trader writes a request. *)
CreateTicket(r) ==
  /\ ticket[r].status = "none" /\ MayEdit
  /\ ticket' = [ticket EXCEPT ![r] = NewTicket]
  /\ UNCHANGED <<contestation, replacements, page>>

(* A wrong Blocking: the list as it was before corrections were introduced. *)
BlockingInReview(r) == contestation[r].status \in InReview

(* A contestation that keeps a second one from being opened. *)
Blocking(r) == contestation[r].status \in Live

(* The trader contests decision d: a request with its contestation.  The    *)
(* unique index refuses what the query did not see.                         *)
OpenContestation(r, d) ==
  /\ ticket[r].status = "none" /\ MayEdit
  /\ \A q \in Requests : ~(Blocking(q) /\ contestation[q].target = d)
  /\ ticket' = [ticket EXCEPT ![r] = NewTicket]
  /\ contestation' = [contestation EXCEPT ![r] =
       [status |-> "open", target |-> d, owner |-> None, version |-> 1]]
  /\ UNCHANGED <<replacements, page>>

(* A wrong TraderReply: the version stays. *)
ReplyUnversioned(r) ==
  /\ ticket[r].status \notin {"none", "closed"} /\ MayEdit /\ ticket[r].messages < MaxEdits
  /\ ticket' = [ticket EXCEPT
       ![r].status = IF @ = "under_review" THEN @ ELSE "open",
       ![r].messages = @ + 1]
  /\ UNCHANGED <<contestation, replacements, page>>

(* The trader replies, which reopens a resolved request. *)
TraderReply(r) ==
  /\ ticket[r].status \notin {"none", "closed"} /\ MayEdit
  /\ ticket' = [ticket EXCEPT ![r] =
       [status |-> IF @.status = "under_review" THEN "under_review" ELSE "open",
        owner |-> @.owner, version |-> @.version + 1, messages |-> @.messages + 1]]
  /\ UNCHANGED <<contestation, replacements, page>>

-----------------------------------------------------------------------------
(* Operators. *)

Row(about, r) == IF about = "ticket" THEN ticket[r] ELSE contestation[r]

OpenPage(s, about, r) ==
  /\ Row(about, r).status # "none"
  /\ page' = [page EXCEPT ![s] = [about |-> about, request |-> r, seen |-> Row(about, r)]]
  /\ UNCHANGED <<ticket, contestation, replacements>>

(* The operator acts from the page of this row, whose version is the row's  *)
(* (assertExpectedCaseVersion), and no other operator has it.               *)
MayAct(s, about, r) ==
  /\ page[s] # None /\ page[s].about = about /\ page[s].request = r
  /\ page[s].seen.version = Row(about, r).version
  /\ MayEdit
  /\ Row(about, r).owner \in {None, s}

TicketBecomes(s, r, status) ==
  /\ ticket' = [ticket EXCEPT ![r] =
       [status |-> status, owner |-> s, version |-> @.version + 1, messages |-> @.messages]]
  /\ UNCHANGED <<contestation, replacements, page>>

AssignTicket(s, r) ==
  /\ MayAct(s, "ticket", r) /\ ticket[r].status # "closed"
  /\ TicketBecomes(s, r, IF ticket[r].status = "open" THEN "under_review" ELSE ticket[r].status)

(* The operator answers, or asks the trader for something. *)
AnswerTicket(s, r, asks) ==
  /\ MayAct(s, "ticket", r) /\ ticket[r].status # "closed"
  /\ TicketBecomes(s, r, IF asks THEN "waiting_for_user" ELSE "under_review")

(* A wrong ResolveTicket: only an untouched contestation keeps it open. *)
ResolveUnlessUntouched(s, r, resolution) ==
  /\ MayAct(s, "ticket", r) /\ ticket[r].status # "closed"
  /\ contestation[r].status # "open"
  /\ TicketBecomes(s, r, resolution)

(* A request ends only when its contestation has been decided. *)
ResolveTicket(s, r, resolution) ==
  /\ MayAct(s, "ticket", r) /\ ticket[r].status # "closed"
  /\ contestation[r].status \notin InReview
  /\ TicketBecomes(s, r, resolution)

CaseBecomes(s, r, status) ==
  contestation' = [contestation EXCEPT ![r] =
    [status |-> status, target |-> @.target, owner |-> s, version |-> @.version + 1]]

AssignContestation(s, r) ==
  /\ MayAct(s, "contestation", r) /\ contestation[r].status \in InReview
  /\ CaseBecomes(s, r, contestation[r].status)
  /\ UNCHANGED <<ticket, replacements, page>>

(* A wrong ReviewContestation: a decided contestation may be taken again. *)
ReviewAnyContestation(s, r, status) ==
  /\ MayAct(s, "contestation", r) /\ contestation[r].status # "none"
  /\ CaseBecomes(s, r, status)
  /\ UNCHANGED <<ticket, replacements, page>>

(* The operator takes up the review, or asks the trader for more. *)
ReviewContestation(s, r, status) ==
  /\ MayAct(s, "contestation", r) /\ contestation[r].status \in InReview
  /\ CaseBecomes(s, r, status)
  /\ UNCHANGED <<ticket, replacements, page>>

(* The status an outcome leads to.  A correction that no replacement account *)
(* can make goes to Finance and Compliance.                                  *)
StatusAfter(decision, target) ==
  IF decision = "requires_escalation" THEN "closed"
  ELSE IF decision = "correction_required" /\ target \notin Correctable
    THEN "finance_compliance_review"
  ELSE decision

DecideContestation(s, r, decision) ==
  /\ MayAct(s, "contestation", r) /\ contestation[r].status \in InReview
  /\ CaseBecomes(s, r, StatusAfter(decision, contestation[r].target))
  /\ UNCHANGED <<ticket, replacements, page>>

(* A wrong IssueReplacement: the contestation is left as it was. *)
IssueAndForget(s, r) ==
  /\ r \notin replacements
  /\ MayAct(s, "contestation", r) /\ contestation[r].status = "correction_required"
  /\ replacements' = replacements \cup {r}
  /\ UNCHANGED <<ticket, contestation, page>>

(* The correction: one account whose source is this contestation. *)
IssueReplacement(s, r) ==
  /\ r \notin replacements
  /\ MayAct(s, "contestation", r) /\ contestation[r].status = "correction_required"
  /\ contestation[r].target \in Correctable
  /\ replacements' = replacements \cup {r}
  /\ CaseBecomes(s, r, "decision_corrected")
  /\ UNCHANGED <<ticket, page>>

Next ==
  \/ \E r \in Requests :
       \/ CreateTicket(r)
       \/ \E d \in Decisions : OpenContestation(r, d)
       \/ TraderReply(r)
  \/ \E s \in Staff, r \in Requests :
       \/ \E about \in {"ticket", "contestation"} : OpenPage(s, about, r)
       \/ AssignTicket(s, r)
       \/ \E asks \in BOOLEAN : AnswerTicket(s, r, asks)
       \/ \E resolution \in {"resolved", "closed"} : ResolveTicket(s, r, resolution)
       \/ AssignContestation(s, r)
       \/ \E status \in {"under_review", "needs_information"} : ReviewContestation(s, r, status)
       \/ \E decision \in {"upheld", "requires_escalation", "correction_required"} :
            DecideContestation(s, r, decision)
       \/ IssueReplacement(s, r)

Spec == Init /\ [][Next]_vars

-----------------------------------------------------------------------------
(* What the handlers promise each other. *)

(* A conversation is not ended over a contestation that is still reviewed. *)
ClosedIsDecided ==
  \A r \in Requests :
    ticket[r].status \in {"resolved", "closed"} => contestation[r].status \notin InReview

(* A decision has one contestation under way at a time, and while one waits *)
(* for its correction no other can be opened.                               *)
OneLiveContestation ==
  \A q, r \in Requests :
    /\ contestation[q].status \in Live /\ contestation[r].status \in Live
    /\ contestation[q].target = contestation[r].target
    => q = r

(* A trader is told of a correction exactly when there is a replacement     *)
(* account, and only where no money or Performance account is concerned.    *)
CorrectedMeansReplaced ==
  \A r \in Requests :
    /\ contestation[r].status = "decision_corrected" <=> r \in replacements
    /\ contestation[r].status \in {"correction_required", "decision_corrected"}
         => contestation[r].target \in Correctable

(* What operators do is done to what their page showed, messages included:  *)
(* nobody closes a request over a reply or decides what a colleague changed. *)
Shown(s, about, r) == page[s] = [about |-> about, request |-> r, seen |-> Row(about, r)]
ByStaff(r) ==
  \/ ticket'[r].owner # ticket[r].owner
  \/ ticket'[r] # ticket[r] /\ ticket'[r].status \in {"waiting_for_user", "resolved", "closed"}
ActsOnWhatIsShown ==
  [][\A r \in Requests :
       /\ ByStaff(r) => \E s \in Staff : Shown(s, "ticket", r) /\ ticket'[r].owner = s
       /\ contestation[r].status # "none" /\ contestation'[r] # contestation[r]
            => \E s \in Staff : Shown(s, "contestation", r) /\ contestation'[r].owner = s]_vars

(* What was decided, closed or taken by an operator stays so, and a promised *)
(* correction can only be carried out.                                       *)
CasesMoveForward ==
  [][\A r \in Requests :
       /\ ticket[r].status = "closed" => ticket'[r] = ticket[r]
       /\ ticket[r].owner # None => ticket'[r].owner = ticket[r].owner
       /\ contestation[r].owner # None => contestation'[r].owner = contestation[r].owner
       /\ contestation[r].status \in Statuses \ (InReview \cup {"correction_required"})
            => contestation'[r] = contestation[r]
       /\ contestation[r].status = "correction_required"
            => contestation'[r].status \in {"correction_required", "decision_corrected"}]_vars
=============================================================================

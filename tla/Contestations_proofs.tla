------------------------ MODULE Contestations_proofs ------------------------
(***************************************************************************)
(* Proofs about Contestations, for any requests, decisions and staff.      *)
(*                                                                         *)
(* The heart is that a version names the state of its row: a page whose    *)
(* version is still the row's shows the row as it is.  With it, and with   *)
(* the guards on statuses and owners, every promise of the handlers        *)
(* follows.                                                                *)
(***************************************************************************)
EXTENDS Contestations, TLAPS

(* A page is never newer than its row, and one of the same version shows it. *)
VersionNamesTheRow ==
  \A s \in Staff : page[s] # None =>
    LET row == Row(page[s].about, page[s].request) IN
      /\ page[s].seen.status # "none"
      /\ page[s].seen.version <= row.version
      /\ page[s].seen.version = row.version => page[s].seen = row

(* A contestation comes with a request; a row that is not there has no       *)
(* version and no owner.                                                     *)
CaseHasTicket ==
  \A r \in Requests :
    /\ ticket[r].status = "none" =>
         ticket[r].version = 0 /\ ticket[r].owner = None /\ contestation[r].status = "none"
    /\ contestation[r].status = "none" =>
         contestation[r].version = 0 /\ contestation[r].owner = None

(* The inductive invariant. *)
IInv ==
  /\ TypeOK
  /\ VersionNamesTheRow
  /\ CaseHasTicket
  /\ ClosedIsDecided
  /\ OneLiveContestation
  /\ CorrectedMeansReplaced

(* The parts of the invariant that say nothing of pages. *)
RowsAgree == CaseHasTicket /\ ClosedIsDecided /\ OneLiveContestation /\ CorrectedMeansReplaced

-----------------------------------------------------------------------------
(* What a page shows. *)

LEMMA InitPages ==
  ASSUME Init PROVE IInv
<1>1. TypeOK
  BY ContestationsAssumption DEF Init, TypeOK, Tickets, Cases, Owners
<1>2. VersionNamesTheRow
  BY DEF Init, VersionNamesTheRow
<1>3. RowsAgree
  BY ContestationsAssumption DEF Init, RowsAgree, CaseHasTicket, ClosedIsDecided, OneLiveContestation,
     CorrectedMeansReplaced, Live, InReview
<1> QED  BY <1>1, <1>2, <1>3 DEF IInv, RowsAgree

(* A page opened now shows its row. *)
LEMMA OpenPageKeeps ==
  ASSUME IInv, NEW s \in Staff, NEW about \in {"ticket", "contestation"}, NEW r \in Requests,
         OpenPage(s, about, r)
  PROVE  IInv'
<1> DEFINE shown == [about |-> about, request |-> r, seen |-> Row(about, r)]
<1>1. /\ shown.seen.status # "none"
      /\ page' = [page EXCEPT ![s] = shown] /\ UNCHANGED <<ticket, contestation, replacements>>
  BY DEF OpenPage
<1>2. shown \in Pages
  BY DEF IInv, TypeOK, Pages, Row
<1>3. TypeOK'
  BY <1>1, <1>2 DEF IInv, TypeOK
<1>4. shown.seen.version <= Row(about, r).version
  BY DEF IInv, TypeOK, Row, Tickets, Cases
<1>5. VersionNamesTheRow'
  <2> SUFFICES ASSUME NEW t \in Staff, page'[t] # None
               PROVE  /\ page'[t].seen.status # "none"
                      /\ page'[t].seen.version <= Row(page'[t].about, page'[t].request).version
                      /\ page'[t].seen.version = Row(page'[t].about, page'[t].request).version
                           => page'[t].seen = Row(page'[t].about, page'[t].request)
    BY <1>1 DEF VersionNamesTheRow, Row
  <2>1. CASE t = s
    <3>1. page'[t] = shown
      BY <1>1, <2>1 DEF IInv, TypeOK
    <3> QED  BY <1>1, <3>1, <1>4 DEF Row
  <2>2. CASE t # s
    <3>1. page'[t] = page[t]
      BY <1>1, <2>2 DEF IInv, TypeOK
    <3> QED  BY <1>1, <3>1 DEF IInv, VersionNamesTheRow, Row
  <2> QED  BY <2>1, <2>2
<1>6. RowsAgree'
  BY <1>1 DEF IInv, RowsAgree, CaseHasTicket, ClosedIsDecided, OneLiveContestation,
     CorrectedMeansReplaced
<1> QED  BY <1>3, <1>5, <1>6 DEF IInv, RowsAgree

(* A row that changes with its version leaves the pages behind. *)
LEMMA PagesFallBehind ==
  ASSUME IInv, NEW r \in Requests, UNCHANGED page,
         \A q \in Requests : q # r => ticket'[q] = ticket[q] /\ contestation'[q] = contestation[q],
         ticket'[r] = ticket[r] \/ ticket'[r].version = ticket[r].version + 1,
         contestation'[r] = contestation[r] \/ contestation'[r].version = contestation[r].version + 1
  PROVE  VersionNamesTheRow'
<1> SUFFICES ASSUME NEW s \in Staff, page[s] # None
             PROVE  LET row == IF page[s].about = "ticket" THEN ticket'[page[s].request]
                                 ELSE contestation'[page[s].request]
                    IN  /\ page[s].seen.status # "none"
                        /\ page[s].seen.version <= row.version
                        /\ page[s].seen.version = row.version => page[s].seen = row
  BY DEF VersionNamesTheRow, Row
<1> DEFINE q == page[s].request
<1>1. page[s] \in Pages
  BY DEF IInv, TypeOK
<1>2. /\ q \in Requests
      /\ page[s].seen.version \in Nat
      /\ ticket[q].version \in Nat /\ contestation[q].version \in Nat
  BY <1>1 DEF IInv, TypeOK, Pages, Tickets, Cases
<1>3. /\ page[s].seen.status # "none"
      /\ page[s].seen.version <= Row(page[s].about, q).version
      /\ page[s].seen.version = Row(page[s].about, q).version => page[s].seen = Row(page[s].about, q)
  BY DEF IInv, VersionNamesTheRow
<1>4. CASE page[s].about = "ticket"
  <2>1. ticket'[q] = ticket[q] \/ ticket'[q].version = ticket[q].version + 1
    BY <1>2
  <2> QED  BY <1>2, <1>3, <1>4, <2>1 DEF Row
<1>5. CASE page[s].about # "ticket"
  <2>1. contestation'[q] = contestation[q] \/ contestation'[q].version = contestation[q].version + 1
    BY <1>2
  <2> QED  BY <1>2, <1>3, <1>5, <2>1 DEF Row
<1> QED  BY <1>4, <1>5

-----------------------------------------------------------------------------
(* Changes to rows. *)

(* A request moves on, and ends only when its contestation is decided. *)
LEMMA TicketKeeps ==
  ASSUME IInv, NEW r \in Requests, NEW row \in Tickets,
         ticket' = [ticket EXCEPT ![r] = row], UNCHANGED <<contestation, replacements, page>>,
         row.version = ticket[r].version + 1, row.status # "none",
         row.status \in {"resolved", "closed"} => contestation[r].status \notin InReview
  PROVE  IInv'
<1>1. TypeOK'
  BY DEF IInv, TypeOK
<1>2. ticket'[r] = row /\ \A q \in Requests : q # r => ticket'[q] = ticket[q]
  BY DEF IInv, TypeOK
<1>3. VersionNamesTheRow'
  BY <1>2, PagesFallBehind
<1>4. CaseHasTicket' /\ ClosedIsDecided'
  BY <1>2 DEF IInv, CaseHasTicket, ClosedIsDecided
<1>5. OneLiveContestation' /\ CorrectedMeansReplaced'
  BY DEF IInv, OneLiveContestation, CorrectedMeansReplaced
<1> QED  BY <1>1, <1>3, <1>4, <1>5 DEF IInv

(* A contestation that is reviewed or corrected moves on. *)
LEMMA CaseKeeps ==
  ASSUME IInv, NEW r \in Requests, NEW row \in Cases,
         contestation' = [contestation EXCEPT ![r] = row], UNCHANGED <<ticket, page>>,
         row.version = contestation[r].version + 1, row.target = contestation[r].target,
         contestation[r].status \in Live, row.status # "none",
         row.status \in InReview => contestation[r].status \in InReview,
         row.status = "correction_required" => row.target \in Correctable,
         \/ UNCHANGED replacements /\ row.status # "decision_corrected"
         \/ /\ replacements' = replacements \cup {r} /\ row.status = "decision_corrected"
            /\ row.target \in Correctable
  PROVE  IInv'
<1>1. TypeOK'
  BY DEF IInv, TypeOK
<1>2. contestation'[r] = row /\ \A q \in Requests : q # r => contestation'[q] = contestation[q]
  BY DEF IInv, TypeOK
<1>3. VersionNamesTheRow'
  BY <1>2, PagesFallBehind
<1>4. CaseHasTicket'
  BY <1>2 DEF IInv, CaseHasTicket, Live, InReview
<1>5. ClosedIsDecided'
  BY <1>2 DEF IInv, ClosedIsDecided
<1>6. \A q \in Requests : contestation'[q].status \in Live =>
         contestation[q].status \in Live /\ contestation'[q].target = contestation[q].target
  BY <1>2
<1>7. OneLiveContestation'
  BY <1>6 DEF IInv, OneLiveContestation
<1>8. r \notin replacements
  BY DEF IInv, CorrectedMeansReplaced, Live, InReview
<1>9. CorrectedMeansReplaced'
  BY <1>2, <1>8 DEF IInv, CorrectedMeansReplaced
<1> QED  BY <1>1, <1>3, <1>4, <1>5, <1>7, <1>9 DEF IInv

LEMMA OpenContestationKeeps ==
  ASSUME IInv, NEW r \in Requests, NEW d \in Decisions, OpenContestation(r, d)
  PROVE  IInv'
<1> DEFINE row == [status |-> "open", target |-> d, owner |-> None, version |-> 1]
<1>1. /\ ticket' = [ticket EXCEPT ![r] = NewTicket]
      /\ contestation' = [contestation EXCEPT ![r] = row] /\ UNCHANGED <<replacements, page>>
      /\ ticket[r].status = "none"
      /\ \A q \in Requests : ~(contestation[q].status \in Live /\ contestation[q].target = d)
  BY DEF OpenContestation, Blocking
<1>2. NewTicket \in Tickets /\ row \in Cases
  BY DEF NewTicket, Tickets, TicketStatuses, Cases, Statuses, Live, InReview, Owners
<1>3. /\ ticket'[r] = NewTicket /\ contestation'[r] = row
      /\ \A q \in Requests : q # r => ticket'[q] = ticket[q] /\ contestation'[q] = contestation[q]
  BY <1>1 DEF IInv, TypeOK
<1>4. TypeOK'
  BY <1>1, <1>2 DEF IInv, TypeOK
<1>5. ticket[r].version = 0 /\ contestation[r].status = "none" /\ contestation[r].version = 0
  BY <1>1 DEF IInv, CaseHasTicket
<1>6. NewTicket.version = ticket[r].version + 1 /\ row.version = contestation[r].version + 1
  BY <1>5 DEF NewTicket
<1>7. VersionNamesTheRow'
  BY <1>1, <1>3, <1>6, PagesFallBehind
<1>8. CaseHasTicket' /\ ClosedIsDecided'
  BY <1>3 DEF IInv, CaseHasTicket, ClosedIsDecided, NewTicket
<1>9. OneLiveContestation'
  BY <1>1, <1>3 DEF IInv, OneLiveContestation
<1>10. r \notin replacements
  BY <1>5 DEF IInv, CorrectedMeansReplaced
<1>11. CorrectedMeansReplaced'
  BY <1>1, <1>3, <1>10 DEF IInv, CorrectedMeansReplaced
<1> QED  BY <1>4, <1>7, <1>8, <1>9, <1>11 DEF IInv

LEMMA CreateTicketKeeps ==
  ASSUME IInv, NEW r \in Requests, CreateTicket(r)
  PROVE  IInv'
<1>1. /\ ticket' = [ticket EXCEPT ![r] = NewTicket]
      /\ UNCHANGED <<contestation, replacements, page>> /\ ticket[r].status = "none"
  BY DEF CreateTicket
<1>2. NewTicket \in Tickets
  BY DEF NewTicket, Tickets, TicketStatuses, Owners
<1>3. NewTicket.version = ticket[r].version + 1
  BY <1>1 DEF IInv, CaseHasTicket, NewTicket
<1>4. NewTicket.status = "open"
  BY DEF NewTicket
<1> QED  BY <1>1, <1>2, <1>3, <1>4, TicketKeeps

-----------------------------------------------------------------------------
(* Actions. *)

LEMMA TraderReplyKeeps ==
  ASSUME IInv, NEW r \in Requests, TraderReply(r)
  PROVE  IInv'
<1> DEFINE row == [status |-> IF ticket[r].status = "under_review" THEN "under_review" ELSE "open",
                   owner |-> ticket[r].owner, version |-> ticket[r].version + 1,
                   messages |-> ticket[r].messages + 1]
<1>1. ticket' = [ticket EXCEPT ![r] = row] /\ UNCHANGED <<contestation, replacements, page>>
  BY DEF TraderReply
<1>2. row \in Tickets
  BY DEF IInv, TypeOK, Tickets, TicketStatuses
<1>3. row.status \in {"open", "under_review"} /\ row.version = ticket[r].version + 1
  OBVIOUS
<1> HIDE DEF row
<1> QED  BY <1>1, <1>2, <1>3, TicketKeeps

(* An operator's change of a request. *)
LEMMA TicketBecomesKeeps ==
  ASSUME IInv, NEW s \in Staff, NEW r \in Requests, NEW status \in TicketStatuses,
         TicketBecomes(s, r, status),
         status \in {"resolved", "closed"} => contestation[r].status \notin InReview
  PROVE  IInv'
<1> DEFINE row == [status |-> status, owner |-> s, version |-> ticket[r].version + 1,
                   messages |-> ticket[r].messages]
<1>1. ticket' = [ticket EXCEPT ![r] = row] /\ UNCHANGED <<contestation, replacements, page>>
  BY DEF TicketBecomes
<1>2. row \in Tickets
  BY DEF IInv, TypeOK, Tickets, TicketStatuses, Owners
<1>3. row.status = status /\ row.version = ticket[r].version + 1 /\ status # "none"
  BY DEF TicketStatuses
<1> HIDE DEF row
<1> QED  BY <1>1, <1>2, <1>3, TicketKeeps

(* An operator's change of a contestation. *)
LEMMA CaseBecomesKeeps ==
  ASSUME IInv, NEW s \in Staff, NEW r \in Requests, NEW status \in Statuses,
         CaseBecomes(s, r, status), UNCHANGED <<ticket, page>>,
         contestation[r].status \in Live,
         status \in InReview => contestation[r].status \in InReview,
         status = "correction_required" => contestation[r].target \in Correctable,
         \/ UNCHANGED replacements /\ status # "decision_corrected"
         \/ /\ replacements' = replacements \cup {r} /\ status = "decision_corrected"
            /\ contestation[r].target \in Correctable
  PROVE  IInv'
<1> DEFINE row == [status |-> status, target |-> contestation[r].target, owner |-> s,
                   version |-> contestation[r].version + 1]
<1>1. contestation' = [contestation EXCEPT ![r] = row]
  BY DEF CaseBecomes
<1>2. row \in Cases
  BY DEF IInv, TypeOK, Cases, Owners
<1>3. /\ row.status = status /\ row.version = contestation[r].version + 1
      /\ row.target = contestation[r].target /\ status # "none"
  BY DEF Statuses, Live, InReview
<1> HIDE DEF row
<1> QED  BY <1>1, <1>2, <1>3, CaseKeeps

(* Who may act sees the row as it is. *)
LEMMA MayActIsShown ==
  ASSUME IInv, NEW s \in Staff, NEW about \in {"ticket", "contestation"}, NEW r \in Requests,
         MayAct(s, about, r)
  PROVE  Shown(s, about, r) /\ Row(about, r).status # "none"
<1>1. /\ page[s] # None /\ page[s].about = about /\ page[s].request = r
      /\ page[s].seen.version = Row(about, r).version
  BY DEF MayAct
<1>2. page[s].seen = Row(about, r) /\ page[s].seen.status # "none"
  BY <1>1 DEF IInv, VersionNamesTheRow
<1>3. page[s] = [about |-> page[s].about, request |-> page[s].request, seen |-> page[s].seen]
  BY <1>1 DEF IInv, TypeOK, Pages
<1> QED  BY <1>1, <1>2, <1>3 DEF Shown

(* What an operator's change of a request is. *)
LEMMA TicketActs ==
  ASSUME IInv, NEW s \in Staff, NEW r \in Requests,
         \/ AssignTicket(s, r)
         \/ \E asks \in BOOLEAN : AnswerTicket(s, r, asks)
         \/ \E resolution \in {"resolved", "closed"} : ResolveTicket(s, r, resolution)
  PROVE  /\ MayAct(s, "ticket", r) /\ ticket[r].status # "closed"
         /\ \E status \in TicketStatuses :
              /\ TicketBecomes(s, r, status)
              /\ status \in {"resolved", "closed"} => contestation[r].status \notin InReview
<1>0. ticket[r].status \in TicketStatuses \cup {"none"} /\ ticket[r].version \in Nat
  BY DEF IInv, TypeOK, Tickets
<1>1. CASE AssignTicket(s, r)
  <2> DEFINE status == IF ticket[r].status = "open" THEN "under_review" ELSE ticket[r].status
  <2>1. MayAct(s, "ticket", r) /\ ticket[r].status # "closed" /\ TicketBecomes(s, r, status)
    BY <1>1 DEF AssignTicket
  <2>2. ticket[r].status # "none"
    BY <2>1, MayActIsShown DEF Row
  <2>3. status \in TicketStatuses
    BY <1>0, <2>2 DEF TicketStatuses
  <2>4. status \in {"resolved", "closed"} => contestation[r].status \notin InReview
    BY DEF IInv, ClosedIsDecided
  <2> QED  BY <2>1, <2>3, <2>4
<1>2. ASSUME NEW asks \in BOOLEAN, AnswerTicket(s, r, asks)
      PROVE  /\ MayAct(s, "ticket", r) /\ ticket[r].status # "closed"
             /\ TicketBecomes(s, r, IF asks THEN "waiting_for_user" ELSE "under_review")
  BY <1>2 DEF AnswerTicket
<1>3. ASSUME NEW resolution \in {"resolved", "closed"}, ResolveTicket(s, r, resolution)
      PROVE  /\ MayAct(s, "ticket", r) /\ ticket[r].status # "closed"
             /\ TicketBecomes(s, r, resolution) /\ contestation[r].status \notin InReview
  BY <1>3 DEF ResolveTicket
<1> QED  BY <1>1, <1>2, <1>3 DEF TicketStatuses

(* What an operator's change of a contestation is. *)
LEMMA CaseActs ==
  ASSUME IInv, NEW s \in Staff, NEW r \in Requests,
         \/ AssignContestation(s, r)
         \/ \E status \in {"under_review", "needs_information"} : ReviewContestation(s, r, status)
         \/ \E decision \in {"upheld", "requires_escalation", "correction_required"} :
              DecideContestation(s, r, decision)
         \/ IssueReplacement(s, r)
  PROVE  /\ MayAct(s, "contestation", r) /\ UNCHANGED <<ticket, page>>
         /\ \E status \in Statuses :
              /\ CaseBecomes(s, r, status)
              /\ status = "correction_required" => contestation[r].target \in Correctable
              /\ \/ /\ contestation[r].status \in InReview /\ status # "decision_corrected"
                    /\ UNCHANGED replacements
                 \/ /\ contestation[r].status = "correction_required"
                    /\ status = "decision_corrected" /\ contestation[r].target \in Correctable
                    /\ replacements' = replacements \cup {r}
<1> USE DEF Statuses, Live, InReview
<1>1. CASE AssignContestation(s, r)
  <2>1. /\ MayAct(s, "contestation", r) /\ contestation[r].status \in InReview
        /\ CaseBecomes(s, r, contestation[r].status) /\ UNCHANGED <<ticket, replacements, page>>
    BY <1>1 DEF AssignContestation
  <2> QED  BY <2>1
<1>2. ASSUME NEW status \in {"under_review", "needs_information"}, ReviewContestation(s, r, status)
      PROVE  /\ MayAct(s, "contestation", r) /\ contestation[r].status \in InReview
             /\ CaseBecomes(s, r, status) /\ UNCHANGED <<ticket, replacements, page>>
  BY <1>2 DEF ReviewContestation
<1>3. ASSUME NEW decision \in {"upheld", "requires_escalation", "correction_required"},
             DecideContestation(s, r, decision)
      PROVE  LET status == StatusAfter(decision, contestation[r].target) IN
             /\ MayAct(s, "contestation", r) /\ contestation[r].status \in InReview
             /\ CaseBecomes(s, r, status) /\ UNCHANGED <<ticket, replacements, page>>
             /\ status \in {"upheld", "closed", "correction_required", "finance_compliance_review"}
             /\ status = "correction_required" => contestation[r].target \in Correctable
  <2>1. /\ MayAct(s, "contestation", r) /\ contestation[r].status \in InReview
        /\ CaseBecomes(s, r, StatusAfter(decision, contestation[r].target))
        /\ UNCHANGED <<ticket, replacements, page>>
    BY <1>3 DEF DecideContestation
  <2>2. /\ StatusAfter(decision, contestation[r].target) \in
              {"upheld", "closed", "correction_required", "finance_compliance_review"}
        /\ StatusAfter(decision, contestation[r].target) = "correction_required"
             => contestation[r].target \in Correctable
    BY DEF StatusAfter
  <2> QED  BY <2>1, <2>2
<1>4. CASE IssueReplacement(s, r)
  <2>1. /\ MayAct(s, "contestation", r) /\ contestation[r].status = "correction_required"
        /\ contestation[r].target \in Correctable /\ replacements' = replacements \cup {r}
        /\ CaseBecomes(s, r, "decision_corrected") /\ UNCHANGED <<ticket, page>>
    BY <1>4 DEF IssueReplacement
  <2> QED  BY <2>1
<1> QED  BY <1>1, <1>2, <1>3, <1>4

-----------------------------------------------------------------------------
(* Steps. *)

(* The steps of Next, those of an operator gathered by what they change. *)
TicketAct(s, r) ==
  \/ AssignTicket(s, r)
  \/ \E asks \in BOOLEAN : AnswerTicket(s, r, asks)
  \/ \E resolution \in {"resolved", "closed"} : ResolveTicket(s, r, resolution)
CaseAct(s, r) ==
  \/ AssignContestation(s, r)
  \/ \E status \in {"under_review", "needs_information"} : ReviewContestation(s, r, status)
  \/ \E decision \in {"upheld", "requires_escalation", "correction_required"} :
       DecideContestation(s, r, decision)
  \/ IssueReplacement(s, r)
Step(r) ==
  \/ CreateTicket(r)
  \/ \E d \in Decisions : OpenContestation(r, d)
  \/ TraderReply(r)
  \/ \E s \in Staff, about \in {"ticket", "contestation"} : OpenPage(s, about, r)
  \/ \E s \in Staff : TicketAct(s, r)
  \/ \E s \in Staff : CaseAct(s, r)

LEMMA NextIsStep ==
  ASSUME Next PROVE \E r \in Requests : Step(r)
BY DEF Next, Step, TicketAct, CaseAct

LEMMA StepKeeps ==
  ASSUME IInv, NEW r \in Requests, Step(r) PROVE IInv'
<1>1. CASE CreateTicket(r)
  BY <1>1, CreateTicketKeeps
<1>2. ASSUME NEW d \in Decisions, OpenContestation(r, d) PROVE IInv'
  BY <1>2, OpenContestationKeeps
<1>3. CASE TraderReply(r)
  BY <1>3, TraderReplyKeeps
<1>4. ASSUME NEW s \in Staff, NEW about \in {"ticket", "contestation"}, OpenPage(s, about, r)
      PROVE  IInv'
  BY <1>4, OpenPageKeeps
<1>5. ASSUME NEW s \in Staff, TicketAct(s, r) PROVE IInv'
  <2>1. PICK status \in TicketStatuses :
          /\ TicketBecomes(s, r, status)
          /\ status \in {"resolved", "closed"} => contestation[r].status \notin InReview
    BY <1>5, TicketActs DEF TicketAct
  <2> QED  BY <2>1, TicketBecomesKeeps
<1>6. ASSUME NEW s \in Staff, CaseAct(s, r) PROVE IInv'
  <2>1. /\ UNCHANGED <<ticket, page>>
        /\ \E status \in Statuses :
             /\ CaseBecomes(s, r, status)
             /\ status = "correction_required" => contestation[r].target \in Correctable
             /\ \/ /\ contestation[r].status \in InReview /\ status # "decision_corrected"
                   /\ UNCHANGED replacements
                \/ /\ contestation[r].status = "correction_required"
                   /\ status = "decision_corrected" /\ contestation[r].target \in Correctable
                   /\ replacements' = replacements \cup {r}
    BY <1>6, CaseActs DEF CaseAct
  <2>2. PICK status \in Statuses :
             /\ CaseBecomes(s, r, status)
             /\ status = "correction_required" => contestation[r].target \in Correctable
             /\ \/ /\ contestation[r].status \in InReview /\ status # "decision_corrected"
                   /\ UNCHANGED replacements
                \/ /\ contestation[r].status = "correction_required"
                   /\ status = "decision_corrected" /\ contestation[r].target \in Correctable
                   /\ replacements' = replacements \cup {r}
    BY <2>1
  <2>3. contestation[r].status \in Live
    BY <2>2 DEF Live
  <2>4. status \in InReview => contestation[r].status \in InReview
    BY <2>2 DEF InReview
  <2> QED  BY <2>1, <2>2, <2>3, <2>4, CaseBecomesKeeps
<1> QED  BY <1>1, <1>2, <1>3, <1>4, <1>5, <1>6 DEF Step

(* The inductive invariant holds for ever. *)
THEOREM ContestationInvariant == Spec => []IInv
<1>1. Init => IInv
  BY InitPages
<1>2. IInv /\ [Next]_vars => IInv'
  <2> SUFFICES ASSUME IInv, [Next]_vars PROVE IInv'
    OBVIOUS
  <2>1. CASE Next
    BY <2>1, NextIsStep, StepKeeps
  <2>2. CASE UNCHANGED vars
    BY <2>2 DEF vars, IInv, TypeOK, VersionNamesTheRow, Row, CaseHasTicket, ClosedIsDecided,
       OneLiveContestation, CorrectedMeansReplaced
  <2> QED  BY <2>1, <2>2
<1> QED  BY <1>1, <1>2, PTL DEF Spec

(* Types: a row has one of its statuses and an owner of the staff, and pages *)
(* show rows of their kind, whatever traders and operators do.               *)
THEOREM TypeInvariant == Spec => []TypeOK
BY ContestationInvariant, PTL DEF IInv

(* A request never ends over a contestation that is still reviewed. *)
THEOREM EndsDecided == Spec => []ClosedIsDecided
BY ContestationInvariant, PTL DEF IInv

(* No decision is ever contested twice at the same time. *)
THEOREM ContestedOnce == Spec => []OneLiveContestation
BY ContestationInvariant, PTL DEF IInv

(* A trader is told of a correction exactly when there is a new account. *)
THEOREM CorrectionsAreReal == Spec => []CorrectedMeansReplaced
BY ContestationInvariant, PTL DEF IInv

-----------------------------------------------------------------------------
(* What a step may do to the rows of a request. *)

Informed(q) ==
  /\ ByStaff(q) => \E s \in Staff : Shown(s, "ticket", q) /\ ticket'[q].owner = s
  /\ contestation[q].status # "none" /\ contestation'[q] # contestation[q]
       => \E s \in Staff : Shown(s, "contestation", q) /\ contestation'[q].owner = s
Forward(q) ==
  /\ ticket[q].status = "closed" => ticket'[q] = ticket[q]
  /\ ticket[q].owner # None => ticket'[q].owner = ticket[q].owner
  /\ contestation[q].owner # None => contestation'[q].owner = contestation[q].owner
  /\ contestation[q].status \in Statuses \ (InReview \cup {"correction_required"})
       => contestation'[q] = contestation[q]
  /\ contestation[q].status = "correction_required"
       => contestation'[q].status \in {"correction_required", "decision_corrected"}

LEMMA StillRows ==
  ASSUME NEW q \in Requests, ticket'[q] = ticket[q], contestation'[q] = contestation[q]
  PROVE  Informed(q) /\ Forward(q)
BY DEF Informed, Forward, ByStaff

LEMMA StepMoves ==
  ASSUME IInv, NEW r \in Requests, Step(r), NEW q \in Requests
  PROVE  Informed(q) /\ Forward(q)
<1>1. CASE CreateTicket(r)
  <2>1. /\ ticket' = [ticket EXCEPT ![r] = NewTicket] /\ contestation' = contestation
        /\ ticket[r].status = "none"
    BY <1>1 DEF CreateTicket
  <2>2. CASE q = r
    <3>1. ticket'[q] = NewTicket /\ contestation'[q] = contestation[q]
      BY <2>1, <2>2 DEF IInv, TypeOK
    <3>2. NewTicket.status = "open" /\ NewTicket.owner = None
      BY DEF NewTicket
    <3>3. ticket[q].owner = None
      BY <2>1, <2>2 DEF IInv, CaseHasTicket
    <3> QED  BY <2>1, <2>2, <3>1, <3>2, <3>3 DEF Informed, Forward, ByStaff
  <2>3. CASE q # r
    BY <2>1, <2>3, StillRows DEF IInv, TypeOK
  <2> QED  BY <2>2, <2>3
<1>2. ASSUME NEW d \in Decisions, OpenContestation(r, d)
      PROVE  Informed(q) /\ Forward(q)
  <2> DEFINE row == [status |-> "open", target |-> d, owner |-> None, version |-> 1]
  <2>1. /\ ticket' = [ticket EXCEPT ![r] = NewTicket]
        /\ contestation' = [contestation EXCEPT ![r] = row] /\ ticket[r].status = "none"
    BY <1>2 DEF OpenContestation
  <2>2. CASE q = r
    <3>1. ticket'[q] = NewTicket /\ contestation'[q] = row
      BY <2>1, <2>2 DEF IInv, TypeOK
    <3>2. NewTicket.status = "open" /\ NewTicket.owner = None
      BY DEF NewTicket
    <3>3. /\ ticket[q].owner = None /\ contestation[q].status = "none"
          /\ contestation[q].owner = None
      BY <2>1, <2>2 DEF IInv, CaseHasTicket
    <3> QED  BY <2>1, <2>2, <3>1, <3>2, <3>3
             DEF Informed, Forward, ByStaff, Statuses, Live, InReview
  <2>3. CASE q # r
    BY <2>1, <2>3, StillRows DEF IInv, TypeOK
  <2> QED  BY <2>2, <2>3
<1>3. CASE TraderReply(r)
  <2> DEFINE row == [status |-> IF ticket[r].status = "under_review" THEN "under_review" ELSE "open",
                     owner |-> ticket[r].owner, version |-> ticket[r].version + 1,
                     messages |-> ticket[r].messages + 1]
  <2>1. /\ ticket' = [ticket EXCEPT ![r] = row] /\ contestation' = contestation
        /\ ticket[r].status # "closed"
    BY <1>3 DEF TraderReply
  <2>2. CASE q = r
    <3>1. ticket'[q] = row /\ contestation'[q] = contestation[q]
      BY <2>1, <2>2 DEF IInv, TypeOK
    <3>2. row.status \in {"open", "under_review"} /\ row.owner = ticket[q].owner
      BY <2>2
    <3> HIDE DEF row
    <3> QED  BY <2>1, <2>2, <3>1, <3>2 DEF Informed, Forward, ByStaff
  <2>3. CASE q # r
    BY <2>1, <2>3, StillRows DEF IInv, TypeOK
  <2> QED  BY <2>2, <2>3
<1>4. ASSUME NEW s \in Staff, NEW about \in {"ticket", "contestation"}, OpenPage(s, about, r)
      PROVE  Informed(q) /\ Forward(q)
  BY <1>4, StillRows DEF OpenPage
<1>5. ASSUME NEW s \in Staff, TicketAct(s, r)
      PROVE  Informed(q) /\ Forward(q)
  <2>1. /\ MayAct(s, "ticket", r) /\ ticket[r].status # "closed"
        /\ \E status \in TicketStatuses : TicketBecomes(s, r, status)
    BY <1>5, TicketActs DEF TicketAct
  <2>2. PICK status \in TicketStatuses : TicketBecomes(s, r, status)
    BY <2>1
  <2> DEFINE row == [status |-> status, owner |-> s, version |-> ticket[r].version + 1,
                     messages |-> ticket[r].messages]
  <2>3. ticket' = [ticket EXCEPT ![r] = row] /\ contestation' = contestation
    BY <2>2 DEF TicketBecomes
  <2>4. ticket[r].owner \in {None, s} /\ Shown(s, "ticket", r)
    BY <2>1, MayActIsShown DEF MayAct, Row
  <2>5. CASE q = r
    <3>1. ticket'[q] = row /\ contestation'[q] = contestation[q] /\ row.owner = s
      BY <2>3, <2>5 DEF IInv, TypeOK
    <3> HIDE DEF row
    <3>2. Informed(q)
      BY <2>4, <2>5, <3>1 DEF Informed
    <3>3. Forward(q)
      BY <2>1, <2>4, <2>5, <3>1 DEF Forward
    <3> QED  BY <3>2, <3>3
  <2>6. CASE q # r
    BY <2>3, <2>6, StillRows DEF IInv, TypeOK
  <2> QED  BY <2>5, <2>6
<1>6. ASSUME NEW s \in Staff, CaseAct(s, r)
      PROVE  Informed(q) /\ Forward(q)
  <2>1. /\ MayAct(s, "contestation", r) /\ UNCHANGED <<ticket, page>>
        /\ \E status \in Statuses :
             /\ CaseBecomes(s, r, status)
             /\ \/ contestation[r].status \in InReview
                \/ contestation[r].status = "correction_required" /\ status = "decision_corrected"
    BY <1>6, CaseActs DEF CaseAct
  <2>2. PICK status \in Statuses :
             /\ CaseBecomes(s, r, status)
             /\ \/ contestation[r].status \in InReview
                \/ contestation[r].status = "correction_required" /\ status = "decision_corrected"
    BY <2>1
  <2> DEFINE row == [status |-> status, target |-> contestation[r].target, owner |-> s,
                     version |-> contestation[r].version + 1]
  <2>3. ticket' = ticket /\ contestation' = [contestation EXCEPT ![r] = row]
    BY <2>1, <2>2 DEF CaseBecomes
  <2>4. contestation[r].owner \in {None, s} /\ Shown(s, "contestation", r)
    BY <2>1, MayActIsShown DEF MayAct, Row
  <2>5. CASE q = r
    <3>1. ticket'[q] = ticket[q] /\ contestation'[q] = row /\ row.owner = s /\ row.status = status
      BY <2>3, <2>5 DEF IInv, TypeOK
    <3> HIDE DEF row
    <3>2. Informed(q)
      BY <2>4, <2>5, <3>1 DEF Informed, ByStaff
    <3>3. Forward(q)
      BY <2>2, <2>4, <2>5, <3>1 DEF Forward, InReview
    <3> QED  BY <3>2, <3>3
  <2>6. CASE q # r
    BY <2>3, <2>6, StillRows DEF IInv, TypeOK
  <2> QED  BY <2>5, <2>6
<1> QED  BY <1>1, <1>2, <1>3, <1>4, <1>5, <1>6 DEF Step

LEMMA StepsMove ==
  ASSUME IInv, [Next]_vars, NEW q \in Requests
  PROVE  Informed(q) /\ Forward(q)
<1>1. CASE Next
  BY <1>1, NextIsStep, StepMoves
<1>2. CASE UNCHANGED vars
  BY <1>2, StillRows DEF vars
<1> QED  BY <1>1, <1>2

(* Whatever operators do, they do to rows that are as their pages show them, *)
(* the trader's messages included, and they own what they touched.           *)
THEOREM ActsOnShown == Spec => ActsOnWhatIsShown
<1>1. IInv /\ [Next]_vars => [\A r \in Requests : Informed(r)]_vars
  BY StepsMove
<1> QED  BY <1>1, ContestationInvariant, PTL DEF Spec, ActsOnWhatIsShown, Informed

(* Closed requests, decided contestations and owners stay for good, and a    *)
(* correction that was promised can only be carried out.                     *)
THEOREM MovesForward == Spec => CasesMoveForward
<1>1. IInv /\ [Next]_vars => [\A r \in Requests : Forward(r)]_vars
  BY StepsMove
<1> QED  BY <1>1, ContestationInvariant, PTL DEF Spec, CasesMoveForward, Forward
=============================================================================

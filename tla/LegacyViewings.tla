--------------------------- MODULE LegacyViewings ---------------------------
(***************************************************************************)
(* The older way to arrange viewings, still served beside the workflow     *)
(* (application-viewing.service.ts, application-viewing-outcome.service.ts *)
(* and application-viewing.policy.ts of src/application-viewings): rows of *)
(* application_viewings without a workflow of mode CURRENT.                *)
(*                                                                         *)
(* An application takes one of the two ways: a row without a workflow      *)
(* keeps the workflow commands out until it is reconciled, a workflow      *)
(* keeps these operations out.  The lifecycle of the application closes    *)
(* either, and of the older way keeps the time in a closed snapshot.       *)
(* Left out: reconciliation, rows imported by the migration, notes, and    *)
(* repeated requests, which are answered from the row and change nothing.  *)
(***************************************************************************)
EXTENDS ViewingWorkflow

VARIABLE ledger  \* the rows of application_viewings and the LEGACY workflow

legacyVars == <<vars, ledger>>

-----------------------------------------------------------------------------
LegacyStatus == {"NONE", "PROPOSED", "ACCEPTED", "DECLINED", "CHANGE_REQUESTED", "CANCELLED",
                 "SUPERSEDED", "OUTCOME_PENDING", "COMPLETED", "NO_SHOW"}

NoRow == [status |-> "NONE", start |-> 0, outcomes |-> 0, recorded |-> 0, interest |-> "NONE"]

NoSnapshot == -1

Rows == ledger.rows

HasRows == \E r \in Rounds : Rows[r].status # "NONE"

\* The last round, or NoRound.
LatestRow == CHOOSE r \in 0..MaxRounds :
               /\ r # NoRound => Rows[r].status # "NONE"
               /\ \A q \in Rounds : q > r => Rows[q].status = "NONE"

\* ApplicationViewingPolicy.unresolved()
Unresolved(row) == row.status \in {"PROPOSED", "ACCEPTED"}

LiveRows(rows) == {r \in Rounds : Unresolved(rows[r])}

RowEnd(row) == row.start + Duration

\* Of a row that was never to take place only its being there is read again.
Dropped(status) == [NoRow EXCEPT !.status = status]

\* legacyInterestClosedByLifecycle(); the snapshot's updatedAt is never before its closedAt.
ClosedByLifecycle(row) ==
  /\ ledger.snapshot # NoSnapshot
  /\ row.outcomes = 0 \/ row.recorded <= ledger.snapshot \/ row.start <= ledger.snapshot

-----------------------------------------------------------------------------
(***************************************************************************)
(* What the lifecycle of the application does to the rows.                 *)
(***************************************************************************)
EndedRow(row) ==
  IF ~Unresolved(row) THEN row
  ELSE IF row.status = "ACCEPTED" /\ row.start <= clock THEN [row EXCEPT !.status = "OUTCOME_PENDING"]
  ELSE Dropped("CANCELLED")

\* closeWithinTransaction(): a snapshot that is closed, with nothing live, is left as it is.
CloseLedger ==
  IF \/ ~HasRows
     \/ ledger.snapshot # NoSnapshot /\ LiveRows(Rows) = {}
  THEN ledger
  ELSE [ledger EXCEPT !.rows = [r \in Rounds |-> EndedRow(Rows[r])], !.snapshot = clock]

\* Mutated form of RestoreLedger: the closed snapshot is not touched.
RestoreLedgerUntouched == CloseLedger

\* restoreWithinTransaction() moves the time of the snapshot to its own.
RestoreLedger ==
  IF ledger.snapshot # NoSnapshot /\ LiveRows(Rows) = {} THEN [ledger EXCEPT !.snapshot = clock]
  ELSE CloseLedger

-----------------------------------------------------------------------------
(***************************************************************************)
(* The operations.  mutation() asks for an application that may change,    *)
(* assertLegacy() for one without a workflow of mode CURRENT.              *)
(***************************************************************************)
MayWrite == CanMutate /\ wf.state = "NONE"

SetRow(r, row) ==
  /\ ledger' = [ledger EXCEPT !.rows[r] = row]
  /\ UNCHANGED vars

\* propose() without a previous viewing.
MayPropose == MayWrite /\ (LatestRow # NoRound => ~Unresolved(Rows[LatestRow]))

Proposal(start) == [NoRow EXCEPT !.status = "PROPOSED", !.start = start]

Propose(start) ==
  /\ MayPropose /\ LatestRow < MaxRounds
  /\ start > clock
  /\ SetRow(LatestRow + 1, Proposal(start))

\* propose() with the viewing that is to be rescheduled.
MayRescheduleRow == MayWrite /\ LatestRow # NoRound /\ Unresolved(Rows[LatestRow]) /\ clock < Rows[LatestRow].start

RescheduleRow(start) ==
  /\ MayRescheduleRow /\ LatestRow < MaxRounds
  /\ start > clock
  /\ ledger' = [ledger EXCEPT !.rows[LatestRow] = Dropped("SUPERSEDED"),
                              !.rows[LatestRow + 1] = Proposal(start)]
  /\ UNCHANGED vars

\* capabilities() of the last row; of another one none is left but the interest.
Flags(row) ==
  [canAccept |-> row.status = "PROPOSED" /\ clock < row.start,
   canDecline |-> Unresolved(row) /\ clock < row.start,
   canReschedule |-> Unresolved(row) /\ clock < row.start,
   canCancel |-> Unresolved(row),
   canMarkCompleted |-> row.status \in {"ACCEPTED", "OUTCOME_PENDING"} /\ clock >= RowEnd(row),
   canCorrectOutcome |-> row.outcomes = 1 /\ row.interest = "NONE" /\ clock < row.recorded + CorrectionWindow]

\* respond(): decline and request-change differ in the status only.
AcceptRow ==
  /\ MayWrite /\ LatestRow # NoRound /\ Flags(Rows[LatestRow]).canAccept
  /\ SetRow(LatestRow, [Rows[LatestRow] EXCEPT !.status = "ACCEPTED"])

TurnDown(status) ==
  /\ MayWrite /\ LatestRow # NoRound /\ Flags(Rows[LatestRow]).canDecline
  /\ SetRow(LatestRow, Dropped(status))

CancelRow ==
  /\ MayWrite /\ LatestRow # NoRound /\ Flags(Rows[LatestRow]).canCancel
  /\ SetRow(LatestRow, Dropped("CANCELLED"))

\* record(): of the first outcome, and of its correction to the other one.
RecordRow(outcome) ==
  /\ MayWrite /\ LatestRow # NoRound /\ Flags(Rows[LatestRow]).canMarkCompleted
  /\ SetRow(LatestRow, [Rows[LatestRow] EXCEPT !.status = outcome, !.outcomes = 1, !.recorded = clock])

CorrectRow ==
  /\ MayWrite /\ LatestRow # NoRound /\ Flags(Rows[LatestRow]).canCorrectOutcome
  /\ SetRow(LatestRow, [Rows[LatestRow] EXCEPT
       !.status = IF @ = "COMPLETED" THEN "NO_SHOW" ELSE "COMPLETED", !.outcomes = 2])

\* interest(): of any completed round, whatever came since.
MayAnswerRow(r) ==
  /\ MayWrite
  /\ Rows[r].status = "COMPLETED" /\ Rows[r].interest = "NONE"
  /\ ~ClosedByLifecycle(Rows[r])

StillInterested(r) ==
  /\ MayAnswerRow(r)
  /\ SetRow(r, [Rows[r] EXCEPT !.interest = "STILL_INTERESTED"])

\* With the withdrawal in the same transaction.
NotInterested(r) ==
  /\ MayAnswerRow(r)
  /\ application' = "WITHDRAWN"
  /\ ledger' = [CloseLedger EXCEPT !.rows[r].interest = "NOT_INTERESTED"]
  /\ UNCHANGED <<activeAt, listing, clock, wf, place>>

LegacyStep ==
  \/ \E start \in 1..MaxClock : Propose(start) \/ RescheduleRow(start)
  \/ AcceptRow \/ CancelRow \/ CorrectRow
  \/ \E status \in {"DECLINED", "CHANGE_REQUESTED"} : TurnDown(status)
  \/ \E outcome \in {"COMPLETED", "NO_SHOW"} : RecordRow(outcome)
  \/ \E r \in Rounds : StillInterested(r) \/ NotInterested(r)

-----------------------------------------------------------------------------
(***************************************************************************)
(* What readers are shown.                                                 *)
(***************************************************************************)
RowsWith(S) == {r \in Rounds : Rows[r].status \in S}

TopRow(S) == IF S = {} THEN {} ELSE {CHOOSE r \in S : \A q \in S : q <= r}

\* batch() selects these rows.
Selected ==
  TopRow(RowsWith(LegacyStatus \ {"NONE"}))
  \cup TopRow(RowsWith({"COMPLETED"})) \cup TopRow(RowsWith({"NO_SHOW"}))
  \cup RowsWith({"PROPOSED", "ACCEPTED", "OUTCOME_PENDING"})
  \cup {r \in RowsWith({"COMPLETED"}) : Rows[r].interest = "NONE"}

\* legacyViewingAllowsActions()
ShowsActions(row) ==
  /\ CanMutate
  /\ IF row.status = "COMPLETED" THEN ~ClosedByLifecycle(row)
     ELSE \/ ledger.snapshot = NoSnapshot
          \/ row.status \in {"PROPOSED", "ACCEPTED", "CHANGE_REQUESTED", "OUTCOME_PENDING"}

\* Mutated form of NextRowAction: whoever has seen the flat owes an answer.
NextRowActionAnyway(r) ==
  LET row == Rows[r]
  IN  IF ~CanMutate THEN "NONE"
      ELSE IF row.status = "COMPLETED" /\ row.interest = "NONE" THEN "CONFIRM_INTEREST"
      ELSE "NONE"

\* nextAction() of a row as the projection asks for it.
NextRowAction(r) ==
  LET row == Rows[r]
      latest == r = LatestRow
  IN  IF ~ShowsActions(row) THEN "NONE"
      ELSE IF latest /\ row.status = "PROPOSED"
           THEN IF clock < row.start THEN "RESPOND" ELSE "CLOSE_UNANSWERED"
      ELSE IF latest /\ row.status = "CHANGE_REQUESTED" THEN "RESPOND_TO_CHANGE"
      ELSE IF latest /\ row.status \in {"ACCEPTED", "OUTCOME_PENDING"} /\ clock >= RowEnd(row)
           THEN "RECORD_OUTCOME"
      ELSE IF row.status = "COMPLETED" /\ row.interest = "NONE" THEN "CONFIRM_INTEREST"
      ELSE "NONE"

\* The obligations of the projection, each with its round.
RowObligations == {<<r, NextRowAction(r)>> : r \in {q \in Selected : NextRowAction(q) # "NONE"}}

\* summary() names one of them, its nextAction.
SummaryAction ==
  LET Of(S) == IF S = {} THEN "NONE" ELSE NextRowAction(CHOOSE r \in S : TRUE)
      current == Of(TopRow(RowsWith({"PROPOSED", "ACCEPTED", "OUTCOME_PENDING"})))
  IN  IF current # "NONE" THEN current
      ELSE IF HasRows /\ Rows[LatestRow].status = "CHANGE_REQUESTED" THEN Of({LatestRow})
      ELSE Of(TopRow({r \in RowsWith({"COMPLETED"}) : Rows[r].interest = "NONE"}))

\* list(): the provider is offered a new proposal when nothing is unresolved.
ListOffersProposal == CanMutate /\ LiveRows(Rows) = {}

\* summary(): nor while an outcome is due.
SummaryOffersProposal == CanMutate /\ Selected \cap RowsWith({"PROPOSED", "ACCEPTED", "OUTCOME_PENDING"}) = {}

-----------------------------------------------------------------------------
InitBoth == Init /\ ledger = [rows |-> [r \in Rounds |-> NoRow], snapshot |-> NoSnapshot, ended |-> {}]

\* LEGACY_RECONCILIATION_REQUIRED keeps every workflow command out.
NextBoth ==
  \/ LegacyStep
  \/ ~HasRows /\ (CalendarStep \/ DecisionStep) /\ UNCHANGED ledger
  \/ (ExpireOffer \/ (\E v \in Rounds : ExpireInterest(v)) \/ Tick \/ Promote) /\ UNCHANGED ledger
  \/ (\/ SetListing("DRAFT", "PUBLISHED") \/ SetListing("PUBLISHED", "PAUSED")
      \/ SetListing("PAUSED", "PUBLISHED")) /\ UNCHANGED ledger
  \/ (Withdraw \/ Revalidate \/ MoveToDraft \/ Archive \/ Rent) /\ ledger' = CloseLedger
  \/ Reject /\ ledger' = [CloseLedger EXCEPT !.ended = RowsWith(LegacyStatus \ {"NONE"})]
  \/ Restore /\ ledger' = RestoreLedger

SpecBoth == InitBoth /\ [][NextBoth]_legacyVars

-----------------------------------------------------------------------------
(***************************************************************************)
(* Properties.                                                             *)
(***************************************************************************)
\* The rows commit to one date at most, the last one's, never beside a workflow
\* and never once the application or its listing has left the process.
LegacyCommitmentsMatch ==
  \A r \in LiveRows(Rows) : r = LatestRow /\ CanMutate /\ wf.state = "NONE"

\* Whether a row asks for what an operation would accept, and everything an
\* operation would accept that somebody has to do is asked for; the one action the
\* summary names is missing only when none is due.  The list and the summary offer
\* a new proposal only when it would be accepted.
LegacyReadsAreHonoured ==
  wf.state = "NONE" =>
    /\ \A r \in Rounds :
         /\ <<r, "CONFIRM_INTEREST">> \in RowObligations <=> MayAnswerRow(r)
         /\ <<r, "RECORD_OUTCOME">> \in RowObligations
              <=> MayWrite /\ r = LatestRow /\ Flags(Rows[r]).canMarkCompleted
         /\ <<r, "RESPOND">> \in RowObligations <=> MayWrite /\ r = LatestRow /\ Flags(Rows[r]).canAccept
         /\ <<r, "CLOSE_UNANSWERED">> \in RowObligations =>
              MayWrite /\ r = LatestRow /\ Flags(Rows[r]).canCancel
         /\ <<r, "RESPOND_TO_CHANGE">> \in RowObligations => MayPropose
    /\ ListOffersProposal <=> MayPropose
    /\ SummaryOffersProposal => MayPropose
    /\ SummaryAction = "NONE" <=> RowObligations = {}
    /\ MayRescheduleRow <=> MayWrite /\ LatestRow # NoRound /\ Flags(Rows[LatestRow]).canReschedule

\* The older rows hold together through every end and return of the process, and
\* their readers say of them what the operations do.
LegacyRowsAreSound == LegacyCommitmentsMatch /\ LegacyReadsAreHonoured

\* A viewing that was there when the application was rejected is never answered
\* for after a restoration, however often the application comes and goes.  Of an
\* end by unpublishing this is not so: closeWithinTransaction() leaves a closed
\* snapshot as it is, and a viewing since then stays open.
EndedInterestStaysClosed ==
  [][\A r \in ledger.ended : ledger'.rows[r].interest = Rows[r].interest]_legacyVars
=============================================================================

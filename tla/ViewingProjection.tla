-------------------------- MODULE ViewingProjection -------------------------
(***************************************************************************)
(* What the two sides of an application are shown of its viewing workflow  *)
(* (src/application-viewings/viewing-workflow-projection.ts over the rows  *)
(* application-viewing-read.service.ts selects): the state of offers and   *)
(* interest requests at the time of reading, the actions offered, the      *)
(* obligations, and the time at which all of this may change by itself.    *)
(*                                                                         *)
(* Reads change nothing and resolve nothing.  Everything here is derived   *)
(* from the state of ViewingWorkflow; the one variable added is the        *)
(* appointment the last consideration was given for, which the code reads  *)
(* back from the activities.                                               *)
(***************************************************************************)
EXTENDS ViewingWorkflow

VARIABLE decidedFor  \* appointmentId of the last viewing_consideration_changed, if decidedAt is set

allVars == <<vars, decidedFor>>

-----------------------------------------------------------------------------
(***************************************************************************)
(* The rows read.                                                          *)
(***************************************************************************)
\* The highest round of S, or NoRound.
Last(S) == IF S = {} THEN NoRound ELSE CHOOSE r \in S : \A q \in S : q <= r

Appointments == {r \in Rounds : wf.visits[r].status # "NONE"}

WithStatus(S) == {r \in Rounds : wf.visits[r].status \in S}

\* Mutated form of Ledger: only the last appointment and those that stand.
LedgerOfLast ==
  ({Last(Appointments)} \ {NoRound}) \cup WithStatus({"ACCEPTED", "OUTCOME_PENDING"})

\* batch(): not the whole history, only what the projection may need.
Ledger ==
  ({Last(Appointments), Last(WithStatus({"COMPLETED"})),
    Last(WithStatus({"APPLICANT_ABSENT", "PROVIDER_ABSENT"}))} \ {NoRound})
  \cup WithStatus({"ACCEPTED", "OUTCOME_PENDING"})
  \cup {r \in WithStatus({"COMPLETED"}) : wf.visits[r].interest \notin Answers}

Current == wf.state # "NONE"

Completed == Last({r \in Ledger : wf.visits[r].status = "COMPLETED"})

Confirmed == IF wf.confirmed \in Ledger THEN wf.confirmed ELSE NoRound

\* The appointment whose outcome was recorded last.
OutcomeAppointment == Last({r \in Ledger : wf.visits[r].outcomes > 0})

EndsAt(r) == wf.offers[r].start + Duration

-----------------------------------------------------------------------------
(***************************************************************************)
(* Offers and interest requests as they are shown.                         *)
(***************************************************************************)
PendingExpired == wf.pending # NoRound /\ clock >= wf.offers[wf.pending].deadline

PendingLive == wf.pending # NoRound /\ ~PendingExpired

\* effectiveResolution
Resolution(r) ==
  IF wf.offers[r].resolution = "PENDING" /\ clock >= wf.offers[r].deadline THEN "EXPIRED"
  ELSE wf.offers[r].resolution

InterestExpired ==
  /\ Completed # NoRound
  /\ wf.visits[Completed].interest = "PENDING" /\ clock >= wf.visits[Completed].due

ApplicantInterest ==
  IF Completed = NoRound THEN "NONE"
  ELSE IF InterestExpired THEN "EXPIRED" ELSE wf.visits[Completed].interest

\* The interest of a visit in the history of the offers.
InterestInHistory(r) ==
  IF wf.visits[r].interest = "PENDING" /\ clock >= wf.visits[r].due THEN "EXPIRED"
  ELSE wf.visits[r].interest

Active == CanMutate /\ Current /\ ~InterestExpired

OpenNow == wf.state = "OPEN" /\ Active

PostViewing == PostViewingOpen(wf) /\ Active

InterestAvailable == PostViewing /\ ApplicantInterest = "PENDING"

\* The visit whose outcome is to be recorded next.
Attendance ==
  Last({r \in Ledger :
          /\ wf.visits[r].status \in {"ACCEPTED", "OUTCOME_PENDING"}
          /\ wf.visits[r].outcomes = 0
          /\ clock >= EndsAt(r)
          /\ r = wf.confirmed \/ wf.visits[r].status = "OUTCOME_PENDING"})

DecisionEligible ==
  Completed # NoRound /\ PostViewing /\ ApplicantInterest # "CLOSED"

ConsiderationCurrent == Completed # NoRound /\ decidedFor = Completed

Responder == IF PendingBy("PROVIDER") THEN "APPLICANT" ELSE "PROVIDER"

-----------------------------------------------------------------------------
(***************************************************************************)
(* Obligations, each of one side.                                          *)
(***************************************************************************)
Obligation(name) ==
  CASE name = "RESPOND" -> OpenNow /\ PendingLive
    [] name = "RECORD_OUTCOME" -> Current /\ Attendance # NoRound
    [] name = "CONFIRM_INTEREST" -> InterestAvailable
    [] name = "DECIDE_CONSIDERATION" -> DecisionEligible /\ ~ConsiderationCurrent

Responsible(name) ==
  CASE name = "RESPOND" -> Responder
    [] name = "CONFIRM_INTEREST" -> "APPLICANT"
    [] name \in {"RECORD_OUTCOME", "DECIDE_CONSIDERATION"} -> "PROVIDER"

ObligationNames == {"RESPOND", "RECORD_OUTCOME", "CONFIRM_INTEREST", "DECIDE_CONSIDERATION"}

-----------------------------------------------------------------------------
(***************************************************************************)
(* Capabilities.  The reason of a refusal is left out: an action is        *)
(* offered when none applies.                                              *)
(***************************************************************************)
Unblocked == CanMutate /\ ~InterestExpired

Started == Confirmed # NoRound /\ clock >= wf.offers[Confirmed].start

\* Mutated form of CutoffPassed: changes are offered until the appointment starts.
CutoffPassedAtStart == Confirmed # NoRound /\ clock >= wf.offers[Confirmed].start

CutoffPassed == Confirmed # NoRound /\ clock >= wf.offers[Confirmed].start - ChangeCutoff

\* proposalBlock
MayDecideProposal(side) == PendingLive /\ Responder = side /\ OpenNow

\* futureBlock
HasFutureAppointment == Confirmed # NoRound /\ ~Started /\ Unblocked

CorrectionCutoff == wf.visits[OutcomeAppointment].recorded + CorrectionWindow

Correctable ==
  /\ OutcomeAppointment # NoRound
  /\ OutcomeAppointment = Last(Appointments)
  /\ wf.visits[OutcomeAppointment].outcomes = 1
  /\ wf.visits[OutcomeAppointment].interest \notin Answers
  /\ clock < CorrectionCutoff

Capabilities == {"INVITE", "ACCEPT_PROPOSAL", "REJECT_PROPOSAL", "COUNTERPROPOSE",
                 "PROPOSE_REPLACEMENT", "WITHDRAW_ALTERNATIVE", "CANCEL_APPOINTMENT",
                 "CLOSE_FLOW", "RECORD_OUTCOME", "CORRECT_OUTCOME", "SUBMIT_INTEREST",
                 "SET_CONSIDERATION"}

Allowed(action, side) ==
  CASE action = "INVITE" ->
         side = "PROVIDER" /\ wf.pending = NoRound /\ Confirmed = NoRound /\ Unblocked
    [] action = "ACCEPT_PROPOSAL" -> MayDecideProposal(side) /\ ~Started
    [] action = "REJECT_PROPOSAL" -> MayDecideProposal(side)
    [] action = "COUNTERPROPOSE" ->
         /\ PendingLive /\ ~Started /\ OpenNow
         /\ side = "APPLICANT" => PendingBy("PROVIDER") /\ ~CutoffPassed
    [] action = "PROPOSE_REPLACEMENT" ->
         /\ HasFutureAppointment /\ wf.pending = NoRound
         /\ side = "APPLICANT" => ~CutoffPassed
    [] action = "WITHDRAW_ALTERNATIVE" ->
         side = "APPLICANT" /\ PendingBy("APPLICANT") /\ PendingLive /\ OpenNow
    [] action = "CANCEL_APPOINTMENT" -> side = "APPLICANT" /\ HasFutureAppointment
    [] action = "CLOSE_FLOW" ->
         /\ side = "PROVIDER" /\ ~Started
         /\ wf.pending # NoRound \/ Confirmed # NoRound
         /\ Unblocked
    [] action = "RECORD_OUTCOME" -> side = "PROVIDER" /\ Current /\ Attendance # NoRound
    [] action = "CORRECT_OUTCOME" -> side = "PROVIDER" /\ Correctable
    [] action = "SUBMIT_INTEREST" -> side = "APPLICANT" /\ InterestAvailable
    [] action = "SET_CONSIDERATION" -> side = "PROVIDER" /\ DecisionEligible

Offer(side) == {action \in Capabilities : Allowed(action, side)}

-----------------------------------------------------------------------------
(***************************************************************************)
(* When to look again.                                                     *)
(***************************************************************************)
\* The instants at which what is shown may change by the passing of time alone.
Boundaries(side) ==
  (IF Active /\ PendingLive THEN {wf.offers[wf.pending].deadline, wf.offers[wf.pending].start} ELSE {})
  \cup (IF Confirmed = NoRound THEN {}
        ELSE {wf.offers[Confirmed].start, EndsAt(Confirmed), wf.offers[Confirmed].start - ChangeCutoff})
  \cup {EndsAt(r) : r \in {q \in Ledger : wf.visits[q].status = "OUTCOME_PENDING"}}
  \cup (IF ApplicantInterest = "PENDING" THEN {wf.visits[Completed].due} ELSE {})
  \cup (IF /\ side = "PROVIDER" /\ OutcomeAppointment # NoRound
           /\ wf.visits[OutcomeAppointment].outcomes = 1
           /\ wf.visits[OutcomeAppointment].interest \notin Answers
        THEN {CorrectionCutoff} ELSE {})

Never == 0

NextRevalidateAt(side) ==
  LET later == {t \in Boundaries(side) : t > clock}
  IN  IF later = {} THEN Never ELSE Earliest(later)

\* facts(): one of every obligation, and one that carries the instant to look again
\* when there is none.
Facts(side) ==
  LET at == NextRevalidateAt(side)
  IN  {[action |-> name, revalidatesAt |-> at] :
         name \in {"NONE"} \cup {n \in ObligationNames : Obligation(n)}}

\* derive(): the facts of a side are its pending actions.
PendingActions(side) ==
  {fact.action : fact \in {f \in Facts(side) : f.action # "NONE" /\ Responsible(f.action) = side}}

\* earliestRevalidation() of the facts of the application.
AttentionRevalidateAt(side) ==
  LET later == {fact.revalidatesAt : fact \in Facts(side)} \ (0..clock)
  IN  IF later = {} THEN Never ELSE Earliest(later)

\* Everything shown to a side that depends on the time.
Shown(side) ==
  [offers |-> [r \in Rounds |-> Resolution(r)], interest |-> ApplicantInterest,
   history |-> [r \in Rounds |-> InterestInHistory(r)], offered |-> Offer(side), obligations |-> {name \in ObligationNames : Obligation(name)}]

-----------------------------------------------------------------------------
InitProjection == Init /\ decidedFor = NoRound

Decide(v, consideration) == Consider(v, consideration) /\ decidedFor' = v

\* DO_NOT_CONTINUE dates the decision when the closure is not a historical one.
DecideNot(v) ==
  /\ DoNotContinue(v)
  /\ decidedFor' = IF wf'.consideration = "DO_NOT_CONTINUE" \/ decidedFor # NoRound THEN v ELSE NoRound

\* restoreWithinTransaction() takes the date of the decision back.
RestoreUndecided ==
  /\ Restore
  /\ decidedFor' =
       IF \/ wf.state = "CLOSED" /\ LiveVisits(wf) = {}
          \/ wf.consideration = "DO_NOT_CONTINUE"
       THEN NoRound ELSE decidedFor

OtherSteps ==
  \/ CalendarStep
  \/ \E v \in Rounds :
       \/ \E outcome \in Outcomes : RecordOutcome(v, outcome)
       \/ \E answer \in Answers : Answer(v, answer)
       \/ ExpireInterest(v)
  \/ Withdraw \/ Reject \/ Revalidate \/ Promote
  \/ SetListing("DRAFT", "PUBLISHED") \/ SetListing("PUBLISHED", "PAUSED")
  \/ SetListing("PAUSED", "PUBLISHED")
  \/ MoveToDraft \/ Archive \/ Rent
  \/ ExpireOffer
  \/ Tick

NextProjection ==
  \/ \E v \in Rounds : DecideNot(v) \/ \E consideration \in Considerations : Decide(v, consideration)
  \/ RestoreUndecided
  \/ OtherSteps /\ UNCHANGED decidedFor

SpecProjection == InitProjection /\ [][NextProjection]_allVars

-----------------------------------------------------------------------------
(***************************************************************************)
(* Properties.                                                             *)
(***************************************************************************)
\* What apply() accepts once execute() does.
CalendarAccepts(action, side) ==
  \/ action = "INVITE" /\ side = "PROVIDER" /\ MayInvite
  \/ action = "ACCEPT_PROPOSAL" /\ MayAccept(side)
  \/ action = "REJECT_PROPOSAL" /\ MayDecline(side)
  \/ action = "COUNTERPROPOSE" /\ side = "PROVIDER" /\ MayCounterpropose
  \/ action = "COUNTERPROPOSE" /\ side = "APPLICANT" /\ MayProposeAlternative
  \/ action = "PROPOSE_REPLACEMENT" /\ MayReschedule(side)
  \/ action = "WITHDRAW_ALTERNATIVE" /\ side = "APPLICANT" /\ PendingBy("APPLICANT")
  \/ action = "CANCEL_APPOINTMENT" /\ side = "APPLICANT" /\ MayCancel
  \/ action = "CLOSE_FLOW" /\ side = "PROVIDER" /\ MayClose

DecisionAccepts(action, side) ==
  \E v \in Rounds :
    \/ /\ action = "RECORD_OUTCOME" /\ side = "PROVIDER"
       /\ \E o \in Outcomes : MayRecord(v) /\ MayGiveOutcome(v, o)
    \/ /\ action = "CORRECT_OUTCOME" /\ side = "PROVIDER"
       /\ \E o \in Outcomes : MayCorrect(v, o) /\ MayGiveOutcome(v, o)
    \/ action = "SUBMIT_INTEREST" /\ side = "APPLICANT" /\ MayAnswer(v)
    \/ action = "SET_CONSIDERATION" /\ side = "PROVIDER" /\ MayConsider(v)

Accepted(action, side) ==
  \/ CanMutate /\ Timely(wf) /\ CalendarAccepts(action, side)
  \/ DecisionAccepts(action, side)

\* A command on a thing that stands beside something overdue expires that first
\* and has to be repeated, as docs/viewing-workflow-commands.md says of both.
ExpiresAnotherFirst(action) ==
  \/ action \in {"CANCEL_APPOINTMENT", "CLOSE_FLOW"} /\ OfferOverdue(wf)
  \/ action \in {"RECORD_OUTCOME", "CORRECT_OUTCOME"} /\ \E v \in Rounds : InterestOverdue(wf, v)

\* What a side is offered is what the commands accept from it, no more and no
\* less: no button that is refused, no possible step that stays hidden.
OffersAreHonoured ==
  \A side \in Sides, action \in Capabilities :
    /\ ~ExpiresAnotherFirst(action)
    /\ side = "PROVIDER" => ProviderVisible
    => (Allowed(action, side) <=> Accepted(action, side))

Discharges ==
  [RESPOND |-> "REJECT_PROPOSAL", RECORD_OUTCOME |-> "RECORD_OUTCOME",
   CONFIRM_INTEREST |-> "SUBMIT_INTEREST", DECIDE_CONSIDERATION |-> "SET_CONSIDERATION"]

\* An offer on the table is the business of the side it was made to, a visit that
\* is over and without an outcome is the provider's, a request for interest that
\* stands is the applicant's, however many rounds came since: batch() reads only
\* part of the history, and nothing open falls out of what it reads.  And nobody
\* is asked for something that is not offered.
NobodyIsForgotten ==
  /\ \A name \in ObligationNames :
       Obligation(name) => Allowed(Discharges[name], Responsible(name))
  /\ CanMutate /\ Timely(wf) /\ PendingLive => Obligation("RESPOND") /\ ~PendingBy(Responder)
  /\ (\E r \in Rounds : wf.visits[r].status \in {"ACCEPTED", "OUTCOME_PENDING"} /\ clock >= EndsAt(r))
       => Obligation("RECORD_OUTCOME")
  /\ CanMutate /\ Timely(wf) /\ (\E r \in Rounds : wf.visits[r].interest = "PENDING")
       => Obligation("CONFIRM_INTEREST")

=============================================================================

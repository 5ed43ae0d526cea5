-------------------------- MODULE ViewingWorkflow --------------------------
(***************************************************************************)
(* The viewing workflow of one application (src/application-viewings and   *)
(* the viewing part of src/applications): offers of a date, the appointment*)
(* an accepted offer becomes, its attendance outcome, the interest the     *)
(* applicant is then asked for, and everything that ends them early.       *)
(*                                                                         *)
(* Every command, expiry and lifecycle step locks the listing and the      *)
(* application in a Serializable transaction: each is one atomic action.   *)
(* A command names the revision it was built on and is refused when that   *)
(* is not the current one; a repeated request is answered from its receipt *)
(* and changes nothing.  Here both are stuttering steps, and               *)
(* ViewingCommands takes them up.  Imported LEGACY workflows and the rules *)
(* on short notice are left out.                                           *)
(***************************************************************************)
EXTENDS Integers, FiniteSets

CONSTANTS
  MaxRounds,         \* bound on the offers of the workflow
  MaxClock,          \* bound on the clock
  MaxRevision,       \* bound on the revisions at which a consideration changes
  MaxIssued,         \* bound on the consideration positions given out
  Duration,          \* endsAt - startsAt
  ResponseWindow,    \* VIEWING_RESPONSE_MS
  ChangeCutoff,      \* VIEWING_CHANGE_CUTOFF_MS
  CorrectionWindow,  \* CORRECTION_WINDOW_MS
  InterestWindow     \* the 48 hours of an interest request

ASSUME BoundsAssumption ==
  /\ MaxRounds \in Nat /\ MaxClock \in Nat \ {0}
  /\ MaxRevision \in Nat /\ MaxIssued \in Nat

\* An outcome can no longer be corrected when its interest request expires.
ASSUME WindowsAssumption ==
  /\ {Duration, ResponseWindow, ChangeCutoff, CorrectionWindow, InterestWindow} \subseteq Nat \ {0}
  /\ CorrectionWindow <= InterestWindow

VARIABLES
  application,  \* applications.status; a rejection as NOT_SELECTED is told apart
  activeAt,     \* whether applications.active_at is set
  listing,      \* listings.status
  clock,        \* ViewingClock.now()
  wf,           \* the rows of the workflow, its offers and its visits
  place         \* the row of application_consideration_positions

vars == <<application, activeAt, listing, clock, wf, place>>

-----------------------------------------------------------------------------
Rounds == 1..MaxRounds

NoRound == 0

ApplicationStatus == {"ACTIVE", "WAITING", "ACCEPTED", "WITHDRAWN", "REJECTED", "NOT_SELECTED"}

ListingStatus == {"DRAFT", "PUBLISHED", "PAUSED", "RENTED", "ARCHIVED"}

Sides == {"PROVIDER", "APPLICANT"}

Resolutions == {"NONE", "PENDING", "ACCEPTED", "DECLINED", "SUPERSEDED", "WITHDRAWN", "EXPIRED", "CLOSED"}

\* A NO_SHOW is kept with the side that was absent.
Outcomes == {"COMPLETED", "APPLICANT_ABSENT", "PROVIDER_ABSENT"}

VisitStatus == {"NONE", "ACCEPTED", "SUPERSEDED", "CANCELLED", "OUTCOME_PENDING"} \cup Outcomes

Answers == {"STILL_INTERESTED", "NOT_INTERESTED"}

InterestState == {"NOT_REQUESTED", "PENDING", "EXPIRED", "CLOSED"} \cup Answers

Considerations == {"UNDECIDED", "CONTINUE_CONSIDERING", "DO_NOT_CONTINUE"}

\* Resolution "NONE": the round has not been offered.
Offers == [by : Sides, start : Nat, deadline : Nat, resolution : Resolutions]

NoOffer == [by |-> "PROVIDER", start |-> 0, deadline |-> 0, resolution |-> "NONE"]

\* The appointment of an accepted offer with its ledger row.  `outcomes' counts
\* the recorded outcomes, `recorded' dates the first; `from', `to' and `toRevision'
\* are the no-show consequence, 0 when there is none.
Visits == [status : VisitStatus, interest : InterestState, due : Nat, outcomes : 0..2,
           recorded : Nat, from : Nat, to : Nat, toRevision : Nat]

NoVisit == [status |-> "NONE", interest |-> "NOT_REQUESTED", due |-> 0, outcomes |-> 0,
            recorded |-> 0, from |-> 0, to |-> 0, toRevision |-> 0]

\* State "NONE": no workflow yet.  Of the closure reasons only PROVIDER_CLOSED
\* is told apart: it closes the calendar and not the application.
Workflows == [state : {"NONE", "OPEN", "CLOSED"}, reason : {"NONE", "PROVIDER_CLOSED", "ENDED"},
              revision : Nat, pending : Rounds \cup {NoRound}, confirmed : Rounds \cup {NoRound},
              consideration : Considerations, offers : [Rounds -> Offers], visits : [Rounds -> Visits]]

\* `placed' remembers the position given at the last activation.
Places == [position : Nat, revision : Nat, issued : Nat, placed : Nat]

-----------------------------------------------------------------------------
(***************************************************************************)
(* Views of a workflow f.                                                  *)
(***************************************************************************)
\* applicationProcessAllowsMutation()
CanMutate == application = "ACTIVE" /\ listing \in {"PUBLISHED", "PAUSED"}

\* providerApplicationIsVisible(), asked of a provider's command by authorize()
ProviderVisible == application # "WAITING" /\ (application = "ACTIVE" \/ activeAt)

LiveVisits(f) == {r \in Rounds : f.visits[r].status = "ACCEPTED"}

\* The appointment of round v is the last that was accepted.
IsLatest(f, v) == \A r \in Rounds : r > v => f.visits[r].status = "NONE"

\* v is the completed visit of the highest round.
IsLatestCompleted(f, v) ==
  /\ f.visits[v].status = "COMPLETED"
  /\ \A r \in Rounds : r > v => f.visits[r].status # "COMPLETED"

PostViewingOpen(f) == f.state = "OPEN" \/ (f.state = "CLOSED" /\ f.reason = "PROVIDER_CLOSED")

\* The confirmed appointment, if any, has not started.
NotStarted(f) == f.confirmed # NoRound => clock < f.offers[f.confirmed].start

\* What proposalWithinTransaction() checks; the deadline is never after the start.
OfferOverdue(f) ==
  /\ f.state = "OPEN" /\ f.pending # NoRound
  /\ clock >= f.offers[f.pending].deadline

InterestOverdue(f, v) ==
  /\ PostViewingOpen(f) /\ CanMutate
  /\ IsLatestCompleted(f, v)
  /\ f.visits[v].interest = "PENDING" /\ clock >= f.visits[v].due

-----------------------------------------------------------------------------
(***************************************************************************)
(* Changes of a workflow f.                                                *)
(***************************************************************************)
Bump(f) == [f EXCEPT !.revision = @ + 1]

\* Of a settled offer only the date of an appointment is ever read again; its other
\* columns, and the deadline of an interest that is not PENDING, are left out.
Resolve(f, r, resolution) ==
  [f EXCEPT !.offers[r] = [NoOffer EXCEPT !.resolution = resolution,
                                          !.start = IF resolution = "ACCEPTED" THEN f.offers[r].start ELSE 0]]

WithInterest(visit, state) == [visit EXCEPT !.interest = state, !.due = 0]

\* resolve() the pending offer, when there is one, and forget it.
ResolvePending(f, resolution) ==
  IF f.pending = NoRound THEN f
  ELSE [Resolve(f, f.pending, resolution) EXCEPT !.pending = NoRound]

\* Nobody is asked any more for an interest that is in one of the states S.
EndInterest(visit, S) ==
  IF visit.status # "NONE" /\ visit.interest \in S THEN WithInterest(visit, "CLOSED") ELSE visit

EndInterests(f, S) ==
  [f EXCEPT !.visits = [r \in Rounds |-> EndInterest(f.visits[r], S)]]

\* Mutated form of EndedVisit: an appointment is called off whether it started or not.
EndedVisitCancelled(f, r) ==
  EndInterest(IF f.visits[r].status = "ACCEPTED" THEN [f.visits[r] EXCEPT !.status = "CANCELLED"]
              ELSE f.visits[r],
              {"PENDING", "NOT_REQUESTED"})

\* An appointment that has started keeps waiting for its outcome.
EndedVisit(f, r) ==
  EndInterest(IF f.visits[r].status # "ACCEPTED" THEN f.visits[r]
              ELSE [f.visits[r] EXCEPT !.status =
                      IF f.offers[r].start <= clock THEN "OUTCOME_PENDING" ELSE "CANCELLED"],
              {"PENDING", "NOT_REQUESTED"})

\* The closure proper of closeWithinTransaction().
Ended(f, dnc) ==
  Bump([ResolvePending(f, "CLOSED") EXCEPT
          !.state = "CLOSED",
          !.reason = IF f.state = "CLOSED" THEN @ ELSE "ENDED",
          !.confirmed = NoRound,
          !.consideration = IF dnc THEN "DO_NOT_CONTINUE" ELSE @,
          !.visits = [r \in Rounds |-> EndedVisit(f, r)]])

\* A closed workflow without appointment only loses its open interest request.
Historical(f) ==
  IF \E r \in Rounds : f.visits[r].interest = "PENDING"
  THEN Bump(EndInterests(f, {"PENDING"})) ELSE f

\* Mutated form of Close: a closed calendar is taken to have nothing left to end.
CloseOpenOnly(f, dnc) ==
  CASE f.state \in {"NONE", "CLOSED"} -> f
    [] f.state = "OPEN" -> Ended(f, dnc)

\* closeWithinTransaction(); `dnc' is its consideration option.
Close(f, dnc) ==
  CASE f.state = "NONE" -> f
    [] f.state = "CLOSED" /\ LiveVisits(f) = {} -> Historical(f)
    [] f.state = "OPEN" \/ LiveVisits(f) # {} -> Ended(f, dnc)

\* restoreWithinTransaction()
RestoredWorkflow(f) ==
  LET g == EndInterests(f, {"PENDING", "NOT_REQUESTED"})
      h == Close(g, FALSE)
      Undecided(k) == Bump([k EXCEPT !.consideration = "UNDECIDED"])
  IN  IF f.state = "CLOSED" /\ LiveVisits(f) = {} THEN Undecided(g)
      ELSE IF h.consideration = "DO_NOT_CONTINUE" THEN Undecided(h) ELSE h

-----------------------------------------------------------------------------
Init ==
  /\ application \in {"ACTIVE", "WAITING"}
  /\ activeAt = (application = "ACTIVE")
  /\ listing = "PUBLISHED"
  /\ clock = 1
  /\ wf = [state |-> "NONE", reason |-> "NONE", revision |-> 0, pending |-> NoRound,
           confirmed |-> NoRound, consideration |-> "UNDECIDED",
           offers |-> [r \in Rounds |-> NoOffer], visits |-> [r \in Rounds |-> NoVisit]]
  /\ place = LET p == IF application = "ACTIVE" THEN 1 ELSE 0
             IN  [position |-> p, revision |-> 0, issued |-> p, placed |-> p]

(***************************************************************************)
(* Expiry: by the sweep, or by a command that finds the deadline passed,   *)
(* which is then refused while the expiry is committed.                    *)
(***************************************************************************)
ExpireOffer ==
  /\ OfferOverdue(wf)
  /\ wf' = Bump(ResolvePending(wf, "EXPIRED"))
  /\ UNCHANGED <<application, activeAt, listing, clock, place>>

\* expireViewingInterestWithinTransaction(); the revision grows even when
\* the calendar was closed before and closing again changed nothing.
ExpireInterest(v) ==
  LET expired == [wf EXCEPT !.visits[v] = WithInterest(@, "EXPIRED")]
      closed == Close(expired, FALSE)
  IN  /\ InterestOverdue(wf, v)
      /\ wf' = IF closed.revision = wf.revision THEN Bump(closed) ELSE closed
      /\ application' = "REJECTED"
      /\ UNCHANGED <<activeAt, listing, clock, place>>

\* Nothing is overdue that a calendar command would expire first.
Timely(f) == ~OfferOverdue(f) /\ \A v \in Rounds : ~InterestOverdue(f, v)

-----------------------------------------------------------------------------
(***************************************************************************)
(* Calendar commands.                                                      *)
(***************************************************************************)
Earliest(S) == CHOOSE t \in S : \A u \in S : t <= u

Deadline(f, start) ==
  Earliest({clock + ResponseWindow, start} \cup
           {f.offers[r].start : r \in {f.confirmed} \ {NoRound}})

\* newProposal(): g is f with a further offer, for another date than the appointment's.
Offered(f, side, g) ==
  \E r \in Rounds, start \in (clock + 1)..MaxClock :
    /\ \A q \in Rounds : f.offers[q].resolution # "NONE" <=> q < r
    /\ f.confirmed # NoRound => start # f.offers[f.confirmed].start
    /\ g = [f EXCEPT !.pending = r,
                     !.offers[r] = [by |-> side, start |-> start, resolution |-> "PENDING",
                                    deadline |-> Deadline(f, start)]]

\* What execute() asks of a command before apply().  May... is what apply() asks then;
\* what else a command asks is of the date it proposes.
Calendar ==
  /\ CanMutate
  /\ Timely(wf)
  /\ UNCHANGED <<application, activeAt, listing, clock, place>>

PendingBy(side) == wf.pending # NoRound /\ wf.offers[wf.pending].by = side

\* applicantCutoff()
BeforeCutoff == wf.confirmed # NoRound => clock < wf.offers[wf.confirmed].start - ChangeCutoff

\* A closed workflow is reopened without the questions it left unanswered.
Reopened(f) ==
  Bump([(IF f.state = "CLOSED" THEN EndInterests(f, {"PENDING", "NOT_REQUESTED"}) ELSE f)
          EXCEPT !.state = "OPEN", !.reason = "NONE"])

MayInvite == wf.pending = NoRound /\ wf.confirmed = NoRound

Invite ==
  /\ Calendar /\ MayInvite
  /\ Offered(Reopened(wf), "PROVIDER", wf')

\* Mutated form of Appointed: the replaced appointment keeps standing.
AppointedTwice(f) ==
  [Resolve(f, f.pending, "ACCEPTED") EXCEPT
            !.visits[f.pending] = [NoVisit EXCEPT !.status = "ACCEPTED"],
            !.confirmed = f.pending, !.pending = NoRound]

\* The pending offer becomes the appointment, in place of the confirmed one.
Appointed(f) ==
  [Resolve(f, f.pending, "ACCEPTED") EXCEPT
            !.visits = [r \in Rounds |->
               CASE r = f.pending -> [NoVisit EXCEPT !.status = "ACCEPTED"]
                 [] r = f.confirmed /\ r # f.pending -> [f.visits[r] EXCEPT !.status = "SUPERSEDED"]
                 [] OTHER -> f.visits[r]],
            !.confirmed = f.pending, !.pending = NoRound]

MayDecline(side) == wf.pending # NoRound /\ ~PendingBy(side)

MayAccept(side) == MayDecline(side) /\ NotStarted(wf)

Accept(side) ==
  /\ Calendar /\ MayAccept(side)
  /\ wf' = Bump(Appointed(wf))

Decline(side) ==
  /\ Calendar /\ MayDecline(side)
  /\ wf' = Bump(ResolvePending(wf, "DECLINED"))

MayProposeAlternative == PendingBy("PROVIDER") /\ BeforeCutoff

\* alternative-proposal: the applicant answers an offer with another date.
ProposeAlternative ==
  /\ Calendar /\ MayProposeAlternative
  /\ Offered(Bump(ResolvePending(wf, "SUPERSEDED")), "APPLICANT", wf')
  /\ wf'.offers[wf'.pending].start # wf.offers[wf.pending].start

MayCounterpropose == wf.pending # NoRound /\ NotStarted(wf)

Counterpropose ==
  /\ Calendar /\ MayCounterpropose
  /\ LET resolution == IF PendingBy("APPLICANT") THEN "DECLINED" ELSE "SUPERSEDED"
     IN  Offered(Bump(ResolvePending(wf, resolution)), "PROVIDER", wf')

MayReschedule(side) ==
  /\ wf.pending = NoRound /\ wf.confirmed # NoRound
  /\ NotStarted(wf)
  /\ side = "APPLICANT" => BeforeCutoff

\* replacement and alternative-appointment: the appointment stands meanwhile.
Reschedule(side) ==
  /\ Calendar /\ MayReschedule(side)
  /\ Offered(Bump(wf), side, wf')

WithdrawOffer ==
  /\ Calendar
  /\ PendingBy("APPLICANT")
  /\ wf' = Bump(ResolvePending(wf, "WITHDRAWN"))

\* cancelAppointment() of the confirmed appointment, if there is one.
Cancelled(f) ==
  IF f.confirmed = NoRound THEN f
  ELSE [f EXCEPT !.visits[f.confirmed].status = "CANCELLED", !.confirmed = NoRound]

MayCancel == wf.confirmed # NoRound /\ NotStarted(wf)

CancelAppointment ==
  /\ Calendar /\ MayCancel
  /\ wf' = Bump(Cancelled(ResolvePending(wf, "CLOSED")))

MayClose ==
  /\ wf.state = "OPEN"
  /\ wf.pending # NoRound \/ wf.confirmed # NoRound
  /\ NotStarted(wf)

\* close: the provider takes back what is pending or confirmed.
CloseCalendar ==
  /\ Calendar /\ MayClose
  /\ wf' = [Bump(Cancelled(ResolvePending(wf, "CLOSED")))
              EXCEPT !.state = "CLOSED", !.reason = "PROVIDER_CLOSED"]

-----------------------------------------------------------------------------
(***************************************************************************)
(* Decisions: the attendance outcome, the applicant's interest and the     *)
(* provider's consideration.                                               *)
(***************************************************************************)
IsCorrection(v) == wf.visits[v].outcomes = 1

MayCorrect(v, outcome) ==
  /\ IsLatest(wf, v)
  /\ IsCorrection(v)
  /\ wf.visits[v].interest \notin Answers
  /\ clock < wf.visits[v].recorded + CorrectionWindow
  /\ outcome # wf.visits[v].status

MayRecord(v) ==
  /\ wf.visits[v].status \in {"ACCEPTED", "OUTCOME_PENDING"}
  /\ wf.visits[v].outcomes = 0

\* The outcome COMPLETED asks the applicant for an interest.
Requests(v) ==
  /\ CanMutate /\ IsLatest(wf, v) /\ PostViewingOpen(wf)
  /\ wf.visits[v].interest # "CLOSED" /\ wf.visits[v].status # "OUTCOME_PENDING"

\* outcomeWithinTransaction(): this outcome moves the application to the end.
Penalizes(v, outcome) ==
  /\ CanMutate /\ IsLatest(wf, v) /\ wf.state = "OPEN"
  /\ outcome = "APPLICANT_ABSENT"
  /\ IsCorrection(v) \/ wf.confirmed = v

\* Mutated form of RestoresPlace: a place assigned since is overwritten.
RestoresPlaceBlindly(v) ==
  IsCorrection(v) /\ wf.visits[v].to # 0 /\ application = "ACTIVE"

\* A corrected no-show gives back the place, unless it has changed since.
RestoresPlace(v) ==
  /\ IsCorrection(v) /\ wf.visits[v].to # 0
  /\ application = "ACTIVE"
  /\ place.position = wf.visits[v].to /\ place.revision = wf.visits[v].toRevision

MovedBack ==
  [place EXCEPT !.position = place.issued + 1, !.issued = @ + 1, !.revision = @ + 1]

WithOutcome(v, outcome) ==
  LET visit == wf.visits[v]
      penalized == Penalizes(v, outcome)
  IN  [status |-> outcome, outcomes |-> visit.outcomes + 1,
       recorded |-> IF IsCorrection(v) THEN visit.recorded ELSE clock,
       interest |-> CASE outcome = "COMPLETED" /\ Requests(v) -> "PENDING"
                      [] outcome = "COMPLETED" /\ ~Requests(v) -> "CLOSED"
                      [] outcome # "COMPLETED" -> EndInterest(visit, {"PENDING"}).interest,
       due |-> IF outcome = "COMPLETED" /\ Requests(v) THEN clock + InterestWindow ELSE 0,
       from |-> IF penalized THEN place.position ELSE visit.from,
       to |-> IF penalized THEN MovedBack.position ELSE visit.to,
       toRevision |-> IF penalized THEN MovedBack.revision ELSE visit.toRevision]

MayGiveOutcome(v, outcome) ==
  /\ ProviderVisible
  /\ \A u \in Rounds : ~InterestOverdue(wf, u)
  /\ wf.visits[v].status # "NONE"
  /\ clock >= wf.offers[v].start + Duration
  /\ MayRecord(v) \/ MayCorrect(v, outcome)

\* The outcome of the confirmed appointment also ends the negotiation about it.
RecordOutcome(v, outcome) ==
  LET others == IF IsLatest(wf, v) THEN EndInterests(wf, {"PENDING"}) ELSE wf
      owned == IF wf.confirmed # v THEN others
               ELSE [ResolvePending(others, "CLOSED") EXCEPT !.confirmed = NoRound]
  IN  /\ MayGiveOutcome(v, outcome)
      /\ wf' = Bump([owned EXCEPT !.visits[v] = WithOutcome(v, outcome)])
      /\ place' = CASE Penalizes(v, outcome) -> MovedBack
                    [] RestoresPlace(v) -> [place EXCEPT !.position = wf.visits[v].from,
                                                         !.revision = @ + 1]
                    [] OTHER -> place
      /\ UNCHANGED <<application, activeAt, listing, clock>>

\* Mutated form of Answer: the reply to an older request is still taken.
AnswerAny(v, answer) ==
  /\ CanMutate
  /\ PostViewingOpen(wf)
  /\ wf.visits[v].status = "COMPLETED"
  /\ LET answered == [wf EXCEPT !.visits[v] = WithInterest(@, answer)]
     IN  IF answer = "NOT_INTERESTED"
         THEN wf' = Close(answered, FALSE) /\ application' = "WITHDRAWN"
         ELSE wf' = Bump(answered) /\ UNCHANGED application
  /\ UNCHANGED <<activeAt, listing, clock, place>>

MayAnswer(v) ==
  /\ CanMutate
  /\ PostViewingOpen(wf)
  /\ IsLatestCompleted(wf, v)
  /\ wf.visits[v].interest = "PENDING" /\ clock < wf.visits[v].due

\* Disinterest withdraws the application; it leaves the revision to the closure.
Answer(v, answer) ==
  LET answered == [wf EXCEPT !.visits[v] = WithInterest(@, answer)]
  IN  /\ MayAnswer(v)
      /\ \/ answer = "STILL_INTERESTED" /\ wf' = Bump(answered) /\ UNCHANGED application
         \/ answer = "NOT_INTERESTED" /\ wf' = Close(answered, FALSE) /\ application' = "WITHDRAWN"
      /\ UNCHANGED <<activeAt, listing, clock, place>>

MayConsider(v) ==
  /\ CanMutate
  /\ PostViewingOpen(wf)
  /\ IsLatestCompleted(wf, v)
  /\ wf.visits[v].interest # "CLOSED"
  /\ ~InterestOverdue(wf, v)

Consider(v, consideration) ==
  /\ MayConsider(v)
  /\ consideration # "DO_NOT_CONTINUE"
  /\ wf.revision < MaxRevision
  /\ wf' = Bump([wf EXCEPT !.consideration = consideration])
  /\ UNCHANGED <<application, activeAt, listing, clock, place>>

\* DO_NOT_CONTINUE is the provider's rejection and leaves the rest to it.
DoNotContinue(v) ==
  /\ MayConsider(v)
  /\ wf' = Close(wf, TRUE)
  /\ application' = "NOT_SELECTED"
  /\ UNCHANGED <<activeAt, listing, clock, place>>

-----------------------------------------------------------------------------
(***************************************************************************)
(* The operations of the module Applications, seen from one application.   *)
(* Whether there is a slot, and whether the provider's curation cooldown   *)
(* is over, depends on that module's state and is left open here.          *)
(***************************************************************************)
\* The trigger assign_active_consideration_position: a new place at every activation.
Activated ==
  [position |-> place.issued + 1, revision |-> place.revision + 1,
   issued |-> place.issued + 1, placed |-> place.issued + 1]

Withdraw ==
  /\ application \in {"ACTIVE", "WAITING"}
  /\ application' = "WITHDRAWN"
  /\ wf' = Close(wf, FALSE)
  /\ UNCHANGED <<activeAt, listing, clock, place>>

Reject ==
  /\ application = "ACTIVE"
  /\ application' = "NOT_SELECTED"
  /\ wf' = Close(wf, FALSE)
  /\ UNCHANGED <<activeAt, listing, clock, place>>

\* The applicant's profile is no longer eligible.
Revalidate ==
  /\ application \in {"ACTIVE", "WAITING"}
  /\ application' = "REJECTED"
  /\ wf' = Close(wf, FALSE)
  /\ UNCHANGED <<activeAt, listing, clock, place>>

Promote ==
  /\ application = "WAITING" /\ listing = "PUBLISHED"
  /\ place.issued < MaxIssued
  /\ application' = "ACTIVE" /\ activeAt' = TRUE
  /\ place' = Activated
  /\ UNCHANGED <<listing, clock, wf>>

\* restore(): to a free slot, or to the queue.
Restore ==
  /\ application = "NOT_SELECTED" /\ listing = "PUBLISHED"
  /\ place.issued < MaxIssued
  /\ wf' = RestoredWorkflow(wf)
  /\ \/ application' = "ACTIVE" /\ activeAt' = TRUE /\ place' = Activated
     \/ application' = "WAITING" /\ activeAt' = FALSE /\ UNCHANGED place
  /\ UNCHANGED <<listing, clock>>

\* publish(), pause() and resume(): the appointments stand.
SetListing(from, to) ==
  /\ listing = from
  /\ listing' = to
  /\ UNCHANGED <<application, activeAt, clock, wf, place>>

MoveToDraft ==
  /\ listing \in {"PUBLISHED", "PAUSED"}
  /\ listing' = "DRAFT"
  /\ wf' = Close(wf, FALSE)
  /\ UNCHANGED <<application, activeAt, clock, place>>

Archive ==
  /\ listing \in {"DRAFT", "PUBLISHED", "PAUSED"}
  /\ listing' = "ARCHIVED"
  /\ wf' = Close(wf, FALSE)
  /\ UNCHANGED <<application, activeAt, clock, place>>

\* rentListing() to this application or to another one.
Rent ==
  /\ listing \in {"PUBLISHED", "PAUSED"}
  /\ listing' = "RENTED"
  /\ \/ application = "ACTIVE" /\ application' = "ACCEPTED"
     \/ application \in {"ACTIVE", "WAITING"} /\ application' = "REJECTED"
     \/ application \notin {"ACTIVE", "WAITING"} /\ UNCHANGED application
  /\ wf' = Close(wf, FALSE)
  /\ UNCHANGED <<activeAt, clock, place>>

Tick ==
  /\ clock < MaxClock
  /\ clock' = clock + 1
  /\ UNCHANGED <<application, activeAt, listing, wf, place>>

-----------------------------------------------------------------------------
CalendarStep ==
  \/ Invite \/ ProposeAlternative \/ Counterpropose
  \/ WithdrawOffer \/ CancelAppointment \/ CloseCalendar
  \/ \E side \in Sides : Accept(side) \/ Decline(side) \/ Reschedule(side)

DecisionStep ==
  \E v \in Rounds :
    \/ \E outcome \in Outcomes : RecordOutcome(v, outcome)
    \/ \E answer \in Answers : Answer(v, answer)
    \/ \E consideration \in Considerations : Consider(v, consideration)
    \/ DoNotContinue(v)

LifecycleStep ==
  \/ Withdraw \/ Reject \/ Revalidate \/ Promote \/ Restore
  \/ SetListing("DRAFT", "PUBLISHED") \/ SetListing("PUBLISHED", "PAUSED")
  \/ SetListing("PAUSED", "PUBLISHED")
  \/ MoveToDraft \/ Archive \/ Rent

Next ==
  \/ CalendarStep \/ DecisionStep \/ LifecycleStep
  \/ ExpireOffer \/ \E v \in Rounds : ExpireInterest(v)
  \/ Tick

Spec == Init /\ [][Next]_vars

-----------------------------------------------------------------------------
(***************************************************************************)
(* Properties.                                                             *)
(***************************************************************************)
\* Every variable has its type, and a closed workflow has its reason.
TypeOK ==
  /\ application \in ApplicationStatus /\ activeAt \in BOOLEAN
  /\ listing \in ListingStatus
  /\ clock \in 1..MaxClock
  /\ wf \in Workflows
  /\ place \in Places
  /\ wf.state = "CLOSED" <=> wf.reason # "NONE"

\* The two pointers of the workflow and its ledger agree: the pending offer and
\* the confirmed appointment are the only ones that stand, an appointment is an
\* accepted offer, and nothing stands outside an open workflow.
CommitmentsMatch ==
  /\ \A r \in Rounds :
       /\ wf.offers[r].resolution = "PENDING" <=> r = wf.pending
       /\ wf.visits[r].status = "ACCEPTED" <=> r = wf.confirmed
       /\ wf.visits[r].status # "NONE" <=> wf.offers[r].resolution = "ACCEPTED"
  /\ wf.state # "OPEN" => wf.pending = NoRound /\ wf.confirmed = NoRound

\* No offer, appointment or interest request outlives the process it belongs to:
\* whatever ends it, on the application's or the listing's side, ends them too.
NothingOutlivesTheProcess ==
  \/ CanMutate
  \/ /\ wf.state # "OPEN"
     /\ \A r \in Rounds : wf.visits[r].interest # "PENDING"

\* An active application stands where its activation placed it, or behind that
\* for a no-show of the applicant that has not been corrected.
PlaceIsJustified ==
  application = "ACTIVE" =>
    \/ place.position = place.placed
    \/ /\ place.position > place.placed
       /\ \E r \in Rounds : /\ wf.visits[r].status = "APPLICANT_ABSENT"
                            /\ wf.visits[r].to = place.position

Commitments(f) ==
  <<f.state, f.pending, f.confirmed, f.consideration,
    [r \in Rounds |-> f.offers[r].resolution], [r \in Rounds |-> f.visits[r].status]>>

\* Whatever changes the commitments, command, expiry or lifecycle, moves the
\* revision on, so that a command built on the old picture is refused as stale.
RevisionTellsPicture ==
  [][wf' # wf => /\ wf'.revision >= wf.revision
                 /\ Commitments(wf') # Commitments(wf) => wf'.revision > wf.revision]_vars

\* Once its time has come an appointment is neither called off nor replaced: it
\* stands, or waits for its outcome, until the outcome is recorded.
StartedStands(r) ==
  /\ wf.visits[r].status \in {"ACCEPTED", "OUTCOME_PENDING"}
  /\ wf.offers[r].start <= clock
  => wf'.visits[r].status \in {wf.visits[r].status, "OUTCOME_PENDING"} \cup Outcomes

\* An offer is settled before its deadline or expires, and stays as settled.
OfferSettlesInTime(r) ==
  LET old == wf.offers[r].resolution
      new == wf'.offers[r].resolution
  IN  /\ old \notin {"NONE", "PENDING"} => new = old
      /\ old = "PENDING" /\ new = "EXPIRED" => clock >= wf.offers[r].deadline
      /\ old = "PENDING" /\ new \in {"ACCEPTED", "DECLINED", "WITHDRAWN"} =>
           clock < wf.offers[r].deadline

\* Time decides in every order of commands, sweeps and ends of the process: an
\* offer that has run out is never answered, and what has begun is never undone.
DeadlinesAreKept == [][\A r \in Rounds : StartedStands(r) /\ OfferSettlesInTime(r)]_vars

\* An applicant is asked about a visit once: an answer, an expiry or a closure is
\* final, whatever is corrected, reopened or restored afterwards.
AskedOnce ==
  [][\A r \in Rounds :
       wf.visits[r].interest \notin {"NOT_REQUESTED", "PENDING"} =>
         wf'.visits[r].interest = wf.visits[r].interest]_vars
=============================================================================

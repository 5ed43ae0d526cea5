---------------------------- MODULE Applications ----------------------------
(***************************************************************************)
(* The application lifecycle of src/applications: bounded ACTIVE slots per *)
(* listing, the FIFO waiting queue behind them, and the operations of      *)
(* applicants, providers, schedulers and listing status changes that take  *)
(* and release slots.                                                      *)
(*                                                                         *)
(* Every operation runs in one Serializable transaction that first locks   *)
(* the listing row, so each is one atomic action here; a transaction that  *)
(* exhausts its retries changes nothing.  Authorization is left out: an    *)
(* operation is taken by whoever may take it.                              *)
(***************************************************************************)
EXTENDS Integers, FiniteSets

CONSTANTS
  Attempts,         \* the rows the table "applications" may ever hold
  Applicants,
  Listings,
  ApplicantOf,      \* columns applicant_id and listing_id: [Attempts -> ...]
  ListingOf,
  Legacy,           \* attempts that may predate the event history
  Limit,            \* ACTIVE_APPLICATIONS_LIMIT
  Criteria,         \* what a listing may demand
  Profiles,         \* what an applicant may have entered
  NoProfile,        \* no profile yet
  Accepts,          \* the profiles each criteria accept: [Criteria -> SUBSET Profiles]
  CurationCooldown, \* PROVIDER_CURATION_COOLDOWN_MS
  ReapplyCooldown,  \* REAPPLICATION_COOLDOWN_MS
  MaxClock          \* bound on the clock

ASSUME AttemptsAssumption ==
  /\ IsFiniteSet(Attempts)
  /\ ApplicantOf \in [Attempts -> Applicants]
  /\ ListingOf \in [Attempts -> Listings]
  /\ Legacy \subseteq Attempts

ASSUME LimitAssumption == Limit \in Nat \ {0}

ASSUME EligibilityAssumption ==
  /\ NoProfile \notin Profiles
  /\ Accepts \in [Criteria -> SUBSET Profiles]

ASSUME ClockAssumption ==
  /\ CurationCooldown \in Nat \ {0}
  /\ ReapplyCooldown \in Nat
  /\ MaxClock \in Nat \ {0}

INSTANCE Admission

VARIABLES
  listingStatus,    \* [Listings -> ListingStatus]
  criteria,         \* the criteria in force of each listing
  profile,          \* the profile of each applicant
  clock,            \* Date.now(), never NoDate
  row,              \* the table "applications"
  nextOrder         \* the sequence behind applications.queue_order

vars == <<listingStatus, criteria, profile, clock, row, nextOrder>>

-----------------------------------------------------------------------------
(***************************************************************************)
(* State helpers.                                                          *)
(***************************************************************************)
NoAssessment == [criteria |-> NoProfile, profile |-> NoProfile]

Assessments == [criteria : Criteria, profile : Profiles \cup {NoProfile}]

Rows == [status : ApplicationStatus, publicReason : RejectionReason,
         createdAt : Nat, rejectedAt : Nat, activeAt : BOOLEAN,
         queueOrder : Nat, event : CurationEvent, eventAt : Nat,
         assessed : Assessments \cup {NoAssessment}]

\* A row that has not been created.
Unborn == [status |-> "NONE", publicReason |-> "NONE", createdAt |-> NoDate,
           rejectedAt |-> NoDate, activeAt |-> FALSE, queueOrder |-> 0,
           event |-> "NONE", eventAt |-> NoDate, assessed |-> NoAssessment]

Pair(a) == <<ApplicantOf[a], ListingOf[a]>>

\* The attempts of a listing with the given status, in a table rw.
WithStatus(rw, l, status) == {a \in Attempts : ListingOf[a] = l /\ rw[a].status = status}

Live(r) == r.status \in LiveStatus

\* The rows historyForListings() reads for the pair of a.
History(rw, a) == {rw[b] : b \in {c \in Attempts : Pair(c) = Pair(a) /\ rw[c].status # "NONE"}}

\* canApply of EligibilityService.evaluate().
Eligible(prof, crit, a) == prof[ApplicantOf[a]] \in Accepts[crit[ListingOf[a]]]

\* What record() appends to the assessments of an attempt; only the last is kept.
Assessment(prof, crit, a) ==
  [criteria |-> crit[ListingOf[a]], profile |-> prof[ApplicantOf[a]]]

(***************************************************************************)
(* reconcileWithinTransaction(): the waiting attempts it promotes are the  *)
(* eligible ones that fewer eligible ones precede than there are slots.    *)
(***************************************************************************)
EligibleWaiting(rw, prof, l) ==
  {w \in WithStatus(rw, l, "WAITING") : Eligible(prof, criteria, w)}

\* Mutated form of Ahead: the queue served from its end.
AheadNewestFirst(rw, prof, w) ==
  {v \in EligibleWaiting(rw, prof, ListingOf[w]) : rw[v].queueOrder > rw[w].queueOrder}

Ahead(rw, prof, w) ==
  {v \in EligibleWaiting(rw, prof, ListingOf[w]) : rw[v].queueOrder < rw[w].queueOrder}

Slots(rw, l) == Limit - Cardinality(WithStatus(rw, l, "ACTIVE"))

\* Mutated form of Promoted: one promotion more than there are slots.
PromotedOneTooMany(rw, prof, l) ==
  {w \in EligibleWaiting(rw, prof, l) : Cardinality(Ahead(rw, prof, w)) <= Slots(rw, l)}

Promoted(rw, prof, l) ==
  {w \in EligibleWaiting(rw, prof, l) : Cardinality(Ahead(rw, prof, w)) < Slots(rw, l)}

Activated(r, prof, a) ==
  [r EXCEPT !.status = "ACTIVE", !.activeAt = TRUE, !.assessed = Assessment(prof, criteria, a)]

\* The table after the waiting queues of the listings in L have been served.
Reconcile(rw, prof, L) ==
  [a \in Attempts |->
     IF ListingOf[a] \in L /\ a \in Promoted(rw, prof, ListingOf[a])
     THEN Activated(rw[a], prof, a) ELSE rw[a]]

\* promoteWithinTransaction() does nothing unless the listing is PUBLISHED.
Promote(rw, l) == Reconcile(rw, profile, {k \in {l} : listingStatus[k] = "PUBLISHED"})

-----------------------------------------------------------------------------
(***************************************************************************)
(* Rejections and restorations of a single row.                            *)
(***************************************************************************)
Rejected(r, reason) ==
  [r EXCEPT !.status = "REJECTED", !.rejectedAt = clock, !.publicReason = reason]

Withdrawn(r) == [r EXCEPT !.status = "WITHDRAWN"]

\* The provider's rejection also appends a REJECTED_BY_PROVIDER event.
NotSelected(r) == [Rejected(r, "NOT_SELECTED") EXCEPT !.event = "REJECTED", !.eventAt = clock]

\* A restoration to a slot, or to the given place of the waiting queue.
Restored(a, status, order) ==
  [row[a] EXCEPT !.status = status, !.activeAt = (status = "ACTIVE"), !.queueOrder = order,
                 !.rejectedAt = NoDate, !.publicReason = "NONE",
                 !.event = "RESTORED", !.eventAt = clock,
                 !.assessed = Assessment(profile, criteria, a)]

CurationCooldownOver(a) == CurationAllowed(row[a].eventAt, clock, CurationCooldown)

\* Mutated form of HasNewerAttempt: attempts that are over do not count.
HasNewerLiveAttempt(a) ==
  \E b \in Attempts : /\ Pair(b) = Pair(a)
                      /\ Live(row[b])
                      /\ row[b].createdAt > row[a].createdAt

\* hasNewerAttempt()
HasNewerAttempt(a) ==
  \E b \in Attempts : /\ Pair(b) = Pair(a)
                      /\ row[b].status # "NONE"
                      /\ row[b].createdAt > row[a].createdAt

-----------------------------------------------------------------------------
(***************************************************************************)
(* A rejection from before the event history: its date may be missing, and *)
(* so may its reason.                                                      *)
(***************************************************************************)
LegacyRow(reason, date) ==
  [status |-> "REJECTED", publicReason |-> reason, createdAt |-> 1,
   rejectedAt |-> date, activeAt |-> TRUE, queueOrder |-> 1,
   event |-> "NONE", eventAt |-> NoDate, assessed |-> NoAssessment]

Init ==
  /\ listingStatus \in [Listings -> {"DRAFT", "PUBLISHED"}]
  /\ criteria \in [Listings -> Criteria]
  /\ profile \in [Applicants -> Profiles \cup {NoProfile}]
  /\ clock = 1
  /\ \/ row = [a \in Attempts |-> Unborn] /\ nextOrder = 1
     \/ \E a \in Legacy, reason \in {"NONE", "NOT_SELECTED"}, date \in {NoDate, 1} :
          /\ row = [[b \in Attempts |-> Unborn] EXCEPT ![a] = LegacyRow(reason, date)]
          /\ nextOrder = 2

-----------------------------------------------------------------------------
(***************************************************************************)
(* Applicants.                                                             *)
(***************************************************************************)
\* A new attempt is dated after every attempt of its pair.
SubmissionDate(a) ==
  LET Dates == {clock} \cup {r.createdAt + 1 : r \in History(row, a)}
  IN  CHOOSE d \in Dates : \A e \in Dates : e <= d

\* Mutated form of Submitted: the place in the queue is the date.
SubmittedByDate(a, status) ==
  [Unborn EXCEPT !.status = status, !.createdAt = SubmissionDate(a),
                 !.activeAt = (status = "ACTIVE"), !.queueOrder = SubmissionDate(a),
                 !.assessed = Assessment(profile, criteria, a)]

Submitted(a, status) ==
  [Unborn EXCEPT !.status = status, !.createdAt = SubmissionDate(a),
                 !.activeAt = (status = "ACTIVE"), !.queueOrder = nextOrder,
                 !.assessed = Assessment(profile, criteria, a)]

\* May... is what an operation asks before it does anything.
MayApply(a) ==
  /\ row[a].status = "NONE"
  /\ CanSubmit(History(row, a), listingStatus[ListingOf[a]], Eligible(profile, criteria, a), clock)

\* apply(): the queue is served before the newcomer is offered what is left.
Apply(a) ==
  LET l == ListingOf[a]
      served == Promote(row, l)
  IN  /\ MayApply(a)
      /\ row' = [served EXCEPT ![a] =
                   Submitted(a, IF Slots(served, l) > 0 THEN "ACTIVE" ELSE "WAITING")]
      /\ nextOrder' = nextOrder + 1
      /\ UNCHANGED <<listingStatus, criteria, profile, clock>>

MayWithdraw(a) == CanWithdraw(row[a])

\* withdraw()
Withdraw(a) ==
  LET withdrawn == [row EXCEPT ![a] = Withdrawn(@)]
  IN  /\ MayWithdraw(a)
      /\ row' = IF row[a].status = "ACTIVE" THEN Promote(withdrawn, ListingOf[a]) ELSE withdrawn
      /\ UNCHANGED <<listingStatus, criteria, profile, clock, nextOrder>>

(***************************************************************************)
(* ApplicantProfileService.upsert(): every live attempt of the applicant   *)
(* is assessed anew, those no longer eligible are rejected and the slots   *)
(* they held are offered to the queue.                                     *)
(***************************************************************************)
Revalidated(r, prof, a) ==
  LET assessed == [r EXCEPT !.assessed = Assessment(prof, criteria, a)]
  IN  IF Eligible(prof, criteria, a) THEN assessed
      ELSE Rejected(assessed, "PROFILE_NO_LONGER_ELIGIBLE")

RevalidatedTable(p, prof) ==
  [a \in Attempts |-> IF ApplicantOf[a] = p /\ Live(row[a])
                      THEN Revalidated(row[a], prof, a) ELSE row[a]]

\* The published listings where the table rw has given up an ACTIVE application.
Released(rw) ==
  {l \in Listings : /\ listingStatus[l] = "PUBLISHED"
                    /\ \E a \in WithStatus(row, l, "ACTIVE") : rw[a].status # "ACTIVE"}

UpdateProfile(p, new) ==
  LET revalidated == RevalidatedTable(p, profile')
  IN  /\ profile' = [profile EXCEPT ![p] = new]
      /\ row' = Reconcile(revalidated, profile', Released(revalidated))
      /\ UNCHANGED <<listingStatus, criteria, clock, nextOrder>>

-----------------------------------------------------------------------------
(***************************************************************************)
(* Providers.                                                              *)
(***************************************************************************)
MayReject(a) == row[a].status = "ACTIVE" /\ CurationCooldownOver(a)

\* reject(), in a listing of any status
Reject(a) ==
  /\ MayReject(a)
  /\ row' = Promote([row EXCEPT ![a] = NotSelected(@)], ListingOf[a])
  /\ UNCHANGED <<listingStatus, criteria, profile, clock, nextOrder>>

MayRestore(a) ==
  /\ listingStatus[ListingOf[a]] = "PUBLISHED"
  /\ row[a].status = "REJECTED" /\ row[a].publicReason = "NOT_SELECTED"
  /\ ~HasNewerAttempt(a)
  /\ Eligible(profile, criteria, a)
  /\ CurationCooldownOver(a)

\* restore(): back to a slot the queue leaves free, or else to the queue's tail.
Restore(a) ==
  LET served == Promote(row, ListingOf[a])
  IN  /\ MayRestore(a)
      /\ \/ /\ Slots(served, ListingOf[a]) > 0
            /\ row' = [served EXCEPT ![a] = Restored(a, "ACTIVE", row[a].queueOrder)]
            /\ UNCHANGED nextOrder
         \/ /\ Slots(served, ListingOf[a]) <= 0
            /\ row' = [served EXCEPT ![a] = Restored(a, "WAITING", nextOrder)]
            /\ nextOrder' = nextOrder + 1
      /\ UNCHANGED <<listingStatus, criteria, profile, clock>>

(***************************************************************************)
(* ListingsService.update() of a criteria field: every live attempt is     *)
(* assessed against the new revision; nobody is rejected or promoted.      *)
(***************************************************************************)
ReassessedTable(l, crit) ==
  [a \in Attempts |-> IF ListingOf[a] = l /\ Live(row[a])
                      THEN [row[a] EXCEPT !.assessed = Assessment(profile, crit, a)] ELSE row[a]]

UpdateCriteria(l, new) ==
  /\ new # criteria[l]
  /\ criteria' = [criteria EXCEPT ![l] = new]
  /\ row' = ReassessedTable(l, criteria')
  /\ UNCHANGED <<listingStatus, profile, clock, nextOrder>>

\* publish() and resume(): a listing returning to PUBLISHED serves its queue.
GoPublic(l, from) ==
  /\ listingStatus[l] = from
  /\ listingStatus' = [listingStatus EXCEPT ![l] = "PUBLISHED"]
  /\ row' = Reconcile(row, profile, {l})
  /\ UNCHANGED <<criteria, profile, clock, nextOrder>>

Publish(l) == GoPublic(l, "DRAFT")

Resume(l) == GoPublic(l, "PAUSED")

\* moveToDraft(), pause() and archive(): the applications stay as they are.
GoDark(l, from, to) ==
  /\ listingStatus[l] \in from
  /\ listingStatus' = [listingStatus EXCEPT ![l] = to]
  /\ UNCHANGED <<criteria, profile, clock, row, nextOrder>>

MoveToDraft(l) == GoDark(l, {"PUBLISHED", "PAUSED"}, "DRAFT")

Pause(l) == GoDark(l, {"PUBLISHED"}, "PAUSED")

Archive(l) == GoDark(l, {"DRAFT", "PUBLISHED", "PAUSED"}, "ARCHIVED")

\* rentListing(): the selected attempt is accepted and the process is over.
RentedTable(a) ==
  [b \in Attempts |->
     CASE b = a -> [row[b] EXCEPT !.status = "ACCEPTED"]
       [] b # a /\ ListingOf[b] = ListingOf[a] /\ Live(row[b]) -> Rejected(row[b], "LISTING_RENTED")
       [] OTHER -> row[b]]

MayRent(a) == row[a].status = "ACTIVE" /\ listingStatus[ListingOf[a]] \in {"PUBLISHED", "PAUSED"}

Rent(a) ==
  /\ MayRent(a)
  /\ listingStatus' = [listingStatus EXCEPT ![ListingOf[a]] = "RENTED"]
  /\ row' = RentedTable(a)
  /\ UNCHANGED <<criteria, profile, clock, nextOrder>>

-----------------------------------------------------------------------------
(***************************************************************************)
(* Schedulers and time.                                                    *)
(***************************************************************************)
\* expireViewingInterest...(): the applicant let the viewing's answer lapse.
ExpireViewingInterest(a) ==
  /\ row[a].status = "ACTIVE"
  /\ listingStatus[ListingOf[a]] \in {"PUBLISHED", "PAUSED"}
  /\ row' = Promote([row EXCEPT ![a] = Rejected(@, "POST_VIEWING_RESPONSE_EXPIRED")], ListingOf[a])
  /\ UNCHANGED <<listingStatus, criteria, profile, clock, nextOrder>>

\* promoteWaitingApplications(): an internal operation without a route.
PromoteWaiting(l) ==
  /\ row' = Promote(row, l)
  /\ UNCHANGED <<listingStatus, criteria, profile, clock, nextOrder>>

Tick ==
  /\ clock < MaxClock
  /\ clock' = clock + 1
  /\ UNCHANGED <<listingStatus, criteria, profile, row, nextOrder>>

AttemptStep(a) ==
  Apply(a) \/ Withdraw(a) \/ Reject(a) \/ Restore(a) \/ ExpireViewingInterest(a) \/ Rent(a)

ListingStep(l) ==
  \/ Publish(l) \/ MoveToDraft(l) \/ Pause(l) \/ Resume(l) \/ Archive(l)
  \/ PromoteWaiting(l)
  \/ \E c \in Criteria : UpdateCriteria(l, c)

Next ==
  \/ \E a \in Attempts : AttemptStep(a)
  \/ \E l \in Listings : ListingStep(l)
  \/ \E p \in Applicants, new \in Profiles : UpdateProfile(p, new)
  \/ Tick

Spec == Init /\ [][Next]_vars

-----------------------------------------------------------------------------
(***************************************************************************)
(* Properties.                                                             *)
(***************************************************************************)
\* Every variable has its type, and no sequence value or date is issued early.
TypeOK ==
  /\ listingStatus \in [Listings -> ListingStatus]
  /\ criteria \in [Listings -> Criteria]
  /\ profile \in [Applicants -> Profiles \cup {NoProfile}]
  /\ clock \in 1..MaxClock
  /\ row \in [Attempts -> Rows]
  /\ nextOrder \in Nat \ {0}

\* A listing never has more ACTIVE applications than it has slots, whichever
\* of applying, restoring, promoting and publishing hands the slots out.
ActiveWithinLimit == \A l \in Listings : Cardinality(WithStatus(row, l, "ACTIVE")) <= Limit

Born(a) == row[a].status # "NONE"

Rivals(a, b) == a # b /\ Pair(a) = Pair(b) /\ Born(a) /\ Born(b)

\* The attempts of an applicant at a listing have distinct dates and only the
\* newest is live or accepted: an old attempt is never revived beside a newer one.
OnlyNewestAttemptIsCurrent ==
  \A a, b \in Attempts :
    Rivals(a, b) => /\ row[a].createdAt # row[b].createdAt
                    /\ row[a].status \in LiveStatus \cup {"ACCEPTED"} =>
                         row[a].createdAt > row[b].createdAt

\* The persisted dates prove the reapplication cooldown: an attempt that follows
\* one the provider rejected and did not restore is at least the cooldown younger.
CooldownRespected ==
  \A a, b \in Attempts :
    /\ Rivals(a, b)
    /\ row[b].event = "REJECTED"
    /\ row[a].createdAt > row[b].createdAt
    => row[a].createdAt >= row[b].eventAt + ReapplyCooldown

\* An application joins the waiting queue behind all who wait and keeps its place
\* until it leaves, also when it is restored to the queue it once left.
QueueIsAppendOnly ==
  [][\A a, w \in Attempts :
       row'[a].status = "WAITING" =>
         IF row[a].status = "WAITING" THEN row'[a].queueOrder = row[a].queueOrder
         ELSE row[w].status = "WAITING" => row'[a].queueOrder > row[w].queueOrder]_vars

=============================================================================

------------------------- MODULE ApplicationsProofs -------------------------
(***************************************************************************)
(* Proofs about Applications for any number of applicants, listings and    *)
(* attempts, any limit, any cooldowns and any criteria.                    *)
(*                                                                         *)
(* The argument has three parts: facts about single rows, facts about      *)
(* Reconcile (which rows it changes, and that the ranks of the waiting     *)
(* rows are distinct, so that it never hands out more slots than are       *)
(* free), and the inductive invariant IInv, one step per action.           *)
(*                                                                         *)
(* The readers follow: ReadInv relates the rows to the history of          *)
(* transitions, of which only the telling part is kept, and from it the    *)
(* provider's lists show everybody who took part and nobody else.          *)
(*                                                                         *)
(* Then each listing is shown to implement AdmissionQueue: leaving,        *)
(* coming, serving and closing are each matched once, for every operation; *)
(* and from the queue, that nobody eligible who waits is overtaken.        *)
(*                                                                         *)
(* The paging loop promotes whom Applications says, by a recursion that is *)
(* reasoned about through its last counterexample.                         *)
(*                                                                         *)
(* Last, the criteria and profiles behind the decisions: every rule is the *)
(* same as a check and as a condition of a query, so that the listings an  *)
(* applicant is shown as matching are those that take the profile.         *)
(***************************************************************************)
EXTENDS ApplicationReads, ApplicationQueues, ApplicationDiscovery, WaitingPromotion, ListingDiscovery,
        FiniteSetTheorems, TLAPS

USE DEF NoDate, MayApply, MayWithdraw, MayReject, MayRestore, MayRent

-----------------------------------------------------------------------------
(***************************************************************************)
(* Single rows.                                                            *)
(***************************************************************************)
\* The columns of a row have their types.
LEMMA RowColumns ==
  ASSUME NEW r \in Rows
  PROVE  /\ r.status \in ApplicationStatus /\ r.publicReason \in RejectionReason
         /\ r.createdAt \in Nat /\ r.rejectedAt \in Nat /\ r.activeAt \in BOOLEAN
         /\ r.queueOrder \in Nat /\ r.event \in CurationEvent /\ r.eventAt \in Nat
         /\ r.assessed \in Assessments \cup {NoAssessment}
BY DEF Rows

\* What record() appends is an assessment.
LEMMA AssessmentType ==
  ASSUME NEW prof \in [Applicants -> Profiles \cup {NoProfile}],
         NEW crit \in [Listings -> Criteria], NEW a \in Attempts
  PROVE  Assessment(prof, crit, a) \in Assessments
BY AttemptsAssumption DEF Assessment, Assessments

\* The operators that rewrite a row yield rows and change only the columns they name.
LEMMA RejectedRow ==
  ASSUME NEW r \in Rows, NEW reason \in RejectionReason, clock \in Nat
  PROVE  /\ Rejected(r, reason) \in Rows
         /\ Rejected(r, reason).status = "REJECTED"
         /\ Rejected(r, reason).publicReason = reason
         /\ Rejected(r, reason).createdAt = r.createdAt
         /\ Rejected(r, reason).queueOrder = r.queueOrder
         /\ Rejected(r, reason).activeAt = r.activeAt
         /\ Rejected(r, reason).event = r.event
         /\ Rejected(r, reason).eventAt = r.eventAt
         /\ Rejected(r, reason).rejectedAt = clock
BY DEF Rejected, Rows, ApplicationStatus

\* Withdrawing changes the status only.
LEMMA WithdrawnRow ==
  ASSUME NEW r \in Rows
  PROVE  /\ Withdrawn(r) \in Rows
         /\ Withdrawn(r).status = "WITHDRAWN"
         /\ Withdrawn(r).createdAt = r.createdAt
         /\ Withdrawn(r).queueOrder = r.queueOrder
         /\ Withdrawn(r).activeAt = r.activeAt
         /\ Withdrawn(r).event = r.event
         /\ Withdrawn(r).eventAt = r.eventAt
         /\ Withdrawn(r).publicReason = r.publicReason
BY DEF Withdrawn, Rows, ApplicationStatus

\* A promotion changes the status, activeAt and the assessment.
LEMMA ActivatedRow ==
  ASSUME NEW r \in Rows, NEW prof \in [Applicants -> Profiles \cup {NoProfile}],
         criteria \in [Listings -> Criteria], NEW a \in Attempts
  PROVE  /\ Activated(r, prof, a) \in Rows
         /\ Activated(r, prof, a).status = "ACTIVE" /\ Activated(r, prof, a).activeAt
         /\ Activated(r, prof, a).createdAt = r.createdAt
         /\ Activated(r, prof, a).queueOrder = r.queueOrder
         /\ Activated(r, prof, a).event = r.event
         /\ Activated(r, prof, a).eventAt = r.eventAt
         /\ Activated(r, prof, a).publicReason = r.publicReason
         /\ Activated(r, prof, a).rejectedAt = r.rejectedAt
         /\ Activated(r, prof, a).assessed = Assessment(prof, criteria, a)
<1>1. Assessment(prof, criteria, a) \in Assessments \cup {NoAssessment}
  BY AssessmentType
<1> QED BY <1>1 DEF Activated, Rows, ApplicationStatus

\* The provider's rejection changes the status, its reason and date, and the event.
LEMMA NotSelectedRow ==
  ASSUME NEW r \in Rows, clock \in Nat
  PROVE  /\ NotSelected(r) \in Rows
         /\ NotSelected(r).status = "REJECTED"
         /\ NotSelected(r).publicReason = "NOT_SELECTED"
         /\ NotSelected(r).createdAt = r.createdAt
         /\ NotSelected(r).queueOrder = r.queueOrder
         /\ NotSelected(r).activeAt = r.activeAt
         /\ NotSelected(r).event = "REJECTED"
         /\ NotSelected(r).eventAt = clock
BY DEF NotSelected, Rejected, Rows, ApplicationStatus, RejectionReason, CurationEvent

\* A restoration keeps the date of the attempt only.
LEMMA RestoredRow ==
  ASSUME row \in [Attempts -> Rows], NEW a \in Attempts, NEW status \in LiveStatus,
         NEW order \in Nat, clock \in Nat,
         profile \in [Applicants -> Profiles \cup {NoProfile}],
         criteria \in [Listings -> Criteria]
  PROVE  /\ Restored(a, status, order) \in Rows
         /\ Restored(a, status, order).status = status
         /\ Restored(a, status, order).activeAt = (status = "ACTIVE")
         /\ Restored(a, status, order).publicReason = "NONE"
         /\ Restored(a, status, order).createdAt = row[a].createdAt
         /\ Restored(a, status, order).queueOrder = order
         /\ Restored(a, status, order).event = "RESTORED"
         /\ Restored(a, status, order).eventAt = clock
         /\ Restored(a, status, order).assessed = Assessment(profile, criteria, a)
<1>1. Assessment(profile, criteria, a) \in Assessments \cup {NoAssessment}
  BY AssessmentType
<1>2. row[a] \in Rows
  OBVIOUS
<1> QED BY <1>1, <1>2
        DEF Restored, Rows, ApplicationStatus, LiveStatus, RejectionReason, CurationEvent

\* The row of an attempt that was never made.
LEMMA UnbornRow == Unborn \in Rows
BY DEF Unborn, Rows, ApplicationStatus, RejectionReason, CurationEvent

-----------------------------------------------------------------------------
(***************************************************************************)
(* Reconcile.                                                              *)
(***************************************************************************)
Table == [Attempts -> Rows]

ProfileType == [Applicants -> Profiles \cup {NoProfile}]

\* No two rows of a table share a place in the queue.
OrdersDistinct(rw) ==
  \A a, b \in Attempts :
    a # b /\ rw[a].status # "NONE" /\ rw[b].status # "NONE" => rw[a].queueOrder # rw[b].queueOrder

\* The rows of a listing in a status, and the waiting ones ahead, are finite sets.
LEMMA FiniteSelections ==
  ASSUME NEW rw, NEW prof, NEW l, NEW st, NEW w
  PROVE  /\ IsFiniteSet(WithStatus(rw, l, st))
         /\ IsFiniteSet(EligibleWaiting(rw, prof, l))
         /\ IsFiniteSet(Ahead(rw, prof, w))
         /\ IsFiniteSet(Promoted(rw, prof, l))
         /\ Cardinality(WithStatus(rw, l, st)) \in Nat
         /\ Cardinality(Ahead(rw, prof, w)) \in Nat
         /\ Cardinality(Promoted(rw, prof, l)) \in Nat
<1>1. /\ WithStatus(rw, l, st) \in SUBSET Attempts
      /\ EligibleWaiting(rw, prof, l) \in SUBSET Attempts
      /\ Ahead(rw, prof, w) \in SUBSET Attempts
      /\ Promoted(rw, prof, l) \in SUBSET Attempts
  BY DEF WithStatus, EligibleWaiting, Ahead, Promoted
<1>2. ASSUME NEW T \in SUBSET Attempts
      PROVE  IsFiniteSet(T) /\ Cardinality(T) \in Nat
  BY FS_Subset, FS_CardinalityType, AttemptsAssumption
<1> QED BY <1>1, <1>2

\* Reconciling changes a row only by activating a waiting, eligible one of the
\* listings served, and leaves its dates, place and events alone.
LEMMA ReconciledRows ==
  ASSUME NEW rw \in Table, NEW prof \in ProfileType, NEW L,
         criteria \in [Listings -> Criteria]
  PROVE  /\ Reconcile(rw, prof, L) \in Table
         /\ \A a \in Attempts :
              LET s == Reconcile(rw, prof, L)[a]
              IN  /\ s.createdAt = rw[a].createdAt
                  /\ s.queueOrder = rw[a].queueOrder
                  /\ s.event = rw[a].event
                  /\ s.eventAt = rw[a].eventAt
                  /\ s.publicReason = rw[a].publicReason
                  /\ s.rejectedAt = rw[a].rejectedAt
                  /\ \/ s = rw[a] /\ ~(ListingOf[a] \in L /\ a \in Promoted(rw, prof, ListingOf[a]))
                     \/ /\ ListingOf[a] \in L
                        /\ a \in Promoted(rw, prof, ListingOf[a])
                        /\ rw[a].status = "WAITING"
                        /\ Eligible(prof, criteria, a)
                        /\ s.status = "ACTIVE" /\ s.activeAt
                        /\ s.assessed = Assessment(prof, criteria, a)
<1>1. ASSUME NEW a \in Attempts
      PROVE  /\ Activated(rw[a], prof, a) \in Rows
             /\ Activated(rw[a], prof, a).status = "ACTIVE" /\ Activated(rw[a], prof, a).activeAt
             /\ Activated(rw[a], prof, a).createdAt = rw[a].createdAt
             /\ Activated(rw[a], prof, a).queueOrder = rw[a].queueOrder
             /\ Activated(rw[a], prof, a).event = rw[a].event
             /\ Activated(rw[a], prof, a).eventAt = rw[a].eventAt
             /\ Activated(rw[a], prof, a).publicReason = rw[a].publicReason
             /\ Activated(rw[a], prof, a).rejectedAt = rw[a].rejectedAt
             /\ Activated(rw[a], prof, a).assessed = Assessment(prof, criteria, a)
  BY ActivatedRow DEF Table, ProfileType
<1>2. ASSUME NEW a \in Attempts, a \in Promoted(rw, prof, ListingOf[a])
      PROVE  rw[a].status = "WAITING" /\ Eligible(prof, criteria, a)
  BY <1>2 DEF Promoted, EligibleWaiting, WithStatus
<1> QED BY <1>1, <1>2 DEF Reconcile, Table

\* A waiting row is ahead of more rows than every row ahead of it.
LEMMA RanksIncrease ==
  ASSUME NEW rw \in Table, NEW prof, NEW l,
         NEW v \in EligibleWaiting(rw, prof, l), NEW w \in EligibleWaiting(rw, prof, l),
         rw[v].queueOrder < rw[w].queueOrder
  PROVE  Cardinality(Ahead(rw, prof, v)) < Cardinality(Ahead(rw, prof, w))
<1>1. /\ v \in Attempts /\ w \in Attempts
      /\ ListingOf[v] = l /\ ListingOf[w] = l
  BY DEF EligibleWaiting, WithStatus
<1>2. /\ v \notin Ahead(rw, prof, v)
      /\ Ahead(rw, prof, v) \cup {v} \in SUBSET Ahead(rw, prof, w)
  <2>1. \A u \in Attempts : rw[u].queueOrder \in Nat
    BY RowColumns DEF Table
  <2>2. v \notin Ahead(rw, prof, v)
    BY <1>1, <2>1 DEF Ahead
  <2>3. v \in Ahead(rw, prof, w)
    BY <1>1 DEF Ahead
  <2>4. ASSUME NEW u \in Ahead(rw, prof, v) PROVE u \in Ahead(rw, prof, w)
    <3>1. u \in EligibleWaiting(rw, prof, l) /\ u \in Attempts
          /\ rw[u].queueOrder < rw[v].queueOrder
      BY <1>1 DEF Ahead, EligibleWaiting, WithStatus
    <3>2. rw[u].queueOrder < rw[w].queueOrder
      BY <1>1, <2>1, <3>1
    <3> QED BY <1>1, <3>1, <3>2 DEF Ahead
  <2> QED BY <2>2, <2>3, <2>4
<1>3. IsFiniteSet(Ahead(rw, prof, v)) /\ IsFiniteSet(Ahead(rw, prof, w))
      /\ Cardinality(Ahead(rw, prof, v)) \in Nat /\ Cardinality(Ahead(rw, prof, w)) \in Nat
  BY FiniteSelections
<1>4. Cardinality(Ahead(rw, prof, v) \cup {v}) = Cardinality(Ahead(rw, prof, v)) + 1
  BY <1>2, <1>3, FS_AddElement
<1>5. Cardinality(Ahead(rw, prof, v) \cup {v}) <= Cardinality(Ahead(rw, prof, w))
  BY <1>2, <1>3, FS_Subset
<1> QED BY <1>3, <1>4, <1>5

\* Reconciling promotes at most as many rows as there are slots.
LEMMA PromotedFitTheSlots ==
  ASSUME NEW rw \in Table, NEW prof, NEW l, OrdersDistinct(rw),
         Slots(rw, l) \in Nat
  PROVE  Cardinality(Promoted(rw, prof, l)) <= Slots(rw, l)
<1> DEFINE P == Promoted(rw, prof, l)
           k == Slots(rw, l)
           rank == [w \in P |-> Cardinality(Ahead(rw, prof, w))]
<1>1. ASSUME NEW w \in P
      PROVE  /\ w \in EligibleWaiting(rw, prof, l) /\ w \in Attempts
             /\ rw[w].status = "WAITING" /\ rw[w].queueOrder \in Nat
             /\ Cardinality(Ahead(rw, prof, w)) \in 0..(k - 1)
  <2>1. w \in EligibleWaiting(rw, prof, l) /\ w \in Attempts /\ rw[w].status = "WAITING"
        /\ Cardinality(Ahead(rw, prof, w)) < k
    BY DEF Promoted, EligibleWaiting, WithStatus
  <2>2. Cardinality(Ahead(rw, prof, w)) \in Nat
    BY FiniteSelections
  <2>3. rw[w].queueOrder \in Nat
    BY <2>1, RowColumns DEF Table
  <2> QED BY <2>1, <2>2, <2>3
<1>2. rank \in [P -> 0..(k - 1)]
  BY <1>1
<1>3. ASSUME NEW v \in P, NEW w \in P, v # w
      PROVE  rank[v] # rank[w]
  <2>1. rw[v].queueOrder # rw[w].queueOrder
    BY <1>1, <1>3 DEF OrdersDistinct
  <2>2. rw[v].queueOrder < rw[w].queueOrder \/ rw[w].queueOrder < rw[v].queueOrder
    BY <1>1, <2>1
  <2>3. Cardinality(Ahead(rw, prof, v)) # Cardinality(Ahead(rw, prof, w))
    BY <1>1, <2>2, RanksIncrease
  <2> QED BY <2>3
<1>4. rank \in Injection(P, 0..(k - 1))
  BY <1>2, <1>3 DEF Injection, IsInjective
<1>5. IsFiniteSet(0..(k - 1)) /\ Cardinality(0..(k - 1)) = k
  <2>1. 0 \in Int /\ k - 1 \in Int OBVIOUS
  <2> QED BY <2>1, FS_Interval
<1> HIDE DEF P, k, rank
<1>6. Cardinality(P) <= Cardinality(0..(k - 1))
  BY <1>4, <1>5, FS_Injection
<1> QED BY <1>5, <1>6 DEF P, k

-----------------------------------------------------------------------------
(***************************************************************************)
(* The date of a new attempt.                                              *)
(***************************************************************************)
\* A finite, nonempty set of numbers has a greatest element.
LEMMA GreatestElement ==
  ASSUME NEW D \in SUBSET Nat, IsFiniteSet(D), D # {}
  PROVE  \E d \in D : \A e \in D : e <= d
<1> DEFINE Above(d) == {e \in D : d < e}
           F == {Above(d) : d \in D}
<1>1. F \subseteq FiniteSubsetsOf(D) /\ F # {}
  <2>1. ASSUME NEW d \in D PROVE Above(d) \in FiniteSubsetsOf(D)
    <3>1. Above(d) \in SUBSET D
      OBVIOUS
    <3>2. IsFiniteSet(Above(d))
      <4> HIDE DEF Above
      <4> QED BY <3>1, FS_Subset
    <3> QED BY <3>1, <3>2 DEF FiniteSubsetsOf
  <2> QED BY <2>1
<1>2. IsWellFoundedOn(StrictSubsetOrdering(D), FiniteSubsetsOf(D))
  BY FS_StrictSubsetOrderingWellFounded
<1>3. PICK T \in F : \A U \in F : <<U, T>> \notin StrictSubsetOrdering(D)
  <2> HIDE DEF F
  <2> QED BY <1>1, <1>2, WFMin
<1>4. PICK d \in D : T = Above(d)
  BY <1>3
<1>5. ASSUME NEW e \in D, ~(e <= d)
      PROVE  FALSE
  <2>1. e \in Above(d) /\ e \notin Above(e)
    BY <1>5
  <2>2. Above(e) \subseteq Above(d)
    <3>1. d \in Nat /\ e \in Nat /\ d < e
      BY <1>5
    <3>2. ASSUME NEW x \in D, e < x PROVE d < x
      BY <3>1, <3>2
    <3> QED BY <3>2
  <2>3. <<Above(e), Above(d)>> \in StrictSubsetOrdering(D)
    BY <2>1, <2>2 DEF StrictSubsetOrdering
  <2> QED BY <1>3, <1>4, <2>3
<1> QED BY <1>5

\* A new attempt is not dated before now, and after every attempt of its pair.
LEMMA SubmissionDateIsLatest ==
  ASSUME row \in Table, clock \in Nat, NEW a \in Attempts
  PROVE  /\ SubmissionDate(a) \in Nat
         /\ SubmissionDate(a) >= clock
         /\ \A b \in Attempts : Pair(b) = Pair(a) /\ row[b].status # "NONE" =>
              row[b].createdAt < SubmissionDate(a)
         /\ \/ SubmissionDate(a) = clock
            \/ \E b \in Attempts : /\ Pair(b) = Pair(a) /\ row[b].status # "NONE"
                                   /\ SubmissionDate(a) = row[b].createdAt + 1
<1> DEFINE A == {b \in Attempts : Pair(b) = Pair(a) /\ row[b].status # "NONE"}
           f == [b \in A |-> row[b].createdAt + 1]
           T == {r.createdAt + 1 : r \in History(row, a)}
           D == {clock} \cup T
<1>1. A \subseteq Attempts /\ \A b \in A : row[b].createdAt \in Nat
  BY RowColumns DEF Table
<1>2. T = {row[b].createdAt + 1 : b \in A}
  BY DEF History
<1>3. f \in Surjection(A, T)
  BY <1>2 DEF Surjection
<1>4. IsFiniteSet(A)
  BY <1>1, AttemptsAssumption, FS_Subset
<1>5. IsFiniteSet(T)
  <2> HIDE DEF A, T, f
  <2> QED BY <1>3, <1>4, FS_Surjection
<1>6. IsFiniteSet(D) /\ D # {} /\ D \in SUBSET Nat
  <2>1. IsFiniteSet(T \cup {clock})
    <3> HIDE DEF T
    <3> QED BY <1>5, FS_AddElement
  <2>2. D = T \cup {clock}
    OBVIOUS
  <2>3. T \in SUBSET Nat
    BY <1>1, <1>2
  <2> QED BY <2>1, <2>2, <2>3
<1>7. \E d \in D : \A e \in D : e <= d
  <2> HIDE DEF D
  <2> QED BY <1>6, GreatestElement
<1>8. SubmissionDate(a) \in D /\ \A e \in D : e <= SubmissionDate(a)
  <2>1. SubmissionDate(a) = CHOOSE d \in D : \A e \in D : e <= d
    BY DEF SubmissionDate
  <2> HIDE DEF D
  <2> QED BY <1>7, <2>1
<1>9. ASSUME NEW b \in Attempts, Pair(b) = Pair(a), row[b].status # "NONE"
      PROVE  row[b].createdAt < SubmissionDate(a)
  <2>1. row[b].createdAt + 1 \in D
    BY <1>2, <1>9
  <2>2. row[b].createdAt + 1 <= SubmissionDate(a)
    BY <1>8, <2>1
  <2>3. row[b].createdAt \in Nat /\ SubmissionDate(a) \in Nat
    BY <1>6, <1>8, <1>9, <1>1
  <2> QED BY <2>2, <2>3
<1>10. \/ SubmissionDate(a) = clock
       \/ \E b \in Attempts : /\ Pair(b) = Pair(a) /\ row[b].status # "NONE"
                              /\ SubmissionDate(a) = row[b].createdAt + 1
  <2>1. SubmissionDate(a) = clock \/ SubmissionDate(a) \in T
    BY <1>8
  <2> HIDE DEF T
  <2> QED BY <1>2, <2>1
<1> QED BY <1>6, <1>8, <1>9, <1>10

-----------------------------------------------------------------------------
(***************************************************************************)
(* What a step does to the rows.                                           *)
(***************************************************************************)
SameColumns(r, s) ==
  /\ r.status = s.status
  /\ r.publicReason = s.publicReason
  /\ r.createdAt = s.createdAt
  /\ r.queueOrder = s.queueOrder
  /\ r.event = s.event
  /\ r.eventAt = s.eventAt
  /\ r.rejectedAt = s.rejectedAt
  /\ r.activeAt = s.activeAt

\* At most the assessment of the row changes.
Keeps(a) == SameColumns(row'[a], row[a])

\* A row promoted from the waiting queue by serving it.
Promotes(a) ==
  /\ row[a].status = "WAITING" /\ row'[a].status = "ACTIVE" /\ row'[a].activeAt
  /\ row'[a].publicReason = row[a].publicReason
  /\ row'[a].createdAt = row[a].createdAt
  /\ row'[a].queueOrder = row[a].queueOrder
  /\ row'[a].event = row[a].event
  /\ row'[a].eventAt = row[a].eventAt

Leaves(a) ==
  /\ Live(row[a])
  /\ row'[a].status \in {"REJECTED", "WITHDRAWN", "ACCEPTED"}
  /\ row'[a].createdAt = row[a].createdAt
  /\ row'[a].queueOrder = row[a].queueOrder
  /\ row'[a].activeAt = row[a].activeAt
  /\ row'[a].status = "REJECTED" => row'[a].publicReason # "NONE"
  /\ \/ row[a].status = "ACTIVE" /\ row'[a].event = "REJECTED" /\ row'[a].eventAt = clock
     \/ /\ row'[a].event = row[a].event /\ row'[a].eventAt = row[a].eventAt
        /\ row'[a].status = "REJECTED" => row'[a].publicReason # "NOT_SELECTED"

Submits(a) ==
  /\ row[a].status = "NONE"
  /\ CanSubmit(History(row, a), listingStatus[ListingOf[a]], TRUE, clock)
  /\ Live(row'[a])
  /\ row'[a].activeAt = (row'[a].status = "ACTIVE")
  /\ row'[a].createdAt = SubmissionDate(a)
  /\ row'[a].queueOrder = nextOrder
  /\ row'[a].event = "NONE"
  /\ nextOrder' = nextOrder + 1

Restores(a) ==
  /\ row[a].status = "REJECTED"
  /\ ~HasNewerAttempt(a)
  /\ Live(row'[a])
  /\ row'[a].activeAt = (row'[a].status = "ACTIVE")
  /\ row'[a].createdAt = row[a].createdAt
  /\ row'[a].event = "RESTORED" /\ row'[a].eventAt = clock
  /\ \/ /\ row'[a].status = "ACTIVE"
        /\ row'[a].queueOrder = row[a].queueOrder /\ nextOrder' = nextOrder
     \/ /\ row'[a].status = "WAITING"
        /\ row'[a].queueOrder = nextOrder /\ nextOrder' = nextOrder + 1

Serves(b) == Keeps(b) \/ Promotes(b)

\* One attempt is submitted or restored while the queue is served, or some
\* leave while it is.
StepShape ==
  \/ \E a \in Attempts : Submits(a) /\ \A b \in Attempts \ {a} : Serves(b)
  \/ \E a \in Attempts : Restores(a) /\ \A b \in Attempts \ {a} : Serves(b)
  \/ nextOrder' = nextOrder /\ \A b \in Attempts : Serves(b) \/ Leaves(b)

-----------------------------------------------------------------------------
(***************************************************************************)
(* Type correctness.                                                       *)
(***************************************************************************)
\* Serving a listing after its rows were rewritten yields a table.
LEMMA PromoteType ==
  ASSUME TypeOK, NEW rw \in Table, NEW l
  PROVE  Promote(rw, l) \in Table
BY ReconciledRows DEF Promote, TypeOK, ProfileType

\* The row of a new attempt is a row.
LEMMA SubmittedRow ==
  ASSUME TypeOK, NEW a \in Attempts, NEW status \in LiveStatus
  PROVE  /\ Submitted(a, status) \in Rows
         /\ Submitted(a, status).status = status
         /\ Submitted(a, status).activeAt = (status = "ACTIVE")
         /\ Submitted(a, status).publicReason = "NONE"
         /\ Submitted(a, status).createdAt = SubmissionDate(a)
         /\ Submitted(a, status).queueOrder = nextOrder
         /\ Submitted(a, status).event = "NONE"
         /\ Submitted(a, status).eventAt = NoDate
         /\ Submitted(a, status).assessed = Assessment(profile, criteria, a)
<1>1. Assessment(profile, criteria, a) \in Assessments \cup {NoAssessment}
  BY AssessmentType DEF TypeOK
<1>2. SubmissionDate(a) \in Nat
  BY SubmissionDateIsLatest DEF TypeOK, Table
<1>3. nextOrder \in Nat
  BY DEF TypeOK
<1> QED BY <1>1, <1>2, <1>3, UnbornRow
        DEF Submitted, Unborn, Rows, ApplicationStatus, LiveStatus, RejectionReason, CurationEvent

\* A row assessed anew, and rejected if its applicant is no longer eligible.
LEMMA RevalidatedRow ==
  ASSUME TypeOK, NEW r \in Rows, NEW prof \in ProfileType, NEW a \in Attempts
  PROVE  /\ Revalidated(r, prof, a) \in Rows
         /\ Revalidated(r, prof, a).createdAt = r.createdAt
         /\ Revalidated(r, prof, a).queueOrder = r.queueOrder
         /\ Revalidated(r, prof, a).event = r.event
         /\ Revalidated(r, prof, a).eventAt = r.eventAt
         /\ Revalidated(r, prof, a).activeAt = r.activeAt
         /\ Revalidated(r, prof, a).assessed = Assessment(prof, criteria, a)
         /\ IF Eligible(prof, criteria, a)
            THEN /\ Revalidated(r, prof, a).status = r.status
                 /\ Revalidated(r, prof, a).publicReason = r.publicReason
                 /\ Revalidated(r, prof, a).rejectedAt = r.rejectedAt
            ELSE /\ Revalidated(r, prof, a).status = "REJECTED"
                 /\ Revalidated(r, prof, a).publicReason = "PROFILE_NO_LONGER_ELIGIBLE"
<1> DEFINE s == [r EXCEPT !.assessed = Assessment(prof, criteria, a)]
<1>1. Assessment(prof, criteria, a) \in Assessments \cup {NoAssessment}
  BY AssessmentType DEF TypeOK, ProfileType
<1>2. /\ s \in Rows
      /\ s.status = r.status /\ s.createdAt = r.createdAt /\ s.queueOrder = r.queueOrder
      /\ s.event = r.event /\ s.eventAt = r.eventAt /\ s.publicReason = r.publicReason
      /\ s.rejectedAt = r.rejectedAt /\ s.activeAt = r.activeAt /\ s.assessed = Assessment(prof, criteria, a)
  BY <1>1 DEF Rows
<1>3. CASE Eligible(prof, criteria, a)
  BY <1>2, <1>3 DEF Revalidated
<1>4. CASE ~Eligible(prof, criteria, a)
  <2>1. Revalidated(r, prof, a) = Rejected(s, "PROFILE_NO_LONGER_ELIGIBLE")
    BY <1>4 DEF Revalidated
  <2>2. clock \in Nat
    BY DEF TypeOK
  <2>3. Rejected(s, "PROFILE_NO_LONGER_ELIGIBLE").assessed = s.assessed
    BY <1>2 DEF Rejected, Rows
  <2> HIDE DEF s
  <2> QED BY <1>2, <1>4, <2>1, <2>2, <2>3, RejectedRow DEF RejectionReason
<1> QED BY <1>3, <1>4

\* The tables the operations on many rows write.
LEMMA TableTypes ==
  ASSUME TypeOK
  PROVE  /\ \A p, prof : prof \in ProfileType => RevalidatedTable(p, prof) \in Table
         /\ \A l, crit : crit \in [Listings -> Criteria] => ReassessedTable(l, crit) \in Table
         /\ \A a : RentedTable(a) \in Table
<1>1. row \in Table /\ clock \in Nat
  BY DEF TypeOK, Table
<1>2. ASSUME NEW p, NEW prof \in ProfileType PROVE RevalidatedTable(p, prof) \in Table
  BY <1>1, RevalidatedRow DEF RevalidatedTable, Table
<1>3. ASSUME NEW l, NEW crit \in [Listings -> Criteria] PROVE ReassessedTable(l, crit) \in Table
  <2>1. ASSUME NEW a \in Attempts
        PROVE  [row[a] EXCEPT !.assessed = Assessment(profile, crit, a)] \in Rows
    <3>1. Assessment(profile, crit, a) \in Assessments \cup {NoAssessment}
      BY AssessmentType DEF TypeOK
    <3>2. row[a] \in Rows
      BY <1>1 DEF Table
    <3> QED BY <3>1, <3>2 DEF Rows
  <2> QED BY <1>1, <2>1 DEF ReassessedTable, Table
<1>4. ASSUME NEW a PROVE RentedTable(a) \in Table
  <2>1. ASSUME NEW b \in Attempts
        PROVE  /\ [row[b] EXCEPT !.status = "ACCEPTED"] \in Rows
               /\ Rejected(row[b], "LISTING_RENTED") \in Rows
    <3>1. row[b] \in Rows
      BY <1>1 DEF Table
    <3>2. [row[b] EXCEPT !.status = "ACCEPTED"] \in Rows
      BY <3>1 DEF Rows, ApplicationStatus
    <3>3. Rejected(row[b], "LISTING_RENTED") \in Rows
      BY <1>1, <3>1, RejectedRow DEF RejectionReason
    <3> QED BY <3>2, <3>3
  <2> QED BY <1>1, <2>1 DEF RentedTable, Table
<1> QED BY <1>2, <1>3, <1>4

\* The row of a rejection from before the events.
LEMMA LegacyRowType ==
  ASSUME NEW reason \in RejectionReason, NEW date \in Nat
  PROVE  /\ LegacyRow(reason, date) \in Rows
         /\ LegacyRow(reason, date).status = "REJECTED"
         /\ LegacyRow(reason, date).queueOrder = 1
         /\ LegacyRow(reason, date).event = "NONE"
<1> DEFINE r == LegacyRow(reason, date)
<1>1. r = [status |-> "REJECTED", publicReason |-> reason, createdAt |-> 1,
           rejectedAt |-> date, activeAt |-> TRUE, queueOrder |-> 1,
           event |-> "NONE", eventAt |-> NoDate, assessed |-> NoAssessment]
  BY DEF LegacyRow
<1> HIDE DEF r
<1>2. r \in Rows
  BY <1>1 DEF Rows, ApplicationStatus, CurationEvent
<1>3. r.status = "REJECTED" /\ r.queueOrder = 1 /\ r.event = "NONE"
  BY <1>1
<1> QED BY <1>2, <1>3 DEF r

\* The initial states are typed, with and without a row from before the events.
LEMMA InitType == Init => TypeOK
<1> SUFFICES ASSUME Init PROVE TypeOK
  OBVIOUS
<1>1. clock \in 1..MaxClock
  BY ClockAssumption DEF Init
<1>2. listingStatus \in [Listings -> ListingStatus]
  BY DEF Init, ListingStatus
<1>3. row \in [Attempts -> Rows] /\ nextOrder \in Nat \ {0}
  <2>1. CASE row = [a \in Attempts |-> Unborn] /\ nextOrder = 1
    BY <2>1, UnbornRow
  <2>2. ASSUME NEW a \in Legacy, NEW reason \in {"NONE", "NOT_SELECTED"}, NEW date \in {NoDate, 1},
               row = [[b \in Attempts |-> Unborn] EXCEPT ![a] = LegacyRow(reason, date)],
               nextOrder = 2
        PROVE  row \in [Attempts -> Rows] /\ nextOrder \in Nat \ {0}
    <3>1. reason \in RejectionReason /\ date \in Nat
      BY DEF RejectionReason
    <3>2. LegacyRow(reason, date) \in Rows
      BY <3>1, LegacyRowType
    <3> HIDE DEF NoDate
    <3>3. row \in [Attempts -> Rows]
      BY <2>2, <3>2, UnbornRow
    <3> QED BY <2>2, <3>3
  <2> QED BY <2>1, <2>2 DEF Init
<1> QED BY <1>1, <1>2, <1>3 DEF Init, TypeOK

\* Every step keeps the types.
LEMMA StepType == TypeOK /\ [Next]_vars => TypeOK'
<1> SUFFICES ASSUME TypeOK, [Next]_vars PROVE TypeOK'
  OBVIOUS
<1> USE DEF TypeOK, Table, ProfileType
<1>0. clock \in Nat /\ nextOrder + 1 \in Nat \ {0}
  OBVIOUS
<1>1. ASSUME NEW a \in Attempts, Apply(a) PROVE TypeOK'
  <2>1. Promote(row, ListingOf[a]) \in Table
    BY PromoteType
  <2>2. PICK status \in LiveStatus :
          row' = [Promote(row, ListingOf[a]) EXCEPT ![a] = Submitted(a, status)]
    BY <1>1 DEF Apply, LiveStatus
  <2>3. Submitted(a, status) \in Rows
    BY SubmittedRow
  <2> QED BY <1>0, <1>1, <2>1, <2>2, <2>3 DEF Apply
<1>2. ASSUME NEW a \in Attempts, Withdraw(a) PROVE TypeOK'
  <2>1. [row EXCEPT ![a] = Withdrawn(@)] \in Table
    BY WithdrawnRow
  <2>2. row' \in Table
    BY <1>2, <2>1, PromoteType DEF Withdraw
  <2> QED BY <1>2, <2>2 DEF Withdraw
<1>3. ASSUME NEW a \in Attempts, Reject(a) PROVE TypeOK'
  <2>1. [row EXCEPT ![a] = NotSelected(@)] \in Table
    BY <1>0, NotSelectedRow
  <2>2. row' \in Table
    BY <1>3, <2>1, PromoteType DEF Reject
  <2> QED BY <1>3, <2>2 DEF Reject
<1>4. ASSUME NEW a \in Attempts, Restore(a) PROVE TypeOK'
  <2>1. Promote(row, ListingOf[a]) \in Table
    BY PromoteType
  <2>2. row[a].queueOrder \in Nat
    BY RowColumns
  <2>3. Restored(a, "ACTIVE", row[a].queueOrder) \in Rows /\ Restored(a, "WAITING", nextOrder) \in Rows
    BY <1>0, <2>2, RestoredRow DEF LiveStatus
  <2>4. row' \in Table /\ nextOrder' \in Nat \ {0}
    BY <1>0, <1>4, <2>1, <2>3 DEF Restore
  <2> QED BY <1>4, <2>4 DEF Restore
<1>5. ASSUME NEW a \in Attempts, ExpireViewingInterest(a) PROVE TypeOK'
  <2>1. [row EXCEPT ![a] = Rejected(@, "POST_VIEWING_RESPONSE_EXPIRED")] \in Table
    BY <1>0, RejectedRow DEF RejectionReason
  <2>2. row' \in Table
    BY <1>5, <2>1, PromoteType DEF ExpireViewingInterest
  <2> QED BY <1>5, <2>2 DEF ExpireViewingInterest
<1>6. ASSUME NEW a \in Attempts, Rent(a) PROVE TypeOK'
  BY <1>6, TableTypes DEF Rent, ListingStatus
<1>7. ASSUME NEW p \in Applicants, NEW new \in Profiles, UpdateProfile(p, new) PROVE TypeOK'
  <2>1. profile' \in ProfileType
    BY <1>7 DEF UpdateProfile
  <2>2. RevalidatedTable(p, profile') \in Table
    BY <2>1, TableTypes
  <2>3. row' \in Table
    BY <1>7, <2>1, <2>2, ReconciledRows DEF UpdateProfile
  <2> QED BY <1>7, <2>1, <2>3 DEF UpdateProfile
<1>8. ASSUME NEW l \in Listings, NEW c \in Criteria, UpdateCriteria(l, c) PROVE TypeOK'
  <2>1. criteria' \in [Listings -> Criteria]
    BY <1>8 DEF UpdateCriteria
  <2> QED BY <1>8, <2>1, TableTypes DEF UpdateCriteria
<1>9. ASSUME NEW l \in Listings, NEW from, GoPublic(l, from) PROVE TypeOK'
  BY <1>9, ReconciledRows DEF GoPublic, ListingStatus
<1>10. ASSUME NEW l \in Listings, NEW from, NEW to \in ListingStatus, GoDark(l, from, to) PROVE TypeOK'
  BY <1>10 DEF GoDark
<1>11. ASSUME NEW l \in Listings, PromoteWaiting(l) PROVE TypeOK'
  BY <1>11, PromoteType DEF PromoteWaiting
<1>12. CASE Tick
  BY <1>12, ClockAssumption DEF Tick
<1>13. CASE UNCHANGED vars
  BY <1>13 DEF vars
<1> QED BY <1>1, <1>2, <1>3, <1>4, <1>5, <1>6, <1>7, <1>8, <1>9, <1>10, <1>11, <1>12, <1>13
        DEF Next, AttemptStep, ListingStep, Publish, Resume, MoveToDraft, Pause, Archive, ListingStatus

\* The variables have their types in every state the lifecycle can reach.
THEOREM TypeCorrect == Spec => []TypeOK
BY InitType, StepType, PTL DEF Spec

-----------------------------------------------------------------------------
(***************************************************************************)
(* Every step has the shape StepShape.                                     *)
(***************************************************************************)
\* A row that the operation itself left alone is kept or promoted.
LEMMA ServedRow ==
  ASSUME TypeOK, NEW rw \in Table, NEW prof \in ProfileType, NEW L, NEW b \in Attempts,
         SameColumns(rw[b], row[b]),
         row'[b] = Reconcile(rw, prof, L)[b]
  PROVE  Serves(b)
<1>1. criteria \in [Listings -> Criteria]
  BY DEF TypeOK
<1>2. CASE row'[b] = rw[b]
  BY <1>2 DEF Serves, Keeps
<1>3. CASE row'[b] # rw[b]
  BY <1>1, <1>3, ReconciledRows DEF Serves, Promotes, SameColumns
<1> QED BY <1>2, <1>3

\* Serving the queue does not touch a row that is not waiting.
LEMMA SettledRow ==
  ASSUME TypeOK, NEW rw \in Table, NEW prof \in ProfileType, NEW L, NEW b \in Attempts,
         rw[b].status # "WAITING"
  PROVE  Reconcile(rw, prof, L)[b] = rw[b]
<1>1. criteria \in [Listings -> Criteria]
  BY DEF TypeOK
<1> QED BY <1>1, ReconciledRows

\* When one row leaves and its listing is served, the others are served.
LEMMA OneLeaves ==
  ASSUME TypeOK, NEW a \in Attempts, NEW r \in Rows,
         r.status # "WAITING",
         row' = Promote([row EXCEPT ![a] = r], ListingOf[a])
  PROVE  /\ row'[a] = r
         /\ \A b \in Attempts \ {a} : Serves(b)
<1> DEFINE rw == [row EXCEPT ![a] = r]
<1>1. rw \in Table
  BY DEF TypeOK, Table
<1>2. profile \in ProfileType
  BY DEF TypeOK, ProfileType
<1>3. rw[a] = r /\ \A b \in Attempts \ {a} : rw[b] = row[b]
  BY DEF TypeOK
<1>4. \E L : row' = Reconcile(rw, profile, L)
  BY DEF Promote
<1> HIDE DEF rw
<1>5. PICK L : row' = Reconcile(rw, profile, L)
  BY <1>4
<1>6. row'[a] = r
  <2>1. rw[a].status # "WAITING"
    BY <1>3
  <2>2. Reconcile(rw, profile, L)[a] = rw[a]
    BY <1>1, <1>2, <2>1, SettledRow
  <2> QED BY <1>3, <1>5, <2>2
<1>7. ASSUME NEW b \in Attempts \ {a} PROVE Serves(b)
  <2>1. SameColumns(rw[b], row[b])
    BY <1>3 DEF SameColumns
  <2> QED BY <1>1, <1>2, <1>5, <2>1, ServedRow
<1> QED BY <1>6, <1>7

\* Each operation submits or restores one attempt, or makes attempts leave.
LEMMA StepHasShape ==
  ASSUME TypeOK, [Next]_vars
  PROVE  StepShape
<1>0. /\ row \in Table /\ profile \in ProfileType /\ clock \in Nat
      /\ \A a \in Attempts : row[a] \in Rows
  BY DEF TypeOK, Table, ProfileType
<1>a. ASSUME UNCHANGED <<row, nextOrder>> PROVE StepShape
  BY <1>a DEF StepShape, Serves, Keeps, SameColumns
<1>b. ASSUME NEW a \in Attempts, Leaves(a), \A b \in Attempts \ {a} : Serves(b), UNCHANGED nextOrder
      PROVE  StepShape
  BY <1>b DEF StepShape
<1>1. ASSUME NEW a \in Attempts, Apply(a) PROVE StepShape
  <2>1. PICK status \in LiveStatus :
          row' = [Promote(row, ListingOf[a]) EXCEPT ![a] = Submitted(a, status)]
    BY <1>1 DEF Apply, LiveStatus
  <2>2. Promote(row, ListingOf[a]) \in Table
    BY <1>0, PromoteType
  <2>3. row'[a] = Submitted(a, status)
    BY <2>1, <2>2 DEF Table
  <2>4. CanSubmit(History(row, a), listingStatus[ListingOf[a]], TRUE, clock)
    BY <1>1 DEF Apply, CanSubmit
  <2>5. Submits(a)
    <3>1. /\ row'[a].status = status /\ row'[a].activeAt = (status = "ACTIVE")
          /\ row'[a].createdAt = SubmissionDate(a) /\ row'[a].queueOrder = nextOrder
          /\ row'[a].event = "NONE"
      BY <2>3, SubmittedRow
    <3> QED BY <1>1, <2>4, <3>1 DEF Submits, Apply, Live
  <2>6. ASSUME NEW b \in Attempts \ {a} PROVE Serves(b)
    <3>1. row'[b] = Promote(row, ListingOf[a])[b]
      BY <2>1, <2>2 DEF Table
    <3> QED BY <1>0, <3>1, ServedRow DEF Promote, SameColumns
  <2> QED BY <2>5, <2>6 DEF StepShape
<1>2. ASSUME NEW a \in Attempts, Withdraw(a) PROVE StepShape
  <2>1. Withdrawn(row[a]) \in Rows /\ Withdrawn(row[a]).status = "WITHDRAWN"
    BY <1>0, WithdrawnRow
  <2>2. row'[a] = Withdrawn(row[a]) /\ \A b \in Attempts \ {a} : Serves(b)
    <3>1. CASE row[a].status = "ACTIVE"
      BY <1>2, <2>1, <3>1, OneLeaves DEF Withdraw
    <3>2. CASE row[a].status # "ACTIVE"
      BY <1>0, <1>2, <3>2 DEF Withdraw, Serves, Keeps, SameColumns, Table
    <3> QED BY <3>1, <3>2
  <2>3. Leaves(a)
    BY <1>0, <1>2, <2>2, WithdrawnRow DEF Leaves, Live, Withdraw, CanWithdraw
  <2> QED BY <1>2, <1>b, <2>2, <2>3 DEF Withdraw
<1>3. ASSUME NEW a \in Attempts, Reject(a) PROVE StepShape
  <2>1. row'[a] = NotSelected(row[a]) /\ \A b \in Attempts \ {a} : Serves(b)
    BY <1>0, <1>3, NotSelectedRow, OneLeaves DEF Reject
  <2>2. Leaves(a)
    BY <1>0, <1>3, <2>1, NotSelectedRow DEF Leaves, Live, LiveStatus, Reject
  <2> QED BY <1>3, <1>b, <2>1, <2>2 DEF Reject
<1>4. ASSUME NEW a \in Attempts, Restore(a) PROVE StepShape
  <2>1. Promote(row, ListingOf[a]) \in Table
    BY <1>0, PromoteType
  <2>2. PICK status \in LiveStatus, order \in Nat :
          /\ row' = [Promote(row, ListingOf[a]) EXCEPT ![a] = Restored(a, status, order)]
          /\ \/ status = "ACTIVE" /\ order = row[a].queueOrder /\ nextOrder' = nextOrder
             \/ status = "WAITING" /\ order = nextOrder /\ nextOrder' = nextOrder + 1
    <3>1. row[a].queueOrder \in Nat /\ nextOrder \in Nat
      BY <1>0, RowColumns DEF TypeOK
    <3> QED BY <1>4, <3>1 DEF Restore, LiveStatus
  <2>3. row'[a] = Restored(a, status, order)
    BY <2>1, <2>2 DEF Table
  <2>4. Restores(a)
    BY <1>0, <1>4, <2>2, <2>3, RestoredRow DEF Restores, Restore, Live, TypeOK
  <2>5. ASSUME NEW b \in Attempts \ {a} PROVE Serves(b)
    <3>1. row'[b] = Promote(row, ListingOf[a])[b]
      BY <2>1, <2>2 DEF Table
    <3> QED BY <1>0, <3>1, ServedRow DEF Promote, SameColumns
  <2> QED BY <2>4, <2>5 DEF StepShape
<1>5. ASSUME NEW a \in Attempts, ExpireViewingInterest(a) PROVE StepShape
  <2> DEFINE r == Rejected(row[a], "POST_VIEWING_RESPONSE_EXPIRED")
  <2>1. /\ r \in Rows /\ r.status = "REJECTED" /\ r.createdAt = row[a].createdAt
        /\ r.queueOrder = row[a].queueOrder /\ r.event = row[a].event /\ r.eventAt = row[a].eventAt
        /\ r.publicReason = "POST_VIEWING_RESPONSE_EXPIRED" /\ r.activeAt = row[a].activeAt
    BY <1>0, RejectedRow DEF RejectionReason
  <2> HIDE DEF r
  <2>2. row' = Promote([row EXCEPT ![a] = r], ListingOf[a])
    BY <1>5 DEF ExpireViewingInterest, r
  <2>3. row'[a] = r /\ \A b \in Attempts \ {a} : Serves(b)
    BY <2>1, <2>2, OneLeaves
  <2>4. Leaves(a)
    BY <1>5, <2>1, <2>3 DEF Leaves, Live, LiveStatus, ExpireViewingInterest
  <2> QED BY <1>5, <1>b, <2>3, <2>4 DEF ExpireViewingInterest
<1>6. ASSUME NEW a \in Attempts, Rent(a) PROVE StepShape
  <2>1. ASSUME NEW b \in Attempts PROVE Serves(b) \/ Leaves(b)
    <3>1. CASE b = a
      BY <1>0, <1>6, <3>1 DEF Rent, RentedTable, Leaves, Live, LiveStatus, Rows
    <3>2. CASE b # a /\ ListingOf[b] = ListingOf[a] /\ Live(row[b])
      <4>1. row'[b] = Rejected(row[b], "LISTING_RENTED")
        BY <1>6, <3>2 DEF Rent, RentedTable
      <4> QED BY <1>0, <3>2, <4>1, RejectedRow DEF Leaves, RejectionReason
    <3>3. CASE b # a /\ ~(ListingOf[b] = ListingOf[a] /\ Live(row[b]))
      BY <1>6, <3>3 DEF Rent, RentedTable, Serves, Keeps, SameColumns
    <3> QED BY <3>1, <3>2, <3>3
  <2> QED BY <1>6, <2>1 DEF Rent, StepShape
<1>7. ASSUME NEW p \in Applicants, NEW new \in Profiles, UpdateProfile(p, new) PROVE StepShape
  <2> DEFINE rw == RevalidatedTable(p, profile')
  <2>1. profile' \in ProfileType
    BY <1>0, <1>7 DEF UpdateProfile, ProfileType
  <2>2. rw \in Table
    BY <2>1, TableTypes
  <2>3. row' = Reconcile(rw, profile', Released(rw))
    BY <1>7 DEF UpdateProfile
  <2>4. ASSUME NEW b \in Attempts PROVE Serves(b) \/ Leaves(b)
    <3>1. CASE SameColumns(rw[b], row[b])
      <4> HIDE DEF rw
      <4> QED BY <2>1, <2>2, <2>3, <3>1, ServedRow
    <3>2. CASE ~SameColumns(rw[b], row[b])
      <4>1. /\ ApplicantOf[b] = p /\ Live(row[b])
            /\ rw[b] = Revalidated(row[b], profile', b)
        BY <3>2 DEF RevalidatedTable, SameColumns
      <4>2. /\ rw[b].status = "REJECTED" /\ rw[b].publicReason = "PROFILE_NO_LONGER_ELIGIBLE"
            /\ rw[b].createdAt = row[b].createdAt /\ rw[b].queueOrder = row[b].queueOrder
            /\ rw[b].event = row[b].event /\ rw[b].eventAt = row[b].eventAt
            /\ rw[b].activeAt = row[b].activeAt
        BY <1>0, <2>1, <3>2, <4>1, RevalidatedRow DEF SameColumns
      <4> HIDE DEF rw
      <4>3. row'[b] = rw[b]
        BY <2>1, <2>2, <2>3, <4>2, SettledRow
      <4> QED BY <4>1, <4>2, <4>3 DEF Leaves
    <3> QED BY <3>1, <3>2
  <2> QED BY <1>7, <2>4 DEF UpdateProfile, StepShape
<1>8. ASSUME NEW l \in Listings, NEW c \in Criteria, UpdateCriteria(l, c) PROVE StepShape
  <2>1. ASSUME NEW b \in Attempts PROVE Serves(b)
    BY <1>0, <1>8 DEF UpdateCriteria, ReassessedTable, Serves, Keeps, SameColumns, Rows
  <2> QED BY <1>8, <2>1 DEF UpdateCriteria, StepShape
<1>9. ASSUME NEW l \in Listings, NEW from, GoPublic(l, from) PROVE StepShape
  <2>1. ASSUME NEW b \in Attempts PROVE Serves(b)
    BY <1>0, <1>9, ServedRow DEF GoPublic, SameColumns
  <2> QED BY <1>9, <2>1 DEF GoPublic, StepShape
<1>10. ASSUME NEW l \in Listings, NEW from, NEW to, GoDark(l, from, to) PROVE StepShape
  BY <1>10, <1>a DEF GoDark
<1>11. ASSUME NEW l \in Listings, PromoteWaiting(l) PROVE StepShape
  <2>1. ASSUME NEW b \in Attempts PROVE Serves(b)
    BY <1>0, <1>11, ServedRow DEF PromoteWaiting, Promote, SameColumns
  <2> QED BY <1>11, <2>1 DEF PromoteWaiting, StepShape
<1>12. CASE Tick
  BY <1>12, <1>a DEF Tick
<1>13. CASE UNCHANGED vars
  BY <1>13, <1>a DEF vars
<1> QED BY <1>1, <1>2, <1>3, <1>4, <1>5, <1>6, <1>7, <1>8, <1>9, <1>10, <1>11, <1>12, <1>13
        DEF Next, AttemptStep, ListingStep, Publish, Resume, MoveToDraft, Pause, Archive

-----------------------------------------------------------------------------
(***************************************************************************)
(* The inductive invariant.  Places in the queue are distinct and below    *)
(* the sequence's next value; a rejection event has a date; only the       *)
(* newest attempt of a pair is current, which is what makes the cooldown   *)
(* provable: an attempt that a newer one follows is never rejected again.  *)
(***************************************************************************)
OrdersIssued ==
  /\ OrdersDistinct(row)
  /\ \A a \in Attempts : row[a].queueOrder < nextOrder

EventsDated == \A a \in Attempts : row[a].event = "REJECTED" => row[a].eventAt # NoDate

IInv ==
  /\ TypeOK
  /\ OrdersIssued
  /\ EventsDated
  /\ OnlyNewestAttemptIsCurrent
  /\ CooldownRespected

\* Shorthand for what the rows of a served table have in common with the old ones.
LEMMA ServesKeeps ==
  ASSUME NEW b \in Attempts, Serves(b)
  PROVE  /\ row'[b].createdAt = row[b].createdAt
         /\ row'[b].queueOrder = row[b].queueOrder
         /\ row'[b].event = row[b].event /\ row'[b].eventAt = row[b].eventAt
         /\ row'[b].status = "NONE" <=> row[b].status = "NONE"
         /\ row'[b].status \in LiveStatus \cup {"ACCEPTED"} <=>
              row[b].status \in LiveStatus \cup {"ACCEPTED"}
BY DEF Serves, Keeps, SameColumns, Promotes, LiveStatus

\* The invariant holds initially: at most one row exists.
LEMMA InitInv == Init => IInv
<1> SUFFICES ASSUME Init PROVE IInv
  OBVIOUS
<1>1. TypeOK
  BY InitType
<1>2. \A a, b \in Attempts : row[a].status # "NONE" /\ row[b].status # "NONE" => a = b
  <2>1. CASE row = [a \in Attempts |-> Unborn] /\ nextOrder = 1
    BY <2>1 DEF Unborn
  <2>2. CASE \E a \in Legacy, r \in Rows : row = [[b \in Attempts |-> Unborn] EXCEPT ![a] = r]
    BY <2>2 DEF Unborn
  <2> QED BY <2>1, <2>2, LegacyRowType DEF Init, RejectionReason
<1>3. \A a \in Attempts : row[a].queueOrder < nextOrder /\ row[a].event = "NONE"
  <2>1. CASE row = [a \in Attempts |-> Unborn] /\ nextOrder = 1
    BY <2>1 DEF Unborn
  <2>2. CASE /\ \E a \in Legacy, r \in Rows : /\ row = [[b \in Attempts |-> Unborn] EXCEPT ![a] = r]
                                             /\ r.queueOrder = 1 /\ r.event = "NONE"
             /\ nextOrder = 2
    BY <2>2, AttemptsAssumption DEF Unborn
  <2> QED BY <2>1, <2>2, LegacyRowType DEF Init, RejectionReason
<1> QED BY <1>1, <1>2, <1>3
        DEF IInv, OrdersIssued, OrdersDistinct, EventsDated, OnlyNewestAttemptIsCurrent,
            CooldownRespected, Rivals, Born

\* Places in the queue stay distinct: a place is new or the row's own.
LEMMA StepOrders ==
  ASSUME TypeOK, OrdersIssued, StepShape
  PROVE  OrdersIssued'
<1>1. nextOrder \in Nat /\ \A a \in Attempts : row[a].queueOrder \in Nat
  BY RowColumns DEF TypeOK
<1>2. \A a, b \in Attempts : a # b /\ row[a].status # "NONE" /\ row[b].status # "NONE" =>
        row[a].queueOrder # row[b].queueOrder
  BY DEF OrdersIssued, OrdersDistinct
<1>3. \A a \in Attempts : row[a].queueOrder < nextOrder
  BY DEF OrdersIssued
<1>4. ASSUME \A a \in Attempts : row'[a].queueOrder < nextOrder',
             \A a, b \in Attempts :
               a # b /\ row'[a].status # "NONE" /\ row'[b].status # "NONE" =>
               row'[a].queueOrder # row'[b].queueOrder
      PROVE  OrdersIssued'
  BY <1>4 DEF OrdersIssued, OrdersDistinct
\* At most one row gets a new place, and it is the sequence's next value.
<1>5. ASSUME NEW a \in Attempts, Submits(a) \/ Restores(a), \A b \in Attempts \ {a} : Serves(b)
      PROVE  OrdersIssued'
  <2>1. \A b \in Attempts \ {a} : /\ row'[b].queueOrder = row[b].queueOrder
                                 /\ (row'[b].status = "NONE" <=> row[b].status = "NONE")
    BY <1>5, ServesKeeps
  <2>2. \/ row'[a].queueOrder = nextOrder /\ nextOrder' = nextOrder + 1
        \/ /\ row'[a].queueOrder = row[a].queueOrder /\ nextOrder' = nextOrder
           /\ row[a].status # "NONE"
    BY <1>5 DEF Submits, Restores
  <2>3. \A b \in Attempts : row'[b].queueOrder < nextOrder'
    BY <1>1, <1>3, <2>1, <2>2
  <2>4. \A b, c \in Attempts :
          b # c /\ row'[b].status # "NONE" /\ row'[c].status # "NONE" =>
          row'[b].queueOrder # row'[c].queueOrder
    BY <1>1, <1>2, <1>3, <2>1, <2>2
  <2> QED BY <1>4, <2>3, <2>4
<1>6. ASSUME nextOrder' = nextOrder, \A b \in Attempts : Serves(b) \/ Leaves(b)
      PROVE  OrdersIssued'
  <2>1. \A b \in Attempts : /\ row'[b].queueOrder = row[b].queueOrder
                           /\ (row'[b].status = "NONE" <=> row[b].status = "NONE")
    BY <1>6, ServesKeeps DEF Leaves, Live, LiveStatus
  <2> QED BY <1>2, <1>3, <1>4, <1>6, <2>1
<1> QED BY <1>5, <1>6 DEF StepShape

\* No step makes an attempt current beside a newer one, or records a rejection
\* that an attempt already submitted came too early after.
LEMMA StepHistory ==
  ASSUME IInv, StepShape
  PROVE  EventsDated' /\ OnlyNewestAttemptIsCurrent' /\ CooldownRespected'
<1> USE DEF IInv
<1>0. /\ clock \in Nat \ {0} /\ row \in Table /\ ReapplyCooldown \in Nat
      /\ \A a \in Attempts : row[a].createdAt \in Nat /\ row[a].eventAt \in Nat
  BY RowColumns, ClockAssumption DEF TypeOK, Table
<1>1. ASSUME NEW a \in Attempts, Submits(a), \A b \in Attempts \ {a} : Serves(b)
      PROVE  EventsDated' /\ OnlyNewestAttemptIsCurrent' /\ CooldownRespected'
  <2>1. \A b \in Attempts \ {a} :
          /\ row'[b].createdAt = row[b].createdAt
          /\ row'[b].event = row[b].event /\ row'[b].eventAt = row[b].eventAt
          /\ row'[b].status = "NONE" <=> row[b].status = "NONE"
          /\ row'[b].status \in LiveStatus \cup {"ACCEPTED"} <=>
               row[b].status \in LiveStatus \cup {"ACCEPTED"}
    BY <1>1, ServesKeeps
  <2>2. /\ row'[a].createdAt = SubmissionDate(a) /\ row'[a].event = "NONE"
        /\ row[a].status = "NONE"
    BY <1>1 DEF Submits
  <2>3. /\ SubmissionDate(a) \in Nat /\ SubmissionDate(a) >= clock
        /\ \A b \in Attempts : Pair(b) = Pair(a) /\ row[b].status # "NONE" =>
             row[b].createdAt < SubmissionDate(a)
    BY <1>0, SubmissionDateIsLatest
  <2>4. ASSUME NEW b \in Attempts, Pair(b) = Pair(a), row[b].status # "NONE"
        PROVE  /\ row[b].status \notin LiveStatus \cup {"ACCEPTED"}
               /\ row[b].event = "REJECTED" => row[b].eventAt + ReapplyCooldown <= clock
    <3>1. row[b] \in History(row, a)
      BY <2>4 DEF History
    <3>2. row[b].status \notin LiveStatus \cup {"ACCEPTED"} /\ ~Cooldown(History(row, a), clock)
      BY <1>1, <3>1 DEF Submits, CanSubmit
    <3>3. row[b].event = "REJECTED" => RejectionOf(row[b]) = row[b].eventAt /\ row[b].eventAt # NoDate
      BY DEF RejectionOf, EventsDated
    <3>4. row[b].event = "REJECTED" => ~(clock < row[b].eventAt + ReapplyCooldown)
      BY <3>1, <3>2, <3>3 DEF Cooldown
    <3> QED BY <1>0, <3>2, <3>4
  <2>5. EventsDated'
    BY <2>1, <2>2 DEF EventsDated
  <2>6. OnlyNewestAttemptIsCurrent'
    BY <1>0, <2>1, <2>2, <2>3, <2>4 DEF OnlyNewestAttemptIsCurrent, Rivals, Born
  <2>7. CooldownRespected'
    BY <1>0, <2>1, <2>2, <2>3, <2>4 DEF CooldownRespected, Rivals, Born
  <2> QED BY <2>5, <2>6, <2>7
<1>2. ASSUME NEW a \in Attempts, Restores(a), \A b \in Attempts \ {a} : Serves(b)
      PROVE  EventsDated' /\ OnlyNewestAttemptIsCurrent' /\ CooldownRespected'
  <2>1. \A b \in Attempts \ {a} :
          /\ row'[b].createdAt = row[b].createdAt
          /\ row'[b].event = row[b].event /\ row'[b].eventAt = row[b].eventAt
          /\ row'[b].status = "NONE" <=> row[b].status = "NONE"
          /\ row'[b].status \in LiveStatus \cup {"ACCEPTED"} <=>
               row[b].status \in LiveStatus \cup {"ACCEPTED"}
    BY <1>2, ServesKeeps
  <2>2. /\ row'[a].createdAt = row[a].createdAt /\ row'[a].event = "RESTORED"
        /\ row[a].status = "REJECTED" /\ row'[a].status \in LiveStatus
    BY <1>2 DEF Restores, Live
  <2>3. \A b \in Attempts : Pair(b) = Pair(a) /\ row[b].status # "NONE" =>
          ~(row[b].createdAt > row[a].createdAt)
    BY <1>2 DEF Restores, HasNewerAttempt
  <2>4. EventsDated'
    BY <2>1, <2>2 DEF EventsDated
  <2>5. OnlyNewestAttemptIsCurrent'
    BY <1>0, <2>1, <2>2, <2>3 DEF OnlyNewestAttemptIsCurrent, Rivals, Born, LiveStatus
  <2>6. CooldownRespected'
    BY <1>0, <2>1, <2>2 DEF CooldownRespected, Rivals, Born, LiveStatus
  <2> QED BY <2>4, <2>5, <2>6
<1>3. ASSUME \A b \in Attempts : Serves(b) \/ Leaves(b)
      PROVE  EventsDated' /\ OnlyNewestAttemptIsCurrent' /\ CooldownRespected'
  <2>1. \A b \in Attempts :
          /\ row'[b].createdAt = row[b].createdAt
          /\ row'[b].status = "NONE" <=> row[b].status = "NONE"
          /\ row'[b].status \in LiveStatus \cup {"ACCEPTED"} =>
               row[b].status \in LiveStatus \cup {"ACCEPTED"}
    BY <1>3, ServesKeeps DEF Leaves, Live, LiveStatus
  <2>2. \A b \in Attempts :
          \/ row'[b].event = row[b].event /\ row'[b].eventAt = row[b].eventAt
          \/ row[b].status \in LiveStatus /\ row'[b].eventAt = clock
    BY <1>3, ServesKeeps DEF Leaves, Live
  <2>3. EventsDated'
    BY <1>0, <2>2 DEF EventsDated
  <2>4. OnlyNewestAttemptIsCurrent'
    BY <2>1 DEF OnlyNewestAttemptIsCurrent, Rivals, Born
  <2>5. CooldownRespected'
    BY <1>0, <2>1, <2>2 DEF CooldownRespected, OnlyNewestAttemptIsCurrent, Rivals, Born
  <2> QED BY <2>3, <2>4, <2>5
<1> QED BY <1>1, <1>2, <1>3 DEF StepShape

\* The invariant is inductive.
LEMMA StepInv == IInv /\ [Next]_vars => IInv'
<1> SUFFICES ASSUME IInv, [Next]_vars PROVE IInv'
  OBVIOUS
<1>1. TypeOK'
  BY StepType DEF IInv
<1>2. StepShape
  BY StepHasShape DEF IInv
<1>3. OrdersIssued'
  BY <1>2, StepOrders DEF IInv
<1>4. EventsDated' /\ OnlyNewestAttemptIsCurrent' /\ CooldownRespected'
  BY <1>2, StepHistory
<1> QED BY <1>1, <1>3, <1>4 DEF IInv

\* Of an applicant's attempts at a listing only the newest is ever live or
\* accepted, however often the applicant withdraws and the provider restores.
THEOREM AttemptsSupersede == Spec => []OnlyNewestAttemptIsCurrent
<1>1. IInv => OnlyNewestAttemptIsCurrent
  BY DEF IInv
<1> QED BY InitInv, StepInv, <1>1, PTL DEF Spec

\* The reapplication cooldown holds between the dates of any two attempts.
THEOREM CooldownHolds == Spec => []CooldownRespected
<1>1. IInv => CooldownRespected
  BY DEF IInv
<1> QED BY InitInv, StepInv, <1>1, PTL DEF Spec

\* Nobody ever enters the waiting queue but at its end, or moves within it.
THEOREM QueueAppends == Spec => QueueIsAppendOnly
<1> DEFINE Appends ==
      \A a, w \in Attempts :
        row'[a].status = "WAITING" =>
          IF row[a].status = "WAITING" THEN row'[a].queueOrder = row[a].queueOrder
          ELSE row[w].status = "WAITING" => row'[a].queueOrder > row[w].queueOrder
<1>1. IInv /\ [Next]_vars => [Appends]_vars
  <2> SUFFICES ASSUME IInv, Next, StepShape PROVE Appends
    BY StepHasShape DEF IInv
  <2>0. /\ nextOrder \in Nat /\ OrdersIssued
        /\ \A a \in Attempts : row[a].queueOrder \in Nat
    BY RowColumns DEF IInv, TypeOK
  <2>1. ASSUME NEW a \in Attempts, row'[a].status = "WAITING", row[a].status = "WAITING"
        PROVE  row'[a].queueOrder = row[a].queueOrder
    BY <2>1 DEF StepShape, Serves, Keeps, SameColumns, Promotes, Leaves, Submits, Restores
  <2>2. ASSUME NEW a \in Attempts, row'[a].status = "WAITING", row[a].status # "WAITING"
        PROVE  row'[a].queueOrder = nextOrder
    BY <2>2 DEF StepShape, Serves, Keeps, SameColumns, Promotes, Leaves, Submits, Restores
  <2> QED BY <2>0, <2>1, <2>2 DEF OrdersIssued
<1> QED BY InitInv, StepInv, <1>1, PTL DEF Spec, QueueIsAppendOnly

-----------------------------------------------------------------------------
(***************************************************************************)
(* The limit.                                                              *)
(***************************************************************************)
WithinLimit(rw) == \A l \in Listings : Cardinality(WithStatus(rw, l, "ACTIVE")) <= Limit

\* Serving any listings of a table keeps every listing within its limit.
LEMMA ReconcileWithinLimit ==
  ASSUME TypeOK, NEW rw \in Table, NEW prof \in ProfileType, NEW L,
         OrdersDistinct(rw), WithinLimit(rw)
  PROVE  WithinLimit(Reconcile(rw, prof, L))
<1> SUFFICES ASSUME NEW l \in Listings
             PROVE  Cardinality(WithStatus(Reconcile(rw, prof, L), l, "ACTIVE")) <= Limit
  BY DEF WithinLimit
<1> DEFINE A == WithStatus(rw, l, "ACTIVE")
           P == Promoted(rw, prof, l)
           S == WithStatus(Reconcile(rw, prof, L), l, "ACTIVE")
<1>1. criteria \in [Listings -> Criteria] /\ Limit \in Nat
  BY LimitAssumption DEF TypeOK
<1>2. /\ IsFiniteSet(A) /\ IsFiniteSet(P) /\ IsFiniteSet(S)
      /\ Cardinality(A) \in Nat /\ Cardinality(P) \in Nat /\ Cardinality(S) \in Nat
      /\ Cardinality(A) <= Limit
  BY FiniteSelections DEF WithinLimit
<1>3. S \in SUBSET (A \cup P)
  BY <1>1, ReconciledRows DEF WithStatus
<1>4. A \cap P = {}
  BY DEF WithStatus, Promoted, EligibleWaiting
<1>5. Slots(rw, l) = Limit - Cardinality(A)
  BY DEF Slots
<1>6. Cardinality(P) <= Slots(rw, l)
  BY <1>1, <1>2, <1>5, PromotedFitTheSlots
<1> HIDE DEF A, P, S
<1>7. IsFiniteSet(A \cup P) /\ Cardinality(A \cup P) = Cardinality(A) + Cardinality(P)
  <2>1. Cardinality(A \cup P) = Cardinality(A) + Cardinality(P) - Cardinality(A \cap P)
    BY <1>2, FS_Union
  <2>2. Cardinality(A \cap P) = 0
    BY <1>4, FS_EmptySet
  <2>3. IsFiniteSet(A \cup P)
    BY <1>2, FS_Union
  <2> QED BY <1>2, <2>1, <2>2, <2>3
<1>8. Cardinality(S) <= Cardinality(A \cup P)
  BY <1>3, <1>7, FS_Subset
<1> QED BY <1>1, <1>2, <1>5, <1>6, <1>7, <1>8 DEF S

\* A table with fewer ACTIVE rows is within the limit too.
LEMMA FewerActive ==
  ASSUME NEW rw, NEW fewer, WithinLimit(rw),
         \A a \in Attempts : fewer[a].status = "ACTIVE" => rw[a].status = "ACTIVE"
  PROVE  WithinLimit(fewer)
<1> SUFFICES ASSUME NEW l \in Listings
             PROVE  Cardinality(WithStatus(fewer, l, "ACTIVE")) <= Limit
  BY DEF WithinLimit
<1>1. WithStatus(fewer, l, "ACTIVE") \in SUBSET WithStatus(rw, l, "ACTIVE")
  BY DEF WithStatus
<1>2. Cardinality(WithStatus(fewer, l, "ACTIVE")) <= Cardinality(WithStatus(rw, l, "ACTIVE"))
  BY <1>1, FiniteSelections, FS_Subset
<1> QED BY <1>2, FiniteSelections, LimitAssumption DEF WithinLimit

\* A row made ACTIVE in a listing with a free slot keeps the table within the limit.
LEMMA OneMoreActive ==
  ASSUME NEW rw \in Table, NEW a \in Attempts, NEW r, WithinLimit(rw),
         Slots(rw, ListingOf[a]) > 0
  PROVE  WithinLimit([rw EXCEPT ![a] = r])
<1> SUFFICES ASSUME NEW l \in Listings
             PROVE  Cardinality(WithStatus([rw EXCEPT ![a] = r], l, "ACTIVE")) <= Limit
  BY DEF WithinLimit
<1> DEFINE A == WithStatus(rw, l, "ACTIVE")
           S == WithStatus([rw EXCEPT ![a] = r], l, "ACTIVE")
<1>1. /\ IsFiniteSet(A) /\ IsFiniteSet(S) /\ Cardinality(A) \in Nat /\ Cardinality(S) \in Nat
      /\ Cardinality(A) <= Limit /\ Limit \in Nat
  BY FiniteSelections, LimitAssumption DEF WithinLimit
<1>2. CASE ListingOf[a] = l
  <2>1. S \in SUBSET (A \cup {a})
    BY DEF WithStatus, Table
  <2>2. Limit - Cardinality(A) > 0
    BY <1>2 DEF Slots
  <2> HIDE DEF A, S
  <2>3. IsFiniteSet(A \cup {a}) /\ Cardinality(A \cup {a}) <= Cardinality(A) + 1
    <3>1. IsFiniteSet(A \cup {a})
      BY <1>1, FS_AddElement
    <3>2. Cardinality(A \cup {a}) = Cardinality(A) \/ Cardinality(A \cup {a}) = Cardinality(A) + 1
      BY <1>1, FS_AddElement
    <3> QED BY <1>1, <3>1, <3>2
  <2>4. Cardinality(S) <= Cardinality(A \cup {a}) /\ Cardinality(A \cup {a}) \in Nat
    BY <2>1, <2>3, FS_Subset, FS_CardinalityType
  <2> QED BY <1>1, <2>2, <2>3, <2>4 DEF S
<1>3. CASE ListingOf[a] # l
  <2>1. S = A
    BY <1>3 DEF WithStatus, Table
  <2> QED BY <1>1, <2>1
<1> QED BY <1>2, <1>3

\* The table a step leaves before it serves the queue is in order and within the limit.
LEMMA RowLeaving ==
  ASSUME TypeOK, OrdersDistinct(row), WithinLimit(row), NEW a \in Attempts, NEW r \in Rows,
         row[a].status # "NONE", r.status # "ACTIVE", r.queueOrder = row[a].queueOrder
  PROVE  /\ [row EXCEPT ![a] = r] \in Table
         /\ OrdersDistinct([row EXCEPT ![a] = r])
         /\ WithinLimit([row EXCEPT ![a] = r])
<1> DEFINE rw == [row EXCEPT ![a] = r]
<1>1. rw \in Table /\ rw[a] = r /\ \A b \in Attempts \ {a} : rw[b] = row[b]
  BY DEF TypeOK, Table
<1> HIDE DEF rw
<1>2. OrdersDistinct(rw)
  BY <1>1 DEF OrdersDistinct
<1>3. WithinLimit(rw)
  BY <1>1, FewerActive
<1> QED BY <1>1, <1>2, <1>3 DEF rw

\* No step takes a listing above its limit.
LEMMA StepWithinLimit == IInv /\ WithinLimit(row) /\ [Next]_vars => WithinLimit(row)'
<1> SUFFICES ASSUME IInv, WithinLimit(row), [Next]_vars PROVE WithinLimit(row')
  BY DEF WithinLimit, WithStatus
<1>0. /\ TypeOK /\ OrdersDistinct(row) /\ row \in Table /\ profile \in ProfileType
      /\ clock \in Nat /\ \A a \in Attempts : row[a] \in Rows
  BY DEF IInv, OrdersIssued, TypeOK, Table, ProfileType
<1>a. ASSUME NEW rw \in Table, NEW l, OrdersDistinct(rw), WithinLimit(rw)
      PROVE  Promote(rw, l) \in Table /\ WithinLimit(Promote(rw, l))
  BY <1>0, <1>a, ReconcileWithinLimit, PromoteType DEF Promote
<1>b. ASSUME UNCHANGED row PROVE WithinLimit(row')
  BY <1>b DEF WithinLimit, WithStatus
<1>c. ASSUME NEW a \in Attempts, NEW r \in Rows, row[a].status # "NONE", r.status # "ACTIVE",
             r.queueOrder = row[a].queueOrder
      PROVE  WithinLimit(Promote([row EXCEPT ![a] = r], ListingOf[a]))
  <2>1. /\ [row EXCEPT ![a] = r] \in Table
        /\ OrdersDistinct([row EXCEPT ![a] = r])
        /\ WithinLimit([row EXCEPT ![a] = r])
    BY <1>0, <1>c, RowLeaving
  <2> QED BY <2>1, <1>a
<1>d. ASSUME NEW a \in Attempts, NEW rw \in Table, NEW r, WithinLimit(rw),
             r.status = "ACTIVE" => Slots(rw, ListingOf[a]) > 0
      PROVE  WithinLimit([rw EXCEPT ![a] = r])
  <2>1. CASE r.status = "ACTIVE"
    BY <1>d, <2>1, OneMoreActive
  <2>2. CASE r.status # "ACTIVE"
    <3>1. \A b \in Attempts : [rw EXCEPT ![a] = r][b].status = "ACTIVE" => rw[b].status = "ACTIVE"
      BY <2>2 DEF Table
    <3> QED BY <1>d, <3>1, FewerActive
  <2> QED BY <2>1, <2>2
<1>1. ASSUME NEW a \in Attempts, Apply(a) PROVE WithinLimit(row')
  <2>1. PICK status \in LiveStatus :
          /\ row' = [Promote(row, ListingOf[a]) EXCEPT ![a] = Submitted(a, status)]
          /\ status = "ACTIVE" => Slots(Promote(row, ListingOf[a]), ListingOf[a]) > 0
    BY <1>1 DEF Apply, LiveStatus
  <2>2. Submitted(a, status).status = status
    BY <1>0, SubmittedRow
  <2> QED BY <1>0, <1>a, <1>d, <2>1, <2>2
<1>2. ASSUME NEW a \in Attempts, Withdraw(a) PROVE WithinLimit(row')
  <2>1. /\ Withdrawn(row[a]) \in Rows /\ Withdrawn(row[a]).status = "WITHDRAWN"
        /\ Withdrawn(row[a]).queueOrder = row[a].queueOrder
    BY <1>0, WithdrawnRow
  <2>2. row[a].status # "NONE"
    BY <1>2 DEF Withdraw, CanWithdraw, LiveStatus
  <2>3. CASE row[a].status = "ACTIVE"
    BY <1>2, <1>c, <2>1, <2>2, <2>3 DEF Withdraw
  <2>4. CASE row[a].status # "ACTIVE"
    BY <1>0, <1>2, <2>1, <2>2, <2>4, RowLeaving DEF Withdraw
  <2> QED BY <2>3, <2>4
<1>3. ASSUME NEW a \in Attempts, Reject(a) PROVE WithinLimit(row')
  <2>1. /\ NotSelected(row[a]) \in Rows /\ NotSelected(row[a]).status = "REJECTED"
        /\ NotSelected(row[a]).queueOrder = row[a].queueOrder
    BY <1>0, NotSelectedRow
  <2> QED BY <1>3, <1>c, <2>1 DEF Reject
<1>4. ASSUME NEW a \in Attempts, Restore(a) PROVE WithinLimit(row')
  <2>1. PICK status \in LiveStatus, order \in Nat :
          /\ row' = [Promote(row, ListingOf[a]) EXCEPT ![a] = Restored(a, status, order)]
          /\ status = "ACTIVE" => Slots(Promote(row, ListingOf[a]), ListingOf[a]) > 0
    <3>1. row[a].queueOrder \in Nat /\ nextOrder \in Nat
      BY <1>0, RowColumns DEF TypeOK
    <3> QED BY <1>4, <3>1 DEF Restore, LiveStatus
  <2>2. Restored(a, status, order).status = status
    BY <1>0, RestoredRow DEF TypeOK
  <2> QED BY <1>0, <1>a, <1>d, <2>1, <2>2
<1>5. ASSUME NEW a \in Attempts, ExpireViewingInterest(a) PROVE WithinLimit(row')
  <2>1. /\ Rejected(row[a], "POST_VIEWING_RESPONSE_EXPIRED") \in Rows
        /\ Rejected(row[a], "POST_VIEWING_RESPONSE_EXPIRED").status = "REJECTED"
        /\ Rejected(row[a], "POST_VIEWING_RESPONSE_EXPIRED").queueOrder = row[a].queueOrder
    BY <1>0, RejectedRow DEF RejectionReason
  <2> QED BY <1>5, <1>c, <2>1 DEF ExpireViewingInterest
<1>6. ASSUME NEW a \in Attempts, Rent(a) PROVE WithinLimit(row')
  <2>1. \A b \in Attempts : row'[b].status = "ACTIVE" => row[b].status = "ACTIVE"
    BY <1>0, <1>6, RejectedRow DEF Rent, RentedTable, Rows, RejectionReason
  <2> QED BY <2>1, FewerActive
<1>7. ASSUME NEW p \in Applicants, NEW new \in Profiles, UpdateProfile(p, new) PROVE WithinLimit(row')
  <2> DEFINE rw == RevalidatedTable(p, profile')
  <2>1. profile' \in ProfileType
    BY <1>0, <1>7 DEF UpdateProfile, ProfileType
  <2>2. rw \in Table
    BY <1>0, <2>1, TableTypes
  <2>3. row' = Reconcile(rw, profile', Released(rw))
    BY <1>7 DEF UpdateProfile
  <2>4. ASSUME NEW b \in Attempts
        PROVE  /\ rw[b].queueOrder = row[b].queueOrder
               /\ row[b].status = "NONE" => rw[b].status = "NONE"
               /\ rw[b].status = "ACTIVE" => row[b].status = "ACTIVE"
    <3>1. \/ rw[b] = Revalidated(row[b], profile', b) /\ row[b].status # "NONE"
          \/ rw[b] = row[b]
      BY DEF RevalidatedTable, Live, LiveStatus
    <3> HIDE DEF rw
    <3> QED BY <1>0, <2>1, <3>1, RevalidatedRow
  <2> HIDE DEF rw
  <2>5. OrdersDistinct(rw)
    <3>1. \A b, c \in Attempts : b # c /\ row[b].status # "NONE" /\ row[c].status # "NONE" =>
            row[b].queueOrder # row[c].queueOrder
      BY <1>0 DEF OrdersDistinct
    <3>2. ASSUME NEW b \in Attempts, NEW c \in Attempts, b # c,
                 rw[b].status # "NONE", rw[c].status # "NONE"
          PROVE  rw[b].queueOrder # rw[c].queueOrder
      BY <2>4, <3>1, <3>2
    <3> QED BY <3>2 DEF OrdersDistinct
  <2>6. WithinLimit(rw)
    BY <2>4, FewerActive
  <2> QED BY <1>0, <2>1, <2>2, <2>3, <2>5, <2>6, ReconcileWithinLimit
<1>8. ASSUME NEW l \in Listings, NEW c \in Criteria, UpdateCriteria(l, c) PROVE WithinLimit(row')
  <2>1. \A b \in Attempts : row'[b].status = row[b].status
    BY <1>0, <1>8 DEF UpdateCriteria, ReassessedTable, Rows
  <2> QED BY <2>1, FewerActive
<1>9. ASSUME NEW l \in Listings, NEW from, GoPublic(l, from) PROVE WithinLimit(row')
  BY <1>0, <1>9, ReconcileWithinLimit DEF GoPublic
<1>10. ASSUME NEW l \in Listings, NEW from, NEW to, GoDark(l, from, to) PROVE WithinLimit(row')
  BY <1>10, <1>b DEF GoDark
<1>11. ASSUME NEW l \in Listings, PromoteWaiting(l) PROVE WithinLimit(row')
  BY <1>0, <1>11, <1>a DEF PromoteWaiting
<1>12. CASE Tick
  BY <1>12, <1>b DEF Tick
<1>13. CASE UNCHANGED vars
  BY <1>13, <1>b DEF vars
<1> QED BY <1>1, <1>2, <1>3, <1>4, <1>5, <1>6, <1>7, <1>8, <1>9, <1>10, <1>11, <1>12, <1>13
        DEF Next, AttemptStep, ListingStep, Publish, Resume, MoveToDraft, Pause, Archive

\* No listing starts above its limit.
LEMMA InitWithinLimit == Init => WithinLimit(row)
<1> SUFFICES ASSUME Init, NEW l \in Listings
             PROVE  Cardinality(WithStatus(row, l, "ACTIVE")) <= Limit
  BY DEF WithinLimit
<1>1. WithStatus(row, l, "ACTIVE") = {}
  <2>1. CASE row = [a \in Attempts |-> Unborn]
    BY <2>1 DEF WithStatus, Unborn
  <2>2. CASE \E a \in Legacy, r \in Rows : /\ row = [[b \in Attempts |-> Unborn] EXCEPT ![a] = r]
                                          /\ r.status = "REJECTED"
    BY <2>2 DEF WithStatus, Unborn
  <2> QED BY <2>1, <2>2, LegacyRowType DEF Init, RejectionReason
<1> QED BY <1>1, FS_EmptySet, LimitAssumption

\* However slots are taken, given back and handed on, a listing never has more
\* ACTIVE applications than the limit.
THEOREM LimitHolds == Spec => []ActiveWithinLimit
<1>1. WithinLimit(row) => ActiveWithinLimit
  BY DEF WithinLimit, ActiveWithinLimit
<1> QED BY InitInv, StepInv, InitWithinLimit, StepWithinLimit, <1>1, PTL DEF Spec

-----------------------------------------------------------------------------
(***************************************************************************)
(* What the readers of applications say of a pair.                         *)
(***************************************************************************)
\* Of the attempts of a pair one is the newest, and the others are over.
LEMMA LatestStands ==
  ASSUME IInv, NEW pair, AttemptsOf(pair) # {}
  PROVE  /\ Latest(pair) \in AttemptsOf(pair)
         /\ \A b \in AttemptsOf(pair) \ {Latest(pair)} :
              /\ row[b].createdAt < row[Latest(pair)].createdAt
              /\ row[b].status \notin LiveStatus \cup {"ACCEPTED"}
<1> DEFINE S == AttemptsOf(pair)
           D == {row[a].createdAt : a \in S}
<1>1. \A a \in Attempts : row[a].createdAt \in Nat
  BY RowColumns DEF IInv, TypeOK
<1>2. S \in SUBSET Attempts /\ \A a \in S : Pair(a) = pair /\ Born(a)
  BY DEF AttemptsOf, Born
<1> HIDE DEF S
<1>3. IsFiniteSet(S)
  BY <1>2, FS_Subset, AttemptsAssumption
<1>4. IsFiniteSet(D)
  <2> DEFINE f == [a \in S |-> row[a].createdAt]
  <2>1. f \in Surjection(S, D)
    BY DEF Surjection
  <2> HIDE DEF f, D
  <2> QED BY <1>3, <2>1, FS_Surjection
<1>5. D \in SUBSET Nat /\ D # {}
  BY <1>1, <1>2 DEF S
<1>6. PICK d \in D : \A e \in D : e <= d
  <2> HIDE DEF D
  <2> QED BY <1>4, <1>5, GreatestElement
<1>7. \E a \in S : \A b \in S : row[b].createdAt <= row[a].createdAt
  BY <1>6
<1>8. Latest(pair) \in S /\ \A b \in S : row[b].createdAt <= row[Latest(pair)].createdAt
  BY <1>7 DEF Latest, S
<1>9. ASSUME NEW b \in S \ {Latest(pair)}
      PROVE  /\ row[b].createdAt < row[Latest(pair)].createdAt
             /\ row[b].status \notin LiveStatus \cup {"ACCEPTED"}
  <2>1. Rivals(b, Latest(pair))
    BY <1>2, <1>8, <1>9 DEF Rivals
  <2>2. /\ row[b].createdAt # row[Latest(pair)].createdAt
        /\ row[b].status \in LiveStatus \cup {"ACCEPTED"} => row[b].createdAt > row[Latest(pair)].createdAt
    BY <1>2, <1>8, <2>1 DEF IInv, OnlyNewestAttemptIsCurrent
  <2> QED BY <1>1, <1>2, <1>8, <2>2
<1> QED BY <1>8, <1>9 DEF S

\* The newest attempt of a pair is what each reader of an applicant sees of it.
LEMMA ReadersSeeTheLatest == IInv => ReadersAgree
<1> SUFFICES ASSUME IInv, NEW pair \in Pairs, AttemptsOf(pair) # {}
             PROVE  LET shown == Representative(pair)
                    IN  /\ shown = Latest(pair)
                        /\ BlockingApplication(pair) # {shown} => row[shown].status = "WITHDRAWN"
                        /\ ShownAdmission(pair, pair[2], TRUE) => row[shown].status \in {"REJECTED", "WITHDRAWN"}
  BY DEF ReadersAgree
<1> DEFINE S == AttemptsOf(pair)
           a == Latest(pair)
<1>1. a \in S /\ \A b \in S \ {a} : /\ row[b].createdAt < row[a].createdAt
                                    /\ row[b].status \notin LiveStatus \cup {"ACCEPTED"}
  BY LatestStands
<1>2. /\ \A b \in Attempts : row[b].createdAt \in Nat /\ row[b].status \in ApplicationStatus
      /\ \A b \in S : b \in Attempts /\ row[b].status # "NONE"
  BY RowColumns DEF IInv, TypeOK, AttemptsOf
<1> HIDE DEF a, S
<1>3. Representative(pair) = a
  <2> DEFINE live == {b \in S : Live(row[b])}
             candidates == IF live # {} THEN live ELSE S
  <2>1. candidates \in SUBSET S /\ a \in candidates
    BY <1>1 DEF Live
  <2>2. Representative(pair) = CHOOSE b \in candidates : \A c \in candidates : row[c].createdAt <= row[b].createdAt
    BY DEF Representative, S
  <2> HIDE DEF candidates
  <2>3. \A c \in candidates : row[c].createdAt <= row[a].createdAt
    BY <1>1, <1>2, <2>1
  <2>4. \A b \in candidates : (\A c \in candidates : row[c].createdAt <= row[b].createdAt) => b = a
    BY <1>1, <1>2, <2>1
  <2> QED BY <2>1, <2>2, <2>3, <2>4
<1>4. ASSUME row[a].status # "WITHDRAWN" PROVE BlockingApplication(pair) = {a}
  <2> DEFINE blocking == {b \in S : row[b].status \in LiveStatus \cup {"REJECTED", "ACCEPTED"}}
  <2>1. a \in blocking /\ blocking \in SUBSET S
    BY <1>1, <1>2, <1>4 DEF ApplicationStatus, LiveStatus
  <2>2. BlockingApplication(pair) = {b \in blocking : \A c \in blocking : row[c].createdAt <= row[b].createdAt}
    BY DEF BlockingApplication, S
  <2> HIDE DEF blocking
  <2>3. \A c \in blocking : row[c].createdAt <= row[a].createdAt
    BY <1>1, <1>2, <2>1
  <2>4. \A b \in blocking : (\A c \in blocking : row[c].createdAt <= row[b].createdAt) => b = a
    BY <1>1, <1>2, <2>1
  <2> QED BY <2>1, <2>2, <2>3, <2>4
<1>5. ASSUME ShownAdmission(pair, pair[2], TRUE) PROVE row[a].status \in {"REJECTED", "WITHDRAWN"}
  <2>1. row[a] \in {row[b] : b \in S}
    BY <1>1
  <2>2. row[a].status \notin LiveStatus \cup {"ACCEPTED"}
    BY <1>5, <2>1 DEF ShownAdmission, CanSubmit, S
  <2> QED BY <1>1, <1>2, <2>2 DEF ApplicationStatus, LiveStatus
<1> QED BY <1>3, <1>4, <1>5 DEF a

\* The history of transitions decides nothing.
LEMMA ReadsAreSteps == ReadSpec => Spec
<1>1. [ReadNext]_readVars => [Next]_vars
  BY DEF ReadNext, readVars
<1> QED BY <1>1, PTL DEF ReadSpec, ReadInit, Spec

\* So the invariant of the applications holds while they are read.
LEMMA ReadInvariance == ReadSpec => []IInv
<1> QED BY ReadsAreSteps, InitInv, StepInv, PTL DEF Spec

\* The overview, the historical indicator and the admission of an applicant agree on the
\* newest attempt, for any number of attempts (applicantRepresentativesCte,
\* findBlockingApplicationsForListings, and evaluate()).
THEOREM ReadersOfOneMind == ReadSpec => []ReadersAgree
<1> QED BY ReadersSeeTheLatest, ReadInvariance, PTL

\* The capabilities are the guards of the operations; the card of a recent exit leaves
\* the question for a newer attempt out, since an exit is the newest.
LEMMA CardsAreOfTheNewest ==
  ASSUME IInv, NEW a \in RecentExits
  PROVE  a \in Attempts /\ ~HasNewerAttempt(a)
<1>1. a \in Attempts /\ ExitOf(Pair(a), a)
  BY DEF RecentExits
<1>2. /\ AttemptsOf(Pair(a)) # {} /\ a = Latest(Pair(a))
  BY <1>1 DEF ExitOf
<1>3. \A b \in AttemptsOf(Pair(a)) \ {a} : row[b].createdAt < row[a].createdAt
  <2>1. \A b \in AttemptsOf(Pair(a)) \ {Latest(Pair(a))} : row[b].createdAt < row[Latest(Pair(a))].createdAt
    BY <1>2, LatestStands
  <2> QED BY <1>2, <2>1
<1>4. \A b \in Attempts : row[b].createdAt \in Nat
  BY RowColumns DEF IInv, TypeOK
<1>5. ASSUME NEW b \in Attempts, Pair(b) = Pair(a), row[b].status # "NONE"
      PROVE  ~ (row[b].createdAt > row[a].createdAt)
  <2>1. b \in AttemptsOf(Pair(a))
    BY <1>5 DEF AttemptsOf
  <2> QED BY <1>1, <1>3, <1>4, <2>1
<1> QED BY <1>1, <1>5 DEF HasNewerAttempt

\* Workspaces and cards offer what withdraw(), reject(), restore() and rentListing()
\* take, for any number of attempts.
THEOREM OffersAccepted == ReadSpec => []OfferedIsAccepted
<1>1. IInv => OfferedIsAccepted
  <2> SUFFICES ASSUME IInv, NEW a \in Attempts, row[a].status # "NONE"
               PROVE  /\ Capabilities(a).canWithdraw = MayWithdraw(a)
                      /\ Capabilities(a).canReject = MayReject(a)
                      /\ Capabilities(a).canRestore = MayRestore(a)
                      /\ Capabilities(a).canSelectForRental = MayRent(a)
                      /\ a \in RecentExits => CardCanRestore(a) = MayRestore(a)
    BY DEF OfferedIsAccepted
  <2>1. /\ Capabilities(a).canWithdraw = CanWithdraw(row[a])
        /\ Capabilities(a).canReject = (row[a].status = "ACTIVE" /\ CurationCooldownOver(a))
        /\ Capabilities(a).canRestore = RestoreAllowed(a, HasNewerAttempt(a), Eligible(profile, criteria, a))
        /\ Capabilities(a).canSelectForRental =
             (row[a].status = "ACTIVE" /\ listingStatus[ListingOf[a]] \in {"PUBLISHED", "PAUSED"})
    BY DEF Capabilities
  <2>2. RestoreAllowed(a, HasNewerAttempt(a), Eligible(profile, criteria, a)) = MayRestore(a)
    BY Zenon DEF RestoreAllowed
  <2>3. ASSUME a \in RecentExits PROVE CardCanRestore(a) = MayRestore(a)
    <3>1. ~HasNewerAttempt(a)
      BY <2>3, CardsAreOfTheNewest
    <3> QED BY <3>1, Zenon DEF CardCanRestore, RestoreAllowed
  <2> QED BY <2>1, <2>2, <2>3
<1> QED BY ReadInvariance, <1>1, PTL

-----------------------------------------------------------------------------
(***************************************************************************)
(* The history of transitions: what is left of it tells who took part, and *)
(* what happened last to each attempt.                                     *)
(***************************************************************************)
Of(history, a) == {t \in history : t.attempt = a}

LastOf(history, a) == {t \in Of(history, a) : \A u \in Of(history, a) : u.at <= t.at}

Dated(history) == IsFiniteSet(history) /\ \A t \in history : t.at \in Nat

\* A nonempty set of numbers has a least element.
LEMMA LeastElement ==
  ASSUME NEW D \in SUBSET Nat, D # {}
  PROVE  \E d \in D : \A e \in D : d <= e
<1> DEFINE R == OpToRel(<, Nat)
<1>1. \A m, n \in Nat : m < n => <<m, n>> \in R
  BY DEF OpToRel
<1> HIDE DEF R
<1>2. IsWellFoundedOn(R, Nat)
  BY NatLessThanWellFounded DEF R
<1>3. PICK d \in D : \A e \in D : ~ (<<e, d>> \in R)
  BY <1>2, WFMin
<1>4. ASSUME NEW e \in D PROVE d <= e
  <2>1. d \in Nat /\ e \in Nat /\ ~ (<<e, d>> \in R)
    BY <1>3
  <2>2. ~ (e < d)
    BY <1>1, <2>1
  <2> QED BY <2>1, <2>2
<1> QED BY <1>4

\* A finite history has a latest and an earliest date.
LEMMA LatestDate ==
  ASSUME NEW history, Dated(history), history # {}
  PROVE  /\ \E t \in history : \A u \in history : u.at <= t.at
         /\ \E t \in history : \A u \in history : t.at <= u.at
<1> DEFINE D == {t.at : t \in history}
           f == [t \in history |-> t.at]
<1>1. f \in Surjection(history, D)
  BY DEF Surjection
<1>2. D \in SUBSET Nat /\ D # {}
  BY DEF Dated
<1>3. IsFiniteSet(D)
  <2> HIDE DEF f, D
  <2> QED BY <1>1, FS_Surjection DEF Dated
<1>4. (\E d \in D : \A e \in D : e <= d) /\ (\E d \in D : \A e \in D : d <= e)
  <2> HIDE DEF D
  <2> QED BY <1>2, <1>3, GreatestElement, LeastElement
<1> QED BY <1>4

\* Of the transitions of an attempt, if any, some come last.
LEMMA SomethingIsLast ==
  ASSUME NEW history, Dated(history), NEW a, Of(history, a) # {}
  PROVE  LastOf(history, a) # {}
<1>1. Dated(Of(history, a))
  <2>1. Of(history, a) \in SUBSET history
    BY DEF Of
  <2> QED BY <2>1, FS_Subset DEF Dated
<1> QED BY <1>1, LatestDate DEF LastOf

\* Nothing that tells is forgotten.
LEMMA TellingTells ==
  ASSUME NEW history, Dated(history)
  PROVE  /\ Telling(history) \subseteq history
         /\ \A a : LastOf(Telling(history), a) = LastOf(history, a)
         /\ \A a : Of(history, a) # {} => Of(Telling(history), a) # {}
         /\ \A t \in history : t.status = "ACTIVE" =>
              \E u \in Telling(history) : u.status = "ACTIVE" /\ Pair(u.attempt) = Pair(t.attempt)
<1>1. Telling(history) \subseteq history /\ \A t \in history : t.at \in Nat
  BY DEF Telling, Dated
<1>2. ASSUME NEW a, NEW t \in LastOf(history, a) PROVE t \in Telling(history)
  <2>1. t \in history /\ \A u \in history : u.attempt = t.attempt => u.at <= t.at
    BY <1>2 DEF LastOf, Of
  <2> QED BY <2>1 DEF Telling
<1>3. ASSUME NEW a PROVE LastOf(Telling(history), a) = LastOf(history, a)
  <2>1. ASSUME NEW t \in LastOf(history, a) PROVE t \in LastOf(Telling(history), a)
    BY <1>1, <1>2, <2>1 DEF LastOf, Of
  <2>2. ASSUME NEW t \in LastOf(Telling(history), a) PROVE t \in LastOf(history, a)
    <3>1. t \in Of(history, a) /\ \A u \in Of(Telling(history), a) : u.at <= t.at
      BY <1>1, <2>2 DEF LastOf, Of
    <3>2. PICK m \in LastOf(history, a) : TRUE
      BY <3>1, SomethingIsLast
    <3>3. m \in Of(Telling(history), a) /\ m \in history /\ \A u \in Of(history, a) : u.at <= m.at
      BY <1>2, <3>2 DEF LastOf, Of
    <3>4. \A u \in Of(history, a) : u.at <= t.at
      <4>1. m.at <= t.at /\ m.at \in Nat /\ t.at \in Nat
        BY <1>1, <3>1, <3>3 DEF Of
      <4>2. \A u \in Of(history, a) : u.at \in Nat
        BY <1>1 DEF Of
      <4> QED BY <3>3, <4>1, <4>2
    <3> QED BY <3>1, <3>4 DEF LastOf
  <2> QED BY <2>1, <2>2
<1>4. ASSUME NEW a, Of(history, a) # {} PROVE Of(Telling(history), a) # {}
  <2>1. PICK m \in LastOf(history, a) : TRUE
    BY <1>4, SomethingIsLast
  <2> QED BY <1>2, <2>1 DEF LastOf, Of
<1>5. ASSUME NEW t \in history, t.status = "ACTIVE"
      PROVE  \E u \in Telling(history) : u.status = "ACTIVE" /\ Pair(u.attempt) = Pair(t.attempt)
  <2> DEFINE S == {u \in history : u.status = "ACTIVE" /\ Pair(u.attempt) = Pair(t.attempt)}
  <2>1. S \in SUBSET history /\ t \in S
    BY <1>5
  <2>2. \A u \in history : u \in S <=> u.status = "ACTIVE" /\ Pair(u.attempt) = Pair(t.attempt)
    OBVIOUS
  <2> HIDE DEF S
  <2>3. Dated(S)
    BY <2>1, FS_Subset DEF Dated
  <2>4. PICK u \in S : \A v \in S : u.at <= v.at
    BY <2>1, <2>3, LatestDate
  <2>5. u \in Telling(history)
    BY <2>1, <2>2, <2>4 DEF Telling
  <2> QED BY <2>1, <2>2, <2>5
<1> QED BY <1>1, <1>3, <1>4, <1>5

-----------------------------------------------------------------------------
(***************************************************************************)
(* What the history says of the rows.                                      *)
(***************************************************************************)
\* A transition is dated by the clock, or by the attempt it submits.
TransitionFits(t) ==
  /\ t.attempt \in Attempts /\ Born(t.attempt)
  /\ t.at \in Nat \ {NoDate}
  /\ IF t.from = "NONE" THEN t.at = row[t.attempt].createdAt ELSE t.at <= clock
  /\ t.status = "ACTIVE" => Pair(t.attempt) \in participants
  /\ \A b \in AttemptsOf(Pair(t.attempt)) :
       row[t.attempt].createdAt < row[b].createdAt => t.at <= row[b].createdAt

\* Without transitions an attempt is from before the history; with them the last
\* accounts for its state, unless it was submitted ahead of the clock.
AttemptFits(a) ==
  /\ row[a].status = "ACTIVE" => row[a].activeAt
  /\ row[a].activeAt => Pair(a) \in participants
  /\ row[a].createdAt > clock => \E b \in AttemptsOf(Pair(a)) : row[a].createdAt = row[b].createdAt + 1
  /\ TransitionsOf(a) = {} => row[a].activeAt /\ row[a].createdAt <= clock
  /\ TransitionsOf(a) # {} =>
       /\ row[a].status = "REJECTED" => row[a].publicReason # "NONE"
       /\ \A t \in LastTransitions(a) : row[a].createdAt <= t.at
       /\ DatedAhead(a) \/ \E t \in LastTransitions(a) : Consistent(t)

\* Whoever took part did so by a transition, or before the history.
PairFits(pair) ==
  \/ \E t \in transitions : Pair(t.attempt) = pair /\ t.status = "ACTIVE"
  \/ \E b \in AttemptsOf(pair) : b \in Legacy /\ (row[b].activeAt \/ row[b].event = "RESTORED")

ReadInv ==
  /\ IInv
  /\ IsFiniteSet(transitions)
  /\ \A t \in transitions : TransitionFits(t)
  /\ \A a \in Attempts : Born(a) => AttemptFits(a)
  /\ \A pair \in participants : PairFits(pair)


\* The clock never runs back.
LEMMA ClockRuns ==
  ASSUME TypeOK, [Next]_vars
  PROVE  clock \in Nat \ {NoDate} /\ clock' \in Nat /\ clock <= clock'
<1>1. clock \in Nat \ {NoDate}
  BY DEF TypeOK
<1>2. clock' = clock \/ clock' = clock + 1
  BY DEF Next, vars, AttemptStep, ListingStep, Apply, Withdraw, Reject, Restore, ExpireViewingInterest,
         Rent, Publish, Resume, GoPublic, MoveToDraft, Pause, Archive, GoDark, PromoteWaiting,
         UpdateCriteria, UpdateProfile, Tick
<1> QED BY <1>1, <1>2

\* What a step does to one attempt, and that it leaves the superseded ones alone.
LEMMA StepOfAttempt ==
  ASSUME IInv, StepShape, NEW a \in Attempts
  PROVE  /\ \/ Keeps(a) /\ a \notin Changed
            \/ a \in Changed /\ Born(a) /\ (Promotes(a) \/ Leaves(a) \/ Restores(a))
            \/ a \in Changed /\ Submits(a)
         /\ Born(a) => row'[a].status # "NONE" /\ row'[a].createdAt = row[a].createdAt
         /\ a \in Changed => row'[a].status # "NONE"
         /\ \A b \in Attempts :
              Rivals(b, a) /\ row[b].createdAt < row[a].createdAt => b \notin Changed
         /\ Submits(a) => \A b \in Attempts : Pair(b) = Pair(a) /\ b # a => b \notin Changed
<1>1. \A b \in Attempts : Serves(b) \/ Leaves(b) \/ Submits(b) \/ Restores(b)
  BY DEF StepShape
<1>2. ASSUME NEW b \in Attempts
      PROVE  \/ Keeps(b) /\ b \notin Changed
             \/ b \in Changed /\ Born(b) /\ Promotes(b)
             \/ b \in Changed /\ Born(b) /\ Leaves(b)
             \/ b \in Changed /\ Born(b) /\ Restores(b)
             \/ b \in Changed /\ Submits(b)
  <2>1. Keeps(b) => b \notin Changed
    BY DEF Keeps, SameColumns, Changed
  <2>2. Promotes(b) => b \in Changed /\ Born(b)
    BY DEF Promotes, Changed, Born
  <2>3. Leaves(b) => b \in Changed /\ Born(b)
    BY DEF Leaves, Changed, Born, Live, LiveStatus
  <2>4. Restores(b) => b \in Changed /\ Born(b)
    BY DEF Restores, Changed, Born, Live, LiveStatus
  <2>5. Submits(b) => b \in Changed
    BY DEF Submits, Changed, Live, LiveStatus
  <2> QED BY <1>1, <2>1, <2>2, <2>3, <2>4, <2>5 DEF Serves
<1>3. ASSUME Born(a) PROVE row'[a].status # "NONE" /\ row'[a].createdAt = row[a].createdAt
  BY <1>2, <1>3 DEF Keeps, SameColumns, Promotes, Leaves, Restores, Submits, Born, Live, LiveStatus
<1>4. ASSUME a \in Changed PROVE row'[a].status # "NONE"
  BY <1>2, <1>4 DEF Promotes, Leaves, Restores, Submits, Live, LiveStatus
<1>5. ASSUME NEW b \in Attempts, Rivals(b, a), row[b].createdAt < row[a].createdAt
      PROVE  b \notin Changed
  <2>1. /\ row[b].createdAt \in Nat /\ row[a].createdAt \in Nat
        /\ row[b].status \in LiveStatus \cup {"ACCEPTED"} => row[b].createdAt > row[a].createdAt
    BY <1>5, RowColumns DEF IInv, TypeOK, OnlyNewestAttemptIsCurrent
  <2>2. row[b].status \notin LiveStatus \cup {"ACCEPTED"} /\ row[b].status # "NONE"
    BY <1>5, <2>1 DEF Rivals, Born
  <2>3. ~ Promotes(b) /\ ~ Leaves(b) /\ ~ Submits(b)
    BY <2>2 DEF Promotes, Leaves, Submits, Live, LiveStatus
  <2>4. ~ Restores(b)
    BY <1>5, <2>1 DEF Restores, HasNewerAttempt, Rivals, Born
  <2> QED BY <1>2, <2>3, <2>4
<1>6. ASSUME Submits(a), NEW b \in Attempts, Pair(b) = Pair(a), b # a
      PROVE  b \notin Changed
  <2>1. PICK c \in Attempts : (Submits(c) \/ Restores(c)) /\ \A d \in Attempts \ {c} : Serves(d)
    <3>1. ~ (Serves(a) \/ Leaves(a))
      BY <1>6 DEF Submits, Serves, Keeps, SameColumns, Promotes, Leaves, Live, LiveStatus
    <3> QED BY <3>1 DEF StepShape
  <2>2. c = a
    BY <1>6, <2>1 DEF Submits, Serves, Keeps, SameColumns, Promotes, Live, LiveStatus
  <2>3. Serves(b)
    BY <1>6, <2>1, <2>2
  <2>4. row[b].status # "WAITING"
    <3>1. CASE row[b].status = "NONE"
      BY <3>1
    <3>2. CASE row[b].status # "NONE"
      <4>1. row[b] \in History(row, a)
        BY <1>6, <3>2 DEF History
      <4> QED BY <1>6, <4>1 DEF Submits, CanSubmit, LiveStatus
    <3> QED BY <3>1, <3>2
  <2> QED BY <2>3, <2>4 DEF Serves, Promotes, Keeps, SameColumns, Changed
<1>7. \/ Keeps(a) /\ a \notin Changed
      \/ a \in Changed /\ Born(a) /\ (Promotes(a) \/ Leaves(a) \/ Restores(a))
      \/ a \in Changed /\ Submits(a)
  BY <1>2
<1> QED BY <1>3, <1>4, <1>5, <1>6, <1>7

\* Each changed attempt appends one transition, dated now or with its submission.
LEMMA AppendedOnce ==
  /\ IsFiniteSet(Appended)
  /\ \A a \in Attempts : Of(Appended, a) = IF a \in Changed THEN {Transition(a)} ELSE {}
  /\ \A t \in Appended : t.attempt \in Changed /\ t = Transition(t.attempt)
<1> DEFINE f == [a \in Changed |-> Transition(a)]
<1>1. Changed \in SUBSET Attempts
  BY DEF Changed
<1>2. \A a : Transition(a).attempt = a
  BY DEF Transition
<1>3. f \in Surjection(Changed, Appended)
  BY DEF Surjection, Appended
<1>4. IsFiniteSet(Changed)
  BY <1>1, FS_Subset, AttemptsAssumption
<1>5. IsFiniteSet(Appended)
  <2> HIDE DEF f
  <2> QED BY <1>3, <1>4, FS_Surjection
<1>6. \A t \in Appended : t.attempt \in Changed /\ t = Transition(t.attempt)
  BY <1>2 DEF Appended
<1>7. \A a \in Changed : Transition(a) \in Appended
  BY DEF Appended
<1>8. \A a \in Attempts : Of(Appended, a) = IF a \in Changed THEN {Transition(a)} ELSE {}
  <2> HIDE DEF Appended
  <2>1. ASSUME NEW a \in Attempts PROVE Of(Appended, a) = IF a \in Changed THEN {Transition(a)} ELSE {}
    <3>1. CASE a \in Changed
      BY <1>2, <1>6, <1>7, <3>1 DEF Of
    <3>2. CASE a \notin Changed
      BY <1>6, <3>2 DEF Of
    <3> QED BY <3>1, <3>2
  <2> QED BY <2>1
<1> QED BY <1>5, <1>6, <1>8

\* The transitions and the last ones of an attempt after a step.
LEMMA HistoryOfAttempt ==
  ASSUME ReadInv, ReadNext, NEW a \in Attempts
  PROVE  /\ Dated(transitions \cup Appended)
         /\ LastOf(transitions', a) = LastOf(transitions \cup Appended, a)
         /\ (Of(transitions', a) = {}) <=> (Of(transitions \cup Appended, a) = {})
         /\ Of(transitions \cup Appended, a) =
              Of(transitions, a) \cup (IF a \in Changed THEN {Transition(a)} ELSE {})
<1>1. TypeOK /\ IInv /\ [Next]_vars /\ StepShape
  BY StepHasShape DEF ReadInv, IInv, ReadNext
<1>2. IsFiniteSet(transitions \cup Appended)
  BY AppendedOnce, FS_Union DEF ReadInv
<1>3. ASSUME NEW t \in Appended PROVE t.at \in Nat
  <2>1. PICK b \in Changed : t = Transition(b)
    BY <1>3, AppendedOnce
  <2>2. clock \in Nat /\ b \in Attempts
    BY <1>1, <2>1 DEF TypeOK, Changed
  <2>3. row'[b] \in Rows
    <3>1. TypeOK'
      BY <1>1, StepType
    <3> QED BY <2>2, <3>1 DEF TypeOK
  <2>4. row'[b].createdAt \in Nat
    BY <2>3, RowColumns
  <2> QED BY <2>1, <2>2, <2>4 DEF Transition
<1>4. \A t \in transitions : t.at \in Nat
  BY DEF ReadInv, TransitionFits
<1>5. Dated(transitions \cup Appended)
  BY <1>2, <1>3, <1>4 DEF Dated
<1>6. transitions' = Telling(transitions \cup Appended)
  BY DEF ReadNext
<1>7. Of(transitions \cup Appended, a) =
        Of(transitions, a) \cup (IF a \in Changed THEN {Transition(a)} ELSE {})
  <2>1. Of(transitions \cup Appended, a) = Of(transitions, a) \cup Of(Appended, a)
    BY DEF Of
  <2> QED BY <2>1, AppendedOnce
<1> DEFINE h == transitions \cup Appended
<1> HIDE DEF h
<1>8. /\ LastOf(Telling(h), a) = LastOf(h, a)
      /\ Of(h, a) # {} => Of(Telling(h), a) # {}
      /\ Telling(h) \subseteq h
  BY <1>5, TellingTells DEF h
<1>9. (Of(Telling(h), a) = {}) <=> (Of(h, a) = {})
  BY <1>8 DEF Of
<1> QED BY <1>5, <1>6, <1>7, <1>8, <1>9 DEF h

\* An attempt has transitions only once it exists.
LEMMA UnbornHasNone ==
  ASSUME ReadInv, NEW a \in Attempts, Of(transitions, a) # {}
  PROVE  Born(a)
BY DEF ReadInv, TransitionFits, Of

\* The transitions the readers look at, as parts of the history.
LEMMA ReadersTransitions ==
  \A a : TransitionsOf(a) = Of(transitions, a) /\ LastTransitions(a) = LastOf(transitions, a)
BY DEF TransitionsOf, LastTransitions, Of, LastOf

\* The same after a step.
LEMMA ReadersTransitionsNext ==
  \A a : TransitionsOf(a)' = Of(transitions', a) /\ LastTransitions(a)' = LastOf(transitions', a)
BY DEF TransitionsOf, LastTransitions, Of, LastOf

\* What a step leaves of the transitions, and what it appends, fit the rows.
LEMMA StepTransitions ==
  ASSUME ReadInv, ReadNext, NEW t \in transitions'
  PROVE  TransitionFits(t)'
<1>0. /\ TypeOK /\ IInv /\ [Next]_vars /\ StepShape /\ TypeOK' /\ row \in Table
      /\ participants \subseteq participants'
  BY StepHasShape, StepType DEF ReadInv, IInv, ReadNext, TypeOK, Table
<1>1. /\ clock \in Nat \ {NoDate} /\ clock' \in Nat /\ clock <= clock'
      /\ \A a \in Attempts : row[a].createdAt \in Nat /\ row'[a].createdAt \in Nat
  BY <1>0, ClockRuns, RowColumns DEF TypeOK
<1>2. t \in transitions \/ t \in Appended
  <2>1. Dated(transitions \cup Appended)
    <3>1. CASE Attempts # {}
      BY <3>1, HistoryOfAttempt
    <3>2. CASE Attempts = {}
      <4>1. transitions = {} /\ Appended = {}
        BY <3>2 DEF ReadInv, TransitionFits, Appended, Changed
      <4> QED BY <4>1, FS_EmptySet DEF Dated
    <3> QED BY <3>1, <3>2
  <2>2. transitions' = Telling(transitions \cup Appended)
    BY DEF ReadNext
  <2> QED BY <2>1, <2>2, TellingTells
<1>3. CASE t \in transitions
  <2> DEFINE a == t.attempt
  <2>1. /\ a \in Attempts /\ Born(a) /\ t.at \in Nat \ {NoDate}
        /\ IF t.from = "NONE" THEN t.at = row[a].createdAt ELSE t.at <= clock
        /\ t.status = "ACTIVE" => Pair(a) \in participants
        /\ \A b \in AttemptsOf(Pair(a)) :
             row[a].createdAt < row[b].createdAt => t.at <= row[b].createdAt
    BY <1>3 DEF ReadInv, TransitionFits
  <2> HIDE DEF a
  <2>2. row'[a].status # "NONE" /\ row'[a].createdAt = row[a].createdAt
    BY <1>0, <2>1, StepOfAttempt
  <2>3. ASSUME NEW b \in Attempts, Pair(b) = Pair(a), row'[b].status # "NONE",
               row'[a].createdAt < row'[b].createdAt
        PROVE  t.at <= row'[b].createdAt
    <3>1. CASE Born(b)
      <4>1. row'[b].createdAt = row[b].createdAt
        BY <1>0, <3>1, StepOfAttempt
      <4> QED BY <2>1, <2>2, <2>3, <3>1, <4>1 DEF AttemptsOf, Born
    <3>2. CASE ~ Born(b)
      <4>1. Submits(b)
        <5>1. ~ Keeps(b)
          BY <2>3, <3>2 DEF Keeps, SameColumns, Born
        <5> QED BY <1>0, <3>2, <5>1, StepOfAttempt
      <4>2. row'[b].createdAt >= clock
        BY <1>0, <1>1, <4>1, SubmissionDateIsLatest DEF Submits
      <4> QED BY <1>1, <2>1, <2>2, <2>3, <4>2
    <3> QED BY <3>1, <3>2
  <2>4. IF t.from = "NONE" THEN t.at = row'[a].createdAt ELSE t.at <= clock'
    BY <1>1, <2>1, <2>2
  <2>5. t.status = "ACTIVE" => Pair(a) \in participants'
    BY <1>0, <2>1
  <2> QED BY <2>1, <2>2, <2>3, <2>4, <2>5 DEF TransitionFits, AttemptsOf, Born, a
<1>4. CASE t \in Appended
  <2>1. PICK a \in Changed : t = Transition(a)
    BY <1>4, AppendedOnce
  <2>2. a \in Attempts /\ row'[a].status # "NONE"
    BY <1>0, StepOfAttempt DEF Changed
  <2>3. /\ t.attempt = a /\ t.from = row[a].status /\ t.status = row'[a].status
        /\ t.at = IF row[a].status = "NONE" THEN row'[a].createdAt ELSE clock
    BY <2>1 DEF Transition
  <2>4. row[a].status = "NONE" => Submits(a)
    BY <1>0, <2>1, <2>2, StepOfAttempt DEF Born
  <2>5. Submits(a) =>
          /\ row'[a].createdAt >= clock
          /\ \A b \in Attempts : Pair(b) = Pair(a) /\ row[b].status # "NONE" =>
               row[b].createdAt < row'[a].createdAt
    BY <1>0, <1>1, <2>2, SubmissionDateIsLatest DEF Submits
  <2>6. t.at \in Nat \ {NoDate}
    BY <1>1, <2>2, <2>3, <2>4, <2>5
  <2>7. t.status = "ACTIVE" => Pair(a) \in participants'
    BY <2>2, <2>3 DEF ReadNext
  <2>8. ASSUME NEW b \in Attempts, Pair(b) = Pair(a), row'[b].status # "NONE",
               row'[a].createdAt < row'[b].createdAt
        PROVE  FALSE
    <3>1. b # a
      BY <1>1, <2>2, <2>8
    <3>2. CASE Born(b)
      <4>1. row'[b].createdAt = row[b].createdAt
        BY <1>0, <3>2, StepOfAttempt
      <4>2. ~ Submits(a)
        BY <1>1, <2>2, <2>5, <2>8, <3>2, <4>1 DEF Born
      <4>3. Born(a)
        BY <2>4, <4>2 DEF Born
      <4>4. row'[a].createdAt = row[a].createdAt
        BY <1>0, <2>2, <4>3, StepOfAttempt
      <4>5. Rivals(a, b)
        BY <2>8, <3>1, <3>2, <4>3 DEF Rivals
      <4>6. a \notin Changed
        BY <1>0, <2>2, <2>8, <4>1, <4>4, <4>5, StepOfAttempt
      <4> QED BY <2>1, <4>6
    <3>3. CASE ~ Born(b)
      <4>1. Submits(b)
        <5>1. ~ Keeps(b)
          BY <2>8, <3>3 DEF Keeps, SameColumns, Born
        <5> QED BY <1>0, <3>3, <5>1, StepOfAttempt
      <4>2. a \notin Changed
        BY <1>0, <2>2, <2>8, <3>1, <4>1, StepOfAttempt
      <4> QED BY <2>1, <4>2
    <3> QED BY <3>2, <3>3
  <2>9. IF t.from = "NONE" THEN t.at = row'[a].createdAt ELSE t.at <= clock'
    BY <1>1, <2>3
  <2> QED BY <2>2, <2>3, <2>6, <2>7, <2>8, <2>9 DEF TransitionFits, AttemptsOf, Born
<1> QED BY <1>2, <1>3, <1>4

\* The status and the dates of an attempt that a step changes or leaves.
LEMMA StepColumns ==
  ASSUME ReadInv, ReadNext, NEW a \in Attempts, row'[a].status # "NONE"
  PROVE  /\ row'[a].status = "ACTIVE" => row'[a].activeAt
         /\ row'[a].activeAt => Pair(a) \in participants'
         /\ row'[a].createdAt > clock' =>
              \E b \in Attempts : /\ Pair(b) = Pair(a) /\ row'[b].status # "NONE"
                                  /\ row'[a].createdAt = row'[b].createdAt + 1
<1>0. /\ TypeOK /\ IInv /\ [Next]_vars /\ StepShape /\ row \in Table
      /\ participants \subseteq participants'
  BY StepHasShape DEF ReadInv, IInv, ReadNext, TypeOK, Table
<1>1. /\ clock \in Nat \ {NoDate} /\ clock' \in Nat /\ clock <= clock'
      /\ \A b \in Attempts : row[b].createdAt \in Nat
  BY <1>0, ClockRuns, RowColumns DEF TypeOK
<1>2. row'[a].status = "ACTIVE" => Pair(a) \in participants'
  BY DEF ReadNext
<1>3. \A b \in Attempts : Born(b) => row'[b].status # "NONE" /\ row'[b].createdAt = row[b].createdAt
  BY <1>0, StepOfAttempt
<1>4. CASE Born(a)
  <2>1. /\ row[a].status = "ACTIVE" => row[a].activeAt
        /\ row[a].activeAt => Pair(a) \in participants
        /\ row[a].createdAt > clock =>
             \E b \in Attempts : /\ Pair(b) = Pair(a) /\ Born(b)
                                 /\ row[a].createdAt = row[b].createdAt + 1
    BY <1>4 DEF ReadInv, AttemptFits, AttemptsOf, Born
  <2>2. Keeps(a) \/ Promotes(a) \/ Leaves(a) \/ Restores(a)
    BY <1>0, <1>4, StepOfAttempt DEF Submits, Born
  <2>3. row'[a].status = "ACTIVE" => row'[a].activeAt
    BY <2>1, <2>2 DEF Keeps, SameColumns, Promotes, Leaves, Restores
  <2>4. row'[a].activeAt => Pair(a) \in participants'
    <3>1. row'[a].activeAt => row[a].activeAt \/ row'[a].status = "ACTIVE"
      BY <2>2 DEF Keeps, SameColumns, Promotes, Leaves, Restores
    <3> QED BY <1>0, <1>2, <2>1, <3>1
  <2>5. ASSUME row'[a].createdAt > clock'
        PROVE  \E b \in Attempts : /\ Pair(b) = Pair(a) /\ row'[b].status # "NONE"
                                   /\ row'[a].createdAt = row'[b].createdAt + 1
    <3>1. row[a].createdAt > clock
      BY <1>1, <1>3, <1>4, <2>5
    <3>2. PICK b \in Attempts : /\ Pair(b) = Pair(a) /\ Born(b)
                                /\ row[a].createdAt = row[b].createdAt + 1
      BY <2>1, <3>1
    <3> QED BY <1>3, <1>4, <3>2
  <2> QED BY <2>3, <2>4, <2>5
<1>5. CASE ~ Born(a)
  <2>1. Submits(a)
    <3>1. ~ Keeps(a)
      BY <1>5 DEF Keeps, SameColumns, Born
    <3> QED BY <1>0, <1>5, <3>1, StepOfAttempt
  <2>2. row'[a].activeAt = (row'[a].status = "ACTIVE") /\ row'[a].createdAt = SubmissionDate(a)
    BY <2>1 DEF Submits
  <2>3. ASSUME row'[a].createdAt > clock'
        PROVE  \E b \in Attempts : /\ Pair(b) = Pair(a) /\ row'[b].status # "NONE"
                                   /\ row'[a].createdAt = row'[b].createdAt + 1
    <3>1. SubmissionDate(a) # clock
      BY <1>1, <2>2, <2>3
    <3>2. PICK b \in Attempts : /\ Pair(b) = Pair(a) /\ row[b].status # "NONE"
                                /\ SubmissionDate(a) = row[b].createdAt + 1
      BY <1>0, <1>1, <3>1, SubmissionDateIsLatest
    <3> QED BY <1>3, <2>2, <3>2 DEF Born
  <2> QED BY <1>2, <2>2, <2>3
<1> QED BY <1>4, <1>5

\* The history accounts for every attempt after a step.
LEMMA StepHistoryFits ==
  ASSUME ReadInv, ReadNext, NEW a \in Attempts, row'[a].status # "NONE"
  PROVE  AttemptFits(a)'
<1> DEFINE h == transitions \cup Appended
           t0 == Transition(a)
<1>0. /\ TypeOK /\ IInv /\ [Next]_vars /\ StepShape /\ row \in Table
  BY StepHasShape DEF ReadInv, IInv, ReadNext, TypeOK, Table
<1>1. /\ clock \in Nat \ {NoDate} /\ clock' \in Nat /\ clock <= clock'
      /\ \A b \in Attempts : row[b].createdAt \in Nat
  BY <1>0, ClockRuns, RowColumns DEF TypeOK
<1>2. /\ Dated(h)
      /\ LastOf(transitions', a) = LastOf(h, a)
      /\ (Of(transitions', a) = {}) <=> (Of(h, a) = {})
      /\ Of(h, a) = Of(transitions, a) \cup (IF a \in Changed THEN {t0} ELSE {})
  BY HistoryOfAttempt
<1>3. /\ TransitionsOf(a)' = Of(transitions', a) /\ LastTransitions(a)' = LastOf(transitions', a)
      /\ TransitionsOf(a) = Of(transitions, a) /\ LastTransitions(a) = LastOf(transitions, a)
  BY ReadersTransitions, ReadersTransitionsNext
<1>4. /\ t0.attempt = a /\ t0.from = row[a].status /\ t0.status = row'[a].status
      /\ t0.reason = row'[a].publicReason
      /\ t0.at = IF row[a].status = "NONE" THEN row'[a].createdAt ELSE clock
  BY DEF Transition
<1> HIDE DEF h, t0
<1>5. \A t \in Of(transitions, a) :
        /\ t.attempt = a /\ t.at \in Nat \ {NoDate}
        /\ IF t.from = "NONE" THEN t.at = row[a].createdAt ELSE t.at <= clock
  BY DEF ReadInv, TransitionFits, Of
<1>6. \A t \in LastOf(h, a) : t \in Of(h, a) /\ \A u \in Of(h, a) : u.at <= t.at
  BY DEF LastOf
<1>7. \A b \in Attempts : Born(b) => row'[b].status # "NONE" /\ row'[b].createdAt = row[b].createdAt
  BY <1>0, StepOfAttempt
<1>8. \A t : t \in LastOf(h, a) /\ t.status = row'[a].status
             /\ (t.status = "REJECTED" => t.reason = row'[a].publicReason) => Consistent(t)'
  BY <1>2 DEF Consistent, LastOf, Of
<1>9. (\E t \in LastOf(h, a) : t.from = "NONE")
      /\ (\E b \in Attempts : Pair(b) = Pair(a) /\ Born(b) /\ row[a].createdAt = row[b].createdAt + 1)
      /\ Born(a) => DatedAhead(a)'
  BY <1>2, <1>3, <1>7 DEF DatedAhead, AttemptsOf, Born
\* Only the last part of AttemptFits is about the history.
<1>10. SUFFICES /\ Of(h, a) = {} => row'[a].activeAt /\ row'[a].createdAt <= clock'
                /\ Of(h, a) # {} =>
                     /\ row'[a].status = "REJECTED" => row'[a].publicReason # "NONE"
                     /\ \A t \in LastOf(h, a) : row'[a].createdAt <= t.at
                     /\ DatedAhead(a)' \/ \E t \in LastOf(h, a) : Consistent(t)'
  <2>1. /\ row'[a].status = "ACTIVE" => row'[a].activeAt
        /\ row'[a].activeAt => Pair(a) \in participants'
        /\ row'[a].createdAt > clock' =>
             \E b \in AttemptsOf(Pair(a))' : row'[a].createdAt = row'[b].createdAt + 1
    BY StepColumns DEF AttemptsOf
  <2> QED BY <1>2, <1>3, <2>1 DEF AttemptFits
<1>11. CASE Keeps(a) /\ a \notin Changed
  <2>1. Of(h, a) = Of(transitions, a) /\ LastOf(h, a) = LastOf(transitions, a)
    BY <1>2, <1>11 DEF LastOf
  <2>2. /\ row'[a].status = row[a].status /\ row'[a].publicReason = row[a].publicReason
        /\ row'[a].activeAt = row[a].activeAt /\ row'[a].createdAt = row[a].createdAt
    BY <1>11 DEF Keeps, SameColumns
  <2>3. Born(a)
    BY <2>2 DEF Born
  <2>4. AttemptFits(a)
    BY <2>3 DEF ReadInv
  <2>5. ASSUME Of(h, a) = {} PROVE row'[a].activeAt /\ row'[a].createdAt <= clock'
    BY <1>1, <1>3, <2>1, <2>2, <2>4, <2>5 DEF AttemptFits
  <2>6. ASSUME Of(h, a) # {}
        PROVE  /\ row'[a].status = "REJECTED" => row'[a].publicReason # "NONE"
               /\ \A t \in LastOf(h, a) : row'[a].createdAt <= t.at
               /\ DatedAhead(a)' \/ \E t \in LastOf(h, a) : Consistent(t)'
    <3>1. /\ row[a].status = "REJECTED" => row[a].publicReason # "NONE"
          /\ \A t \in LastOf(h, a) : row[a].createdAt <= t.at
          /\ DatedAhead(a) \/ \E t \in LastOf(h, a) : Consistent(t)
      BY <1>3, <2>1, <2>4, <2>6 DEF AttemptFits
    <3>2. CASE DatedAhead(a)
      <4>1. /\ \E t \in LastOf(h, a) : t.from = "NONE"
            /\ \E b \in Attempts : Pair(b) = Pair(a) /\ Born(b) /\ row[a].createdAt = row[b].createdAt + 1
        BY <1>3, <2>1, <3>2 DEF DatedAhead, AttemptsOf, Born
      <4> QED BY <1>9, <2>2, <2>3, <3>1, <4>1
    <3>3. CASE \E t \in LastOf(h, a) : Consistent(t)
      <4>1. PICK t \in LastOf(h, a) : Consistent(t)
        BY <3>3
      <4>2. t.attempt = a
        BY DEF LastOf, Of
      <4>3. t.status = row'[a].status /\ (t.status = "REJECTED" => t.reason = row'[a].publicReason)
        BY <2>2, <4>1, <4>2 DEF Consistent
      <4> QED BY <1>8, <2>2, <3>1, <4>3
    <3> QED BY <3>1, <3>2, <3>3
  <2> QED BY <2>5, <2>6
<1>12. CASE a \in Changed
  <2>1. t0 \in Of(h, a)
    BY <1>2, <1>12
  <2>2. LastOf(h, a) # {}
    BY <1>2, <2>1, SomethingIsLast
  <2>3. row'[a].status = "REJECTED" => row'[a].publicReason # "NONE"
    BY <1>0, <1>12, StepOfAttempt DEF Promotes, Leaves, Restores, Submits, Live, LiveStatus
  <2>4. CASE ~ Born(a)
    <3>1. Of(h, a) = {t0}
      BY <1>2, <1>12, <2>4, UnbornHasNone
    <3>2. LastOf(h, a) = {t0}
      BY <2>2, <3>1 DEF LastOf
    <3>3. t0.at = row'[a].createdAt /\ row'[a].createdAt \in Nat
      <4>1. TypeOK'
        BY <1>0, StepType
      <4>2. row'[a].createdAt \in Nat
        BY <4>1, RowColumns DEF TypeOK
      <4> QED BY <1>4, <2>4, <4>2 DEF Born
    <3> QED BY <1>4, <1>8, <2>1, <2>3, <3>2, <3>3
  <2>5. CASE Born(a)
    <3>1. row'[a].createdAt = row[a].createdAt /\ t0.at = clock
      BY <1>4, <1>7, <2>5 DEF Born
    <3>2. AttemptFits(a)
      BY <2>5 DEF ReadInv
    <3>3. \A t \in Of(h, a) : t \in Of(transitions, a) \/ t = t0
      BY <1>2
    <3>4. ASSUME NEW t \in LastOf(h, a) PROVE row'[a].createdAt <= t.at
      <4>1. t \in Of(h, a) /\ t.at \in Nat /\ \A u \in Of(h, a) : u.at <= t.at
        BY <1>1, <1>5, <1>6, <3>1, <3>3
      <4>2. CASE Of(transitions, a) = {}
        <5>1. row[a].createdAt <= clock
          BY <1>3, <3>2, <4>2 DEF AttemptFits
        <5> QED BY <1>1, <2>1, <3>1, <4>1, <5>1
      <4>3. CASE Of(transitions, a) # {}
        <5>1. Dated(transitions)
          BY DEF ReadInv, TransitionFits, Dated
        <5>2. PICK u \in LastOf(transitions, a) : TRUE
          BY <4>3, <5>1, SomethingIsLast
        <5>3. row[a].createdAt <= u.at /\ u \in Of(transitions, a) /\ u.at \in Nat
          BY <1>3, <1>5, <3>2, <4>3, <5>2 DEF AttemptFits, LastOf
        <5>4. u.at <= t.at
          BY <1>2, <4>1, <5>3
        <5> QED BY <1>1, <3>1, <4>1, <5>3, <5>4
      <4> QED BY <4>2, <4>3
    <3>5. DatedAhead(a)' \/ \E t \in LastOf(h, a) : Consistent(t)'
      <4>1. CASE \A u \in Of(transitions, a) : u.at <= clock
        <5>1. t0 \in LastOf(h, a)
          BY <1>1, <2>1, <3>1, <3>3, <4>1 DEF LastOf
        <5> QED BY <1>4, <1>8, <5>1
      <4>2. CASE \E u \in Of(transitions, a) : ~ (u.at <= clock)
        <5>1. PICK u \in Of(transitions, a) : ~ (u.at <= clock)
          BY <4>2
        <5>2. u.from = "NONE" /\ u.at = row[a].createdAt /\ u.at \in Nat
          BY <1>5, <5>1
        <5>3. row[a].createdAt > clock
          BY <1>1, <5>1, <5>2
        <5>4. \E b \in Attempts : Pair(b) = Pair(a) /\ Born(b) /\ row[a].createdAt = row[b].createdAt + 1
          BY <3>2, <5>3 DEF AttemptFits, AttemptsOf, Born
        <5>5. PICK t \in LastOf(h, a) : TRUE
          BY <2>2
        <5>6. t \in Of(h, a) /\ u.at <= t.at
          BY <1>2, <1>6, <5>5
        <5>7. t \in Of(transitions, a)
          BY <1>1, <3>1, <3>3, <5>1, <5>2, <5>6
        <5>8. t.from = "NONE"
          BY <1>1, <1>5, <5>1, <5>2, <5>6, <5>7
        <5> QED BY <1>9, <2>5, <5>4, <5>5, <5>8
      <4> QED BY <4>1, <4>2
    <3> QED BY <2>1, <2>3, <3>4, <3>5
  <2> QED BY <2>4, <2>5
<1> QED BY <1>0, <1>11, <1>12, StepOfAttempt

\* Whoever has taken part still did after a step.
LEMMA StepParticipants ==
  ASSUME ReadInv, ReadNext, NEW pair \in participants'
  PROVE  PairFits(pair)'
<1>0. /\ TypeOK /\ IInv /\ [Next]_vars /\ StepShape
      /\ transitions' = Telling(transitions \cup Appended)
  BY StepHasShape DEF ReadInv, IInv, ReadNext
<1>a. ASSUME NEW t \in transitions \cup Appended, t.status = "ACTIVE", Pair(t.attempt) = pair,
             Dated(transitions \cup Appended)
      PROVE  PairFits(pair)'
  <2>1. PICK u \in Telling(transitions \cup Appended) : u.status = "ACTIVE" /\ Pair(u.attempt) = Pair(t.attempt)
    BY <1>a, TellingTells
  <2> QED BY <1>0, <1>a, <2>1 DEF PairFits
<1>b. ASSUME NEW b \in Attempts, Pair(b) = pair, Born(b), pair \in participants
      PROVE  PairFits(pair)'
  <2>1. Dated(transitions \cup Appended)
    BY HistoryOfAttempt
  <2>2. CASE \E t \in transitions : Pair(t.attempt) = pair /\ t.status = "ACTIVE"
    BY <1>a, <2>1, <2>2
  <2>3. CASE \E c \in AttemptsOf(pair) : c \in Legacy /\ (row[c].activeAt \/ row[c].event = "RESTORED")
    <3>1. PICK c \in Attempts : /\ Pair(c) = pair /\ Born(c) /\ c \in Legacy
                                /\ row[c].activeAt \/ row[c].event = "RESTORED"
      BY <2>3 DEF AttemptsOf, Born
    <3>2. row[c].status = "ACTIVE" => row[c].activeAt
      BY <3>1 DEF ReadInv, AttemptFits
    <3>3. row'[c].status # "NONE"
      BY <1>0, <3>1, StepOfAttempt
    <3>4. Keeps(c) \/ Promotes(c) \/ Leaves(c) \/ Restores(c)
      BY <1>0, <3>1, StepOfAttempt DEF Submits, Born
    <3>5. row'[c].activeAt \/ row'[c].event = "RESTORED"
      BY <3>1, <3>2, <3>4 DEF Keeps, SameColumns, Promotes, Leaves, Restores
    <3> QED BY <3>1, <3>3, <3>5 DEF PairFits, AttemptsOf
  <2> QED BY <1>b, <2>2, <2>3 DEF ReadInv, PairFits
<1>1. CASE pair \in participants
  <2>1. \E b \in Attempts : Pair(b) = pair /\ Born(b)
    BY <1>1 DEF ReadInv, PairFits, TransitionFits, AttemptsOf, Born
  <2> QED BY <1>1, <1>b, <2>1
<1>2. CASE pair \notin participants
  <2>1. PICK b \in Attempts : row'[b].status = "ACTIVE" /\ Pair(b) = pair
    BY <1>2 DEF ReadNext
  <2>2. row[b].status # "ACTIVE"
    BY <1>2, <2>1 DEF ReadInv, AttemptFits, Born
  <2>3. b \in Changed
    BY <2>1, <2>2 DEF Changed
  <2>4. Transition(b) \in Appended /\ Transition(b).status = "ACTIVE" /\ Transition(b).attempt = b
    BY <2>1, <2>3 DEF Transition, Appended
  <2>5. Dated(transitions \cup Appended)
    BY HistoryOfAttempt
  <2> QED BY <1>a, <2>1, <2>4, <2>5
<1> QED BY <1>1, <1>2

\* The invariant of the history is inductive.
LEMMA StepReadInv == ReadInv /\ [ReadNext]_readVars => ReadInv'
<1> SUFFICES ASSUME ReadInv, [ReadNext]_readVars PROVE ReadInv'
  OBVIOUS
<1>1. CASE ReadNext
  <2>1. IInv'
    BY <1>1, StepInv DEF ReadNext, ReadInv
  <2>2. IsFiniteSet(transitions')
    <3>1. CASE Attempts # {}
      <4>1. Dated(transitions \cup Appended)
        BY <1>1, <3>1, HistoryOfAttempt
      <4>2. transitions' \in SUBSET (transitions \cup Appended)
        BY <1>1, <4>1, TellingTells DEF ReadNext
      <4> QED BY <4>1, <4>2, FS_Subset DEF Dated
    <3>2. CASE Attempts = {}
      <4>1. transitions \cup Appended = {}
        BY <3>2 DEF ReadInv, TransitionFits, Appended, Changed
      <4>2. transitions' = {}
        BY <1>1, <4>1 DEF ReadNext, Telling
      <4> QED BY <4>2, FS_EmptySet
    <3> QED BY <3>1, <3>2
  <2>3. \A t \in transitions' : TransitionFits(t)'
    BY <1>1, StepTransitions
  <2>4. \A a \in Attempts : row'[a].status # "NONE" => AttemptFits(a)'
    BY <1>1, StepHistoryFits
  <2>5. \A pair \in participants' : PairFits(pair)'
    BY <1>1, StepParticipants
  <2> QED BY <2>1, <2>2, <2>3, <2>4, <2>5 DEF ReadInv, Born
<1>2. CASE UNCHANGED readVars
  <2>1. IInv'
    <3>1. [Next]_vars
      BY <1>2 DEF readVars
    <3> QED BY <3>1, StepInv DEF ReadInv
  <2>2. /\ row' = row /\ clock' = clock /\ transitions' = transitions /\ participants' = participants
    BY <1>2 DEF readVars, vars
  <2>3. \A t \in transitions : TransitionFits(t)'
    BY <2>2 DEF ReadInv, TransitionFits, AttemptsOf, Born
  <2>4. \A a : TransitionsOf(a)' = TransitionsOf(a) /\ LastTransitions(a)' = LastTransitions(a)
    BY <2>2, ReadersTransitions, ReadersTransitionsNext
  <2>5. \A a : (DatedAhead(a)' <=> DatedAhead(a)) /\ (Consistent(a)' <=> Consistent(a))
    BY <2>2, <2>4 DEF DatedAhead, Consistent, AttemptsOf
  <2>6. ASSUME NEW a \in Attempts, Born(a) PROVE AttemptFits(a)'
    <3>1. AttemptFits(a)
      BY <2>6 DEF ReadInv
    <3> QED BY <2>2, <2>4, <2>5, <3>1 DEF AttemptFits, AttemptsOf
  <2>7. \A pair \in participants : PairFits(pair)'
    BY <2>2 DEF ReadInv, PairFits, AttemptsOf
  <2> QED BY <2>1, <2>2, <2>3, <2>6, <2>7 DEF ReadInv, Born
<1> QED BY <1>1, <1>2

\* At first there is no history, and at most one row from before it.
LEMMA InitReadInv == ReadInit => ReadInv
<1> SUFFICES ASSUME ReadInit PROVE ReadInv
  OBVIOUS
<1>1. /\ IInv /\ clock = 1 /\ transitions = {}
      /\ participants = {Pair(a) : a \in {b \in Attempts : row[b].activeAt}}
  BY InitInv DEF ReadInit, Init
<1>2. ASSUME NEW a \in Attempts
      PROVE  \/ row[a].status = "NONE" /\ row[a].activeAt = FALSE
             \/ a \in Legacy /\ row[a].status = "REJECTED" /\ row[a].activeAt /\ row[a].createdAt = 1
  <2>1. CASE row = [b \in Attempts |-> Unborn]
    BY <2>1 DEF Unborn
  <2>2. ASSUME NEW c \in Legacy, NEW reason, NEW date,
               row = [[b \in Attempts |-> Unborn] EXCEPT ![c] = LegacyRow(reason, date)]
        PROVE  \/ row[a].status = "NONE" /\ row[a].activeAt = FALSE
               \/ a \in Legacy /\ row[a].status = "REJECTED" /\ row[a].activeAt /\ row[a].createdAt = 1
    <3>1. /\ LegacyRow(reason, date).status = "REJECTED" /\ LegacyRow(reason, date).activeAt
          /\ LegacyRow(reason, date).createdAt = 1
      BY DEF LegacyRow
    <3>2. CASE a = c
      BY <2>2, <3>1, <3>2
    <3>3. CASE a # c
      BY <2>2, <3>3 DEF Unborn
    <3> QED BY <3>2, <3>3
  <2>3. \/ row = [b \in Attempts |-> Unborn]
        \/ \E c \in Legacy, reason \in {"NONE", "NOT_SELECTED"}, date \in {NoDate, 1} :
             row = [[b \in Attempts |-> Unborn] EXCEPT ![c] = LegacyRow(reason, date)]
    BY DEF ReadInit, Init
  <2>4. CASE \E c \in Legacy, reason \in {"NONE", "NOT_SELECTED"}, date \in {NoDate, 1} :
               row = [[b \in Attempts |-> Unborn] EXCEPT ![c] = LegacyRow(reason, date)]
    BY <2>2, <2>4
  <2> QED BY <2>1, <2>3, <2>4
<1>3. IsFiniteSet(transitions) /\ \A t \in transitions : TransitionFits(t)
  BY <1>1, FS_EmptySet
<1>4. ASSUME NEW a \in Attempts, Born(a) PROVE AttemptFits(a)
  <2>1. /\ a \in Legacy /\ row[a].status = "REJECTED" /\ row[a].activeAt /\ row[a].createdAt = 1
    BY <1>2, <1>4 DEF Born
  <2>2. TransitionsOf(a) = {} /\ Pair(a) \in participants
    BY <1>1, <2>1 DEF TransitionsOf
  <2> QED BY <1>1, <2>1, <2>2 DEF AttemptFits
<1>5. ASSUME NEW pair \in participants PROVE PairFits(pair)
  <2>1. PICK a \in Attempts : row[a].activeAt /\ pair = Pair(a)
    BY <1>1, <1>5
  <2> QED BY <1>2, <2>1 DEF PairFits, AttemptsOf
<1> QED BY <1>1, <1>3, <1>4, <1>5 DEF ReadInv

\* The history keeps fitting the rows.
LEMMA ReadInvHolds == ReadSpec => []ReadInv
<1> QED BY InitReadInv, StepReadInv, PTL DEF ReadSpec

\* The transitions are a finite set, so that at most one last means just one.
LEMMA LastTransition ==
  ASSUME ReadInv, NEW a, TransitionsOf(a) # {}
  PROVE  /\ LastTransitions(a) # {}
         /\ ~ (Cardinality(LastTransitions(a)) > 1) =>
              \A t, u \in LastTransitions(a) : t = u
<1>1. Dated(transitions)
  BY DEF ReadInv, TransitionFits, Dated
<1>2. LastTransitions(a) # {}
  BY <1>1, SomethingIsLast, ReadersTransitions
<1>3. ASSUME NEW t \in LastTransitions(a), NEW u \in LastTransitions(a), t # u
      PROVE  Cardinality(LastTransitions(a)) > 1
  <2>1. {t, u} \in SUBSET LastTransitions(a) /\ LastTransitions(a) \in SUBSET transitions
    BY DEF LastTransitions, TransitionsOf
  <2>2. IsFiniteSet(LastTransitions(a))
    BY <2>1, FS_Subset DEF ReadInv
  <2>3. Cardinality({t, u}) = 2
    <3>1. Cardinality({t}) = 1 /\ IsFiniteSet({t})
      BY FS_Singleton
    <3>2. Cardinality({t} \cup {u}) = Cardinality({t}) + 1
      BY <1>3, <3>1, FS_AddElement
    <3>3. {t, u} = {t} \cup {u}
      OBVIOUS
    <3> QED BY <3>1, <3>2, <3>3
  <2>4. 2 <= Cardinality(LastTransitions(a)) /\ Cardinality(LastTransitions(a)) \in Nat
    BY <2>1, <2>2, <2>3, FS_Subset, FS_CardinalityType
  <2> QED BY <2>4
<1> QED BY <1>2, <1>3

\* Whoever took part and left is a recent exit, if the history can be relied on.
LEMMA LeaversAreExits ==
  ASSUME ReadInv, NEW pair \in participants, AttemptsOf(pair) # {},
         row[Latest(pair)].status \in {"REJECTED", "WITHDRAWN"}, ~ Unreliable(Latest(pair))
  PROVE  Latest(pair) \in RecentExits
<1> DEFINE a == Latest(pair)
<1>1. /\ a \in AttemptsOf(pair)
      /\ \A b \in AttemptsOf(pair) \ {a} :
           /\ row[b].createdAt < row[a].createdAt
           /\ row[b].status \notin LiveStatus \cup {"ACCEPTED"}
  BY LatestStands DEF ReadInv
<1>2. a \in Attempts /\ Pair(a) = pair /\ Born(a) /\ row[a].status \in {"REJECTED", "WITHDRAWN"}
  BY <1>1 DEF AttemptsOf, Born
<1>3. ~ Unreliable(a)
  OBVIOUS
<1>a. a = Latest(pair)
  OBVIOUS
<1> HIDE DEF a
<1>4. AttemptFits(a)
  BY <1>2 DEF ReadInv
<1>5. \A b \in AttemptsOf(pair) : ~ Live(row[b])
  BY <1>1, <1>2 DEF Live, LiveStatus
<1>6. \A t \in LastTransitions(a) : Consistent(t)
  <2>1. CASE TransitionsOf(a) = {}
    BY <2>1 DEF LastTransitions
  <2>2. CASE TransitionsOf(a) # {}
    <3>1. \E t \in LastTransitions(a) : Consistent(t)
      BY <1>3, <1>4, <2>2 DEF AttemptFits, Unreliable
    <3>2. \A t, u \in LastTransitions(a) : t = u
      BY <1>3, <2>2, LastTransition DEF Unreliable
    <3> QED BY <3>1, <3>2
  <2> QED BY <2>1, <2>2
<1>7. row[a].status = "REJECTED" => row[a].publicReason # "NONE"
  BY <1>3, <1>4 DEF AttemptFits, Unreliable
<1>8. TransitionsOf(a) # {} =>
        \E t \in LastTransitions(a) : ExitedAt(a) = t.at
  BY LastTransition DEF ExitedAt
<1>9. \A t \in transitions : t.at \in Nat \ {NoDate}
  BY DEF ReadInv, TransitionFits
<1>10. LastTransitions(a) \in SUBSET TransitionsOf(a) /\ TransitionsOf(a) \in SUBSET transitions
  BY DEF LastTransitions, TransitionsOf
<1>11. ExitedAt(a) # NoDate
  <2>1. CASE TransitionsOf(a) = {}
    BY <1>3, <2>1 DEF ExitedAt, Unreliable
  <2>2. CASE TransitionsOf(a) # {}
    BY <1>8, <1>9, <1>10, <2>2
  <2> QED BY <2>1, <2>2
<1>12. TookPart(pair, ExitedAt(a))
  <2>1. CASE \E t \in transitions : Pair(t.attempt) = pair /\ t.status = "ACTIVE"
    <3>1. PICK t \in transitions : Pair(t.attempt) = pair /\ t.status = "ACTIVE"
      BY <2>1
    <3>2. CASE TransitionsOf(a) = {}
      BY <1>1, <1>4, <3>2 DEF TookPart, AttemptFits
    <3>3. CASE TransitionsOf(a) # {}
      <4>1. PICK u \in LastTransitions(a) : ExitedAt(a) = u.at
        BY <1>8, <3>3
      <4>2. row[a].createdAt <= u.at /\ u.at \in Nat
        BY <1>4, <1>9, <1>10, <3>3 DEF AttemptFits
      <4>3. t.at <= u.at
        <5>1. CASE t.attempt = a
          BY <3>1, <5>1 DEF LastTransitions, TransitionsOf
        <5>2. CASE t.attempt # a
          <6>1. /\ t.attempt \in Attempts /\ Born(t.attempt)
                /\ \A b \in AttemptsOf(Pair(t.attempt)) :
                     row[t.attempt].createdAt < row[b].createdAt => t.at <= row[b].createdAt
            BY DEF ReadInv, TransitionFits
          <6>2. t.attempt \in AttemptsOf(pair)
            BY <3>1, <6>1 DEF AttemptsOf, Born
          <6>3. t.at <= row[a].createdAt
            BY <1>1, <3>1, <5>2, <6>1, <6>2
          <6>4. row[a].createdAt \in Nat /\ t.at \in Nat
            BY <1>2, <1>9, RowColumns DEF ReadInv, IInv, TypeOK
          <6> QED BY <4>2, <6>3, <6>4
        <5> QED BY <5>1, <5>2
      <4> QED BY <3>1, <4>1, <4>3 DEF TookPart
    <3> QED BY <3>2, <3>3
  <2>2. CASE \E b \in AttemptsOf(pair) : b \in Legacy /\ (row[b].activeAt \/ row[b].event = "RESTORED")
    <3>1. PICK b \in AttemptsOf(pair) : b \in Legacy /\ (row[b].activeAt \/ row[b].event = "RESTORED")
      BY <2>2
    <3>2. row[b].activeAt
      <4>1. row[b].activeAt \in BOOLEAN
        BY RowColumns DEF ReadInv, IInv, TypeOK, AttemptsOf
      <4> QED BY <1>2, <1>3, <3>1, <4>1 DEF Unreliable
    <3> QED BY <3>2 DEF TookPart
  <2> QED BY <2>1, <2>2 DEF ReadInv, PairFits
<1>13. ExitOf(Pair(a), a)
  BY <1>1, <1>2, <1>5, <1>6, <1>7, <1>11, <1>12, <1>a DEF ExitOf
<1> QED BY <1>2, <1>13, <1>a DEF RecentExits

\* Everybody who took part is on one of the lists.
LEMMA EverybodyIsShown == ReadInv => ParticipantsAreAccountedFor
<1> SUFFICES ASSUME ReadInv, NEW pair \in participants
             PROVE  LET a == Latest(pair)
                        cards == {x \in ActiveCards(pair[2]) : Pair(x) = pair}
                        exits == {x \in RecentExits : Pair(x) = pair}
                    IN  IF row[a].status \in {"REJECTED", "WITHDRAWN"}
                        THEN cards = {} /\ exits \subseteq {a} /\ (~Unreliable(a) => exits = {a})
                        ELSE exits = {} /\ cards = {x \in {a} : row[x].status = "ACTIVE"}
  BY DEF ParticipantsAreAccountedFor
<1> DEFINE a == Latest(pair)
           cards == {x \in ActiveCards(pair[2]) : Pair(x) = pair}
           exits == {x \in RecentExits : Pair(x) = pair}
<1>1. AttemptsOf(pair) # {}
  BY DEF ReadInv, PairFits, TransitionFits, AttemptsOf, Born
<1>2. /\ a \in AttemptsOf(pair)
      /\ \A b \in AttemptsOf(pair) \ {a} : row[b].status \notin LiveStatus \cup {"ACCEPTED"}
  BY <1>1, LatestStands DEF ReadInv
<1>3. a \in Attempts /\ Pair(a) = pair
  BY <1>2 DEF AttemptsOf
<1>4. \A x : x \in cards => x \in AttemptsOf(pair) /\ row[x].status = "ACTIVE"
  BY DEF ActiveCards, WithStatus, AttemptsOf
<1>5. \A x : x \in exits => x = a /\ row[x].status \in {"REJECTED", "WITHDRAWN"}
  BY DEF RecentExits, ExitOf
<1>6. row[a].status = "ACTIVE" => a \in cards
  <2>1. ListingOf[a] = pair[2]
    BY <1>3 DEF Pair
  <2> QED BY <1>3, <2>1 DEF ActiveCards, WithStatus
<1>7. row[a].status \in {"REJECTED", "WITHDRAWN"} /\ ~Unreliable(a) => a \in exits
  BY <1>1, <1>3, LeaversAreExits
<1> HIDE DEF a, cards, exits
<1>8. \A x \in cards : x = a
  BY <1>2, <1>4 DEF LiveStatus
<1>9. CASE row[a].status \in {"REJECTED", "WITHDRAWN"}
  <2>1. cards = {}
    BY <1>4, <1>8, <1>9
  <2> QED BY <1>5, <1>7, <1>9, <2>1 DEF a, cards, exits
<1>10. CASE row[a].status \notin {"REJECTED", "WITHDRAWN"}
  <2>1. exits = {} /\ cards = {x \in {a} : row[x].status = "ACTIVE"}
    BY <1>4, <1>5, <1>6, <1>8, <1>10
  <2> QED BY <1>10, <2>1 DEF a, cards, exits
<1> QED BY <1>9, <1>10

\* Nobody who only waited is on any.
LEMMA NobodyElseIsShown == ReadInv => OnlyParticipantsAreIdentified
<1> SUFFICES ASSUME ReadInv PROVE OnlyParticipantsAreIdentified
  OBVIOUS
<1>1. ASSUME NEW a \in Attempts, row[a].status # "NONE", row[a].activeAt PROVE Pair(a) \in participants
  BY <1>1 DEF ReadInv, AttemptFits, Born
<1>2. ASSUME NEW l \in Listings, NEW a \in VisibleToProvider(l)
      PROVE  Pair(a) \in participants /\ row[a].status # "WAITING"
  <2>1. /\ a \in Attempts /\ row[a].status \notin {"NONE", "WAITING"}
        /\ row[a].status = "ACTIVE" \/ row[a].activeAt
    BY <1>2 DEF VisibleToProvider, ProviderVisible
  <2>2. row[a].status = "ACTIVE" => row[a].activeAt
    BY <2>1 DEF ReadInv, AttemptFits, Born
  <2> QED BY <1>1, <2>1, <2>2
<1>3. ASSUME NEW a \in RecentExits
      PROVE  /\ Pair(a) \in participants
             /\ \A b \in AttemptsOf(Pair(a)) : row[b].status # "WAITING"
  <2>1. ExitOf(Pair(a), a)
    BY <1>3 DEF RecentExits
  <2>2. \A b \in AttemptsOf(Pair(a)) : row[b].status # "WAITING"
    BY <2>1 DEF ExitOf, Live, LiveStatus
  <2>3. CASE \E b \in AttemptsOf(Pair(a)) : row[b].activeAt
    BY <1>1, <2>2, <2>3 DEF AttemptsOf
  <2>4. CASE \E t \in transitions : Pair(t.attempt) = Pair(a) /\ t.status = "ACTIVE"
    <3>1. Pair(a) \in participants
      BY <2>4 DEF ReadInv, TransitionFits
    <3> QED BY <2>2, <3>1
  <2> QED BY <2>1, <2>3, <2>4 DEF ExitOf, TookPart
<1> QED BY <1>2, <1>3 DEF OnlyParticipantsAreIdentified

\* The provider's cards, recent exits and lists together show everybody who was ever ACTIVE at a
\* listing, once, and identify nobody else, for any history of attempts, restorations and clocks
\* (ProviderRecentExitsQueryService.select and providerApplicationVisibility).
THEOREM ParticipantsShown == ReadSpec => []ParticipantsAreShown
<1>1. ReadInv => ParticipantsAreShown
  BY EverybodyIsShown, NobodyElseIsShown DEF ParticipantsAreShown
<1> QED BY <1>1, ReadInvHolds, PTL

-----------------------------------------------------------------------------
(***************************************************************************)
(* The queue of one listing: the lifecycle implements AdmissionQueue.      *)
(***************************************************************************)
\* The abstract queue counts as its implementation does.
LEMMA QueueCounts ==
  ASSUME NEW l
  PROVE  \A S : Queue(l)!Cardinality(S) = Cardinality(S)
BY Zenon DEF Queue!Cardinality, Cardinality

\* Serving the abstract queue gives the slots to those whom Reconcile promotes.
LEMMA ServedArePromoted ==
  ASSUME NEW rw, NEW prof, NEW l \in Listings
  PROVE  /\ Queue(l)!Served(WithStatus(rw, l, "ACTIVE"), Line(rw, l), EligibleAt(prof, criteria, l))
              = Promoted(rw, prof, l)
         /\ Promoted(rw, prof, l) \subseteq WithStatus(rw, l, "WAITING")
<1> DEFINE waiting == WithStatus(rw, l, "WAITING")
           elig == EligibleAt(prof, criteria, l)
<1>1. waiting \cap elig = EligibleWaiting(rw, prof, l)
  BY DEF EligibleAt, AttemptsAt, EligibleWaiting, WithStatus
<1>2. ASSUME NEW c \in waiting
      PROVE  Line(rw, l)[c] \cap elig = Ahead(rw, prof, c)
  <2>1. ListingOf[c] = l
    BY DEF WithStatus
  <2>2. Line(rw, l)[c] = {v \in waiting : rw[v].queueOrder < rw[c].queueOrder}
    BY DEF Line
  <2>3. Ahead(rw, prof, c) = {v \in EligibleWaiting(rw, prof, l) : rw[v].queueOrder < rw[c].queueOrder}
    BY <2>1 DEF Ahead
  <2> HIDE DEF waiting, elig
  <2> QED BY <1>1, <2>2, <2>3
<1>3. DOMAIN Line(rw, l) = waiting
  BY DEF Line
<1>4. Queue(l)!Served(WithStatus(rw, l, "ACTIVE"), Line(rw, l), elig) =
        {c \in waiting \cap elig : Cardinality(Line(rw, l)[c] \cap elig) < Slots(rw, l)}
  BY <1>3, QueueCounts DEF Queue!Served, Slots
<1>5. Promoted(rw, prof, l) = {c \in waiting \cap elig : Cardinality(Ahead(rw, prof, c)) < Slots(rw, l)}
  BY <1>1 DEF Promoted
<1>6. Promoted(rw, prof, l) \subseteq waiting
  BY <1>5
<1> HIDE DEF waiting, elig
<1>7. Queue(l)!Served(WithStatus(rw, l, "ACTIVE"), Line(rw, l), elig) = Promoted(rw, prof, l)
  BY <1>2, <1>4, <1>5
<1> QED BY <1>6, <1>7 DEF waiting, elig

\* Those who are left keep their order.
LEMMA LineWithout ==
  ASSUME NEW rw, NEW rx, NEW l \in Listings, NEW gone,
         WithStatus(rx, l, "WAITING") = WithStatus(rw, l, "WAITING") \ gone,
         \A a \in WithStatus(rx, l, "WAITING") : rx[a].queueOrder = rw[a].queueOrder
  PROVE  Line(rx, l) = Queue(l)!Without(Line(rw, l), gone)
<1> DEFINE V == WithStatus(rw, l, "WAITING")
           W == WithStatus(rx, l, "WAITING")
<1>1. W = V \ gone /\ \A a \in W : rx[a].queueOrder = rw[a].queueOrder
  OBVIOUS
<1>2. /\ Line(rx, l) = [w \in W |-> {v \in W : rx[v].queueOrder < rx[w].queueOrder}]
      /\ Line(rw, l) = [w \in V |-> {v \in V : rw[v].queueOrder < rw[w].queueOrder}]
  BY DEF Line
<1> HIDE DEF V, W
<1>3. Queue(l)!Without(Line(rw, l), gone) =
        [w \in V \ gone |-> {v \in V : rw[v].queueOrder < rw[w].queueOrder} \ gone]
  BY <1>2 DEF Queue!Without
<1>4. ASSUME NEW w \in W
      PROVE  {v \in W : rx[v].queueOrder < rx[w].queueOrder} =
               {v \in V : rw[v].queueOrder < rw[w].queueOrder} \ gone
  BY <1>1
<1> QED BY <1>1, <1>2, <1>3, <1>4

SameQueue(rx, rw, l) ==
  \A a \in AttemptsAt(l) : rx[a].status = rw[a].status /\ rx[a].queueOrder = rw[a].queueOrder

\* The slots and the line are a matter of statuses and orders.
LEMMA SameLine ==
  ASSUME NEW rw, NEW rx, NEW l, SameQueue(rx, rw, l)
  PROVE  /\ \A st : WithStatus(rx, l, st) = WithStatus(rw, l, st)
         /\ Line(rx, l) = Line(rw, l)
<1>1. \A st : WithStatus(rx, l, st) = WithStatus(rw, l, st)
  BY DEF SameQueue, WithStatus, AttemptsAt
<1>2. \A a \in WithStatus(rw, l, "WAITING") : rx[a].queueOrder = rw[a].queueOrder
  BY DEF SameQueue, WithStatus, AttemptsAt
<1> DEFINE W == WithStatus(rw, l, "WAITING")
<1>3. /\ Line(rx, l) = [w \in W |-> {v \in W : rx[v].queueOrder < rx[w].queueOrder}]
      /\ Line(rw, l) = [w \in W |-> {v \in W : rw[v].queueOrder < rw[w].queueOrder}]
  BY <1>1 DEF Line
<1> HIDE DEF W
<1>4. \A w \in W : {v \in W : rx[v].queueOrder < rx[w].queueOrder} = {v \in W : rw[v].queueOrder < rw[w].queueOrder}
  BY <1>2 DEF W
<1> QED BY <1>1, <1>3, <1>4

\* Reconciling serves the queues of the listings it is given, and no other.
LEMMA ReconcileServes ==
  ASSUME NEW rw \in Table, NEW prof \in ProfileType, NEW L, NEW l \in Listings,
         criteria \in [Listings -> Criteria]
  PROVE  LET rx == Reconcile(rw, prof, L)
             served == Queue(l)!Served(WithStatus(rw, l, "ACTIVE"), Line(rw, l), EligibleAt(prof, criteria, l))
         IN  /\ l \in L => /\ WithStatus(rx, l, "ACTIVE") = WithStatus(rw, l, "ACTIVE") \cup served
                           /\ Line(rx, l) = Queue(l)!Without(Line(rw, l), served)
             /\ l \notin L => SameQueue(rx, rw, l)
<1> DEFINE rx == Reconcile(rw, prof, L)
           P == Promoted(rw, prof, l)
<1>1. rx \in Table /\ \A a \in Attempts :
        /\ rx[a].queueOrder = rw[a].queueOrder
        /\ ListingOf[a] = l =>
             \/ rx[a] = rw[a] /\ ~(l \in L /\ a \in P)
             \/ l \in L /\ a \in P /\ rw[a].status = "WAITING" /\ rx[a].status = "ACTIVE"
  BY ReconciledRows
<1>2. /\ Queue(l)!Served(WithStatus(rw, l, "ACTIVE"), Line(rw, l), EligibleAt(prof, criteria, l)) = P
      /\ P \subseteq WithStatus(rw, l, "WAITING")
  BY ServedArePromoted
<1> HIDE DEF rx, P
<1>3. ASSUME l \in L
      PROVE  /\ WithStatus(rx, l, "ACTIVE") = WithStatus(rw, l, "ACTIVE") \cup P
             /\ WithStatus(rx, l, "WAITING") = WithStatus(rw, l, "WAITING") \ P
    BY <1>1, <1>2, <1>3 DEF WithStatus
<1>4. ASSUME l \in L PROVE Line(rx, l) = Queue(l)!Without(Line(rw, l), P)
  <2>1. \A a \in WithStatus(rx, l, "WAITING") : rx[a].queueOrder = rw[a].queueOrder
    BY <1>1 DEF WithStatus
  <2> QED BY <1>3, <1>4, <2>1, LineWithout
<1>5. ASSUME l \notin L PROVE SameQueue(rx, rw, l)
  BY <1>1, <1>5 DEF SameQueue, AttemptsAt
<1> QED BY <1>2, <1>3, <1>4, <1>5 DEF rx

\* Nothing that concerns a listing has changed.
Quiet(l) ==
  /\ SameQueue(row', row, l)
  /\ listingStatus'[l] = listingStatus[l]
  /\ EligibleAt(profile', criteria', l) = EligibleAt(profile, criteria, l)

LEMMA QuietStutters ==
  ASSUME NEW l \in Listings, Quiet(l)
  PROVE  UNCHANGED Queue(l)!vars
<1>1. WithStatus(row', l, "ACTIVE") = WithStatus(row, l, "ACTIVE") /\ Line(row', l) = Line(row, l)
  BY SameLine DEF Quiet
<1> QED BY <1>1 DEF Quiet, Queue!vars

\* One application gives up its slot, which goes to the queue while the listing is open.
LEMMA LeavingIsExit ==
  ASSUME TypeOK, NEW l \in Listings, NEW a \in Attempts, NEW r \in Rows,
         row[a].status = "ACTIVE", r.status \notin LiveStatus,
         row' = Promote([row EXCEPT ![a] = r], ListingOf[a]),
         UNCHANGED <<listingStatus, criteria, profile>>
  PROVE  IF ListingOf[a] = l THEN Queue(l)!Exit ELSE Quiet(l)
<1> DEFINE rw == [row EXCEPT ![a] = r]
           L == {k \in {ListingOf[a]} : listingStatus[k] = "PUBLISHED"}
<1>0. /\ row \in Table /\ profile \in ProfileType /\ criteria \in [Listings -> Criteria]
  BY DEF TypeOK, Table, ProfileType
<1>1. rw \in Table /\ rw[a] = r /\ \A b \in Attempts \ {a} : rw[b] = row[b]
  BY <1>0 DEF Table
<1>2. row' = Reconcile(rw, profile, L)
  BY DEF Promote
<1>3. l \in L <=> ListingOf[a] = l /\ listingStatus[l] = "PUBLISHED"
  OBVIOUS
<1> HIDE DEF rw, L
<1>4. CASE ListingOf[a] # l
  <2>1. SameQueue(rw, row, l)
    BY <1>1, <1>4 DEF SameQueue, AttemptsAt
  <2>2. SameQueue(row', rw, l)
    BY <1>0, <1>1, <1>2, <1>3, <1>4, ReconcileServes
  <2>3. SameQueue(row', row, l)
    BY <2>1, <2>2 DEF SameQueue
  <2> QED BY <1>4, <2>3 DEF Quiet
<1>5. CASE ListingOf[a] = l
  <2>1. /\ WithStatus(rw, l, "ACTIVE") = WithStatus(row, l, "ACTIVE") \ {a}
        /\ WithStatus(rw, l, "WAITING") = WithStatus(row, l, "WAITING") \ {a}
        /\ a \in WithStatus(row, l, "ACTIVE") /\ a \in AttemptsAt(l)
    BY <1>1, <1>5 DEF WithStatus, LiveStatus, AttemptsAt
  <2>2. Line(rw, l) = Queue(l)!Without(Line(row, l), {a})
    <3>1. \A b \in WithStatus(rw, l, "WAITING") : rw[b].queueOrder = row[b].queueOrder
      BY <1>1, <2>1 DEF WithStatus
    <3> QED BY <2>1, <3>1, LineWithout
  <2>3. listingStatus' = listingStatus /\ EligibleAt(profile', criteria', l) = EligibleAt(profile, criteria, l)
    OBVIOUS
  <2>4. Queue(l)!Leave({a})
    <3>1. CASE listingStatus[l] = "PUBLISHED"
      <4>1. Queue(l)!Serve(WithStatus(row, l, "ACTIVE") \ {a}, Queue(l)!Without(Line(row, l), {a}),
                           EligibleAt(profile', criteria', l))
        <5> DEFINE served == Queue(l)!Served(WithStatus(rw, l, "ACTIVE"), Line(rw, l), EligibleAt(profile, criteria, l))
        <5>1. /\ WithStatus(row', l, "ACTIVE") = WithStatus(rw, l, "ACTIVE") \cup served
              /\ Line(row', l) = Queue(l)!Without(Line(rw, l), served)
          BY <1>0, <1>1, <1>2, <1>3, <1>5, <3>1, ReconcileServes
        <5> QED BY <2>1, <2>2, <2>3, <5>1 DEF Queue!Serve
      <4> QED BY <2>1, <2>3, <3>1, <4>1 DEF Queue!Leave
    <3>2. CASE listingStatus[l] # "PUBLISHED"
      <4>1. WithStatus(row', l, "ACTIVE") = WithStatus(rw, l, "ACTIVE") /\ Line(row', l) = Line(rw, l)
        BY <1>0, <1>1, <1>2, <1>3, <3>2, ReconcileServes, SameLine
      <4> QED BY <2>1, <2>2, <2>3, <3>2, <4>1 DEF Queue!Leave
    <3> QED BY <3>1, <3>2
  <2>5. {a} \in SUBSET AttemptsAt(l)
    BY <2>1
  <2> QED BY <1>5, <2>3, <2>4, <2>5 DEF Queue!Exit
<1> QED BY <1>4, <1>5

\* One application gives up its place in the line.
LEMMA LeavingLineIsExit ==
  ASSUME TypeOK, NEW l \in Listings, NEW a \in Attempts, NEW r \in Rows,
         row[a].status = "WAITING", r.status \notin LiveStatus,
         row' = [row EXCEPT ![a] = r],
         UNCHANGED <<listingStatus, criteria, profile>>
  PROVE  IF ListingOf[a] = l THEN Queue(l)!Exit ELSE Quiet(l)
<1>0. row'[a] = r /\ \A b \in Attempts \ {a} : row'[b] = row[b]
  BY DEF TypeOK
<1>1. listingStatus' = listingStatus /\ EligibleAt(profile', criteria', l) = EligibleAt(profile, criteria, l)
  OBVIOUS
<1>2. CASE ListingOf[a] # l
  <2>1. SameQueue(row', row, l)
    BY <1>0, <1>2 DEF SameQueue, AttemptsAt
  <2> QED BY <1>1, <1>2, <2>1 DEF Quiet
<1>3. CASE ListingOf[a] = l
  <2>1. /\ WithStatus(row', l, "ACTIVE") = WithStatus(row, l, "ACTIVE")
        /\ WithStatus(row', l, "WAITING") = WithStatus(row, l, "WAITING") \ {a}
        /\ a \in WithStatus(row, l, "WAITING") /\ a \notin WithStatus(row, l, "ACTIVE")
        /\ a \in AttemptsAt(l)
    BY <1>0, <1>3 DEF WithStatus, LiveStatus, AttemptsAt
  <2>2. Line(row', l) = Queue(l)!Without(Line(row, l), {a})
    <3>1. \A b \in WithStatus(row', l, "WAITING") : row'[b].queueOrder = row[b].queueOrder
      BY <1>0, <2>1 DEF WithStatus
    <3>2. \A rx : /\ WithStatus(rx, l, "WAITING") = WithStatus(row, l, "WAITING") \ {a}
                  /\ \A b \in WithStatus(rx, l, "WAITING") : rx[b].queueOrder = row[b].queueOrder
                  => Line(rx, l) = Queue(l)!Without(Line(row, l), {a})
      BY LineWithout
    <3> QED BY <2>1, <3>1, <3>2
  <2>3. DOMAIN Line(row, l) = WithStatus(row, l, "WAITING")
    BY DEF Line
  <2>4. Queue(l)!Leave({a})
    BY <2>1, <2>2, <2>3 DEF Queue!Leave, Queue!Waiting
  <2>5. {a} \in SUBSET AttemptsAt(l)
    BY <2>1
  <2> QED BY <1>1, <1>3, <2>4, <2>5 DEF Queue!Exit
<1> QED BY <1>2, <1>3

\* A newcomer, or one who is restored, gets what the queue leaves, or else its end.
LEMMA ComingIsEnter ==
  ASSUME IInv, NEW l \in Listings, NEW a \in Attempts, NEW r \in Rows,
         row[a].status \notin LiveStatus,
         Eligible(profile, criteria, a), listingStatus[ListingOf[a]] = "PUBLISHED",
         row' = [Promote(row, ListingOf[a]) EXCEPT ![a] = r],
         IF Slots(Promote(row, ListingOf[a]), ListingOf[a]) > 0 THEN r.status = "ACTIVE"
         ELSE r.status = "WAITING" /\ r.queueOrder = nextOrder,
         UNCHANGED <<listingStatus, criteria, profile>>
  PROVE  IF ListingOf[a] = l THEN Queue(l)!Enter(a) ELSE Quiet(l)
<1> DEFINE L == {k \in {ListingOf[a]} : listingStatus[k] = "PUBLISHED"}
           rx == Promote(row, ListingOf[a])
           served == Queue(l)!Served(WithStatus(row, l, "ACTIVE"), Line(row, l), EligibleAt(profile, criteria, l))
           left == Queue(l)!Without(Line(row, l), served)
<1>0. /\ TypeOK /\ row \in Table /\ profile \in ProfileType /\ criteria \in [Listings -> Criteria]
      /\ ListingOf[a] \in Listings
  BY AttemptsAssumption DEF IInv, TypeOK, Table, ProfileType
<1>1. rx = Reconcile(row, profile, L) /\ L = {ListingOf[a]}
  BY DEF Promote
<1>2. rx \in Table
  BY <1>0, PromoteType
<1>3. row'[a] = r /\ \A b \in Attempts \ {a} : row'[b] = rx[b]
  <2> HIDE DEF rx
  <2> QED BY <1>2 DEF Table, rx
<1>4. listingStatus' = listingStatus /\ EligibleAt(profile', criteria', l) = EligibleAt(profile, criteria, l)
  OBVIOUS
<1>5. CASE ListingOf[a] # l
  <2>1. SameQueue(rx, row, l)
    <3> HIDE DEF rx, L
    <3> QED BY <1>0, <1>1, <1>5, ReconcileServes
  <2>2. SameQueue(row', row, l)
    <3> HIDE DEF rx
    <3> QED BY <1>3, <1>5, <2>1 DEF SameQueue, AttemptsAt
  <2> QED BY <1>4, <1>5, <2>2 DEF Quiet
<1>6. CASE ListingOf[a] = l
  <2> HIDE DEF L, rx, served
  <2>1. /\ WithStatus(rx, l, "ACTIVE") = WithStatus(row, l, "ACTIVE") \cup served
        /\ Line(rx, l) = left
    BY <1>0, <1>1, <1>6, ReconcileServes DEF served
  <2>2. /\ a \notin WithStatus(row, l, "ACTIVE") \cup WithStatus(row, l, "WAITING")
        /\ a \in EligibleAt(profile, criteria, l) /\ a \in Attempts
    BY <1>6 DEF WithStatus, LiveStatus, EligibleAt, AttemptsAt
  <2>3. rx[a] = row[a]
    <3>1. criteria \in [Listings -> Criteria]
      BY <1>0
    <3>2. row[a].status # "WAITING"
      BY DEF LiveStatus
    <3> QED BY <1>0, <1>1, <3>2, SettledRow
  <2>4. \A b \in Attempts : rx[b].queueOrder \in Nat /\ rx[b].queueOrder < nextOrder
    <3>1. \A b \in Attempts : rx[b].queueOrder = row[b].queueOrder
      BY <1>0, <1>1, ReconciledRows
    <3>2. \A b \in Attempts : row[b].queueOrder \in Nat /\ row[b].queueOrder < nextOrder
      BY <1>0, RowColumns DEF IInv, OrdersIssued, TypeOK
    <3> QED BY <3>1, <3>2
  <2>5. WithStatus(rx, l, "ACTIVE") = WithStatus(row', l, "ACTIVE") \ {a}
    BY <1>3, <2>3 DEF WithStatus, LiveStatus
  <2>6. Slots(rx, l) > 0 <=> Queue(l)!Cardinality(WithStatus(row, l, "ACTIVE") \cup served) < Limit
    <3>1. Cardinality(WithStatus(rx, l, "ACTIVE")) \in Nat
      BY FiniteSelections
    <3>2. Slots(rx, l) = Limit - Cardinality(WithStatus(rx, l, "ACTIVE")) /\ Limit \in Nat
      BY LimitAssumption DEF Slots
    <3>3. Queue(l)!Cardinality(WithStatus(row, l, "ACTIVE") \cup served) = Cardinality(WithStatus(rx, l, "ACTIVE"))
      BY <2>1, QueueCounts
    <3> HIDE DEF rx
    <3> QED BY <3>1, <3>2, <3>3
  <2>7. DOMAIN Line(row, l) = WithStatus(row, l, "WAITING")
    BY DEF Line
  <2>8. CASE Slots(rx, l) > 0
    <3>1. r.status = "ACTIVE"
      BY <1>6, <2>8 DEF rx
    <3>2. WithStatus(row', l, "ACTIVE") = WithStatus(row, l, "ACTIVE") \cup served \cup {a}
      BY <1>3, <1>6, <2>1, <2>5, <3>1 DEF WithStatus
    <3>3. Line(row', l) = left
      <4>1. WithStatus(row', l, "WAITING") = WithStatus(rx, l, "WAITING")
        BY <1>3, <2>3, <3>1 DEF WithStatus, LiveStatus
      <4>2. \A b \in WithStatus(rx, l, "WAITING") : row'[b].queueOrder = rx[b].queueOrder
        BY <1>3, <2>3 DEF WithStatus, LiveStatus
      <4>3. Line(row', l) = Line(rx, l)
        <5> DEFINE W == WithStatus(rx, l, "WAITING")
        <5>1. /\ Line(row', l) = [w \in W |-> {v \in W : row'[v].queueOrder < row'[w].queueOrder}]
              /\ Line(rx, l) = [w \in W |-> {v \in W : rx[v].queueOrder < rx[w].queueOrder}]
          BY <4>1 DEF Line
        <5> HIDE DEF W
        <5>2. \A w \in W : {v \in W : row'[v].queueOrder < row'[w].queueOrder} = {v \in W : rx[v].queueOrder < rx[w].queueOrder}
          BY <4>2 DEF W
        <5> QED BY <5>1, <5>2
      <4> QED BY <2>1, <4>3
    <3> QED BY <1>4, <1>6, <2>2, <2>6, <2>7, <2>8, <3>2, <3>3 DEF Queue!Enter, Queue!Waiting, served
  <2>9. CASE ~ (Slots(rx, l) > 0)
    <3>1. r.status = "WAITING" /\ r.queueOrder = nextOrder
      BY <1>6, <2>9 DEF rx
    <3>2. WithStatus(row', l, "ACTIVE") = WithStatus(row, l, "ACTIVE") \cup served
      <4>1. a \notin WithStatus(row', l, "ACTIVE")
        BY <1>3, <3>1 DEF WithStatus
      <4> QED BY <2>1, <2>5, <4>1
    <3>3. Line(row', l) = Queue(l)!Joined(left, a)
      <4> DEFINE W == WithStatus(rx, l, "WAITING")
                 V == WithStatus(row', l, "WAITING")
      <4>1. V = W \cup {a} /\ a \notin W
        BY <1>3, <1>6, <2>3, <3>1 DEF WithStatus, LiveStatus
      <4>2. \A b \in W : row'[b].queueOrder = rx[b].queueOrder /\ rx[b].queueOrder \in Nat /\ rx[b].queueOrder < nextOrder
        BY <1>3, <2>4, <4>1 DEF WithStatus
      <4>3. row'[a].queueOrder = nextOrder /\ nextOrder \in Nat
        BY <1>0, <1>3, <3>1 DEF TypeOK
      <4>4. /\ Line(row', l) = [w \in V |-> {v \in V : row'[v].queueOrder < row'[w].queueOrder}]
            /\ Line(rx, l) = [w \in W |-> {v \in W : rx[v].queueOrder < rx[w].queueOrder}]
        BY DEF Line
      <4> HIDE DEF W, V
      <4>5. Queue(l)!Joined(Line(rx, l), a) = [d \in W \cup {a} |-> IF d = a THEN W ELSE {v \in W : rx[v].queueOrder < rx[d].queueOrder}]
        BY <4>1, <4>4 DEF Queue!Joined
      <4>6. {v \in V : row'[v].queueOrder < row'[a].queueOrder} = W
        BY <4>1, <4>2, <4>3
      <4>7. \A d \in W : {v \in V : row'[v].queueOrder < row'[d].queueOrder} = {v \in W : rx[v].queueOrder < rx[d].queueOrder}
        BY <4>1, <4>2, <4>3
      <4>8. Line(row', l) = [w \in W \cup {a} |-> {v \in V : row'[v].queueOrder < row'[w].queueOrder}]
        BY <4>1, <4>4
      <4> DEFINE before(d) == {v \in V : row'[v].queueOrder < row'[d].queueOrder}
                 ahead(d) == {v \in W : rx[v].queueOrder < rx[d].queueOrder}
      <4>9. /\ before(a) = W
            /\ \A d \in W : before(d) = ahead(d)
            /\ Line(row', l) = [d \in W \cup {a} |-> before(d)]
            /\ Queue(l)!Joined(Line(rx, l), a) = [d \in W \cup {a} |-> IF d = a THEN W ELSE ahead(d)]
        BY <4>5, <4>6, <4>7, <4>8
      <4>10. Line(row', l) = Queue(l)!Joined(Line(rx, l), a)
        <5> HIDE DEF before, ahead
        <5> QED BY <4>9
      <4> QED BY <2>1, <4>10
    <3> QED BY <1>4, <1>6, <2>2, <2>6, <2>7, <2>9, <3>2, <3>3 DEF Queue!Enter, Queue!Waiting, served
  <2> QED BY <1>6, <2>8, <2>9
<1> QED BY <1>5, <1>6

\* The slots and the line of l become those of the table rx when `gone' leave.
LeavesQueue(rx, prof, l, gone) ==
  LET active == WithStatus(row, l, "ACTIVE")
      line == Queue(l)!Without(Line(row, l), gone)
      served == Queue(l)!Served(active \ gone, line, EligibleAt(prof, criteria, l))
  IN  /\ gone \subseteq active \cup WithStatus(row, l, "WAITING")
      /\ IF listingStatus[l] = "PUBLISHED" /\ gone \cap active # {}
         THEN /\ WithStatus(rx, l, "ACTIVE") = (active \ gone) \cup served
              /\ Line(rx, l) = Queue(l)!Without(line, served)
         ELSE WithStatus(rx, l, "ACTIVE") = active \ gone /\ Line(rx, l) = line

\* A new profile makes those leave who lose their eligibility by it; the queue is
\* served where one of them gives up a slot.
LEMMA RevalidatedQueue ==
  ASSUME TypeOK, NEW l \in Listings, NEW p, NEW prof \in ProfileType, NEW rx,
         rx = Reconcile(RevalidatedTable(p, prof), prof, Released(RevalidatedTable(p, prof)))
  PROVE  \E gone \in SUBSET (AttemptsAt(l) \ EligibleAt(prof, criteria, l)) :
           LeavesQueue(rx, prof, l, gone)
<1> DEFINE rw == RevalidatedTable(p, prof)
           gone == {a \in AttemptsAt(l) : ApplicantOf[a] = p /\ Live(row[a]) /\ ~Eligible(prof, criteria, a)}
           active == WithStatus(row, l, "ACTIVE")
           line == Queue(l)!Without(Line(row, l), gone)
           served == Queue(l)!Served(active \ gone, line, EligibleAt(prof, criteria, l))
<1>0. /\ row \in Table /\ criteria \in [Listings -> Criteria]
      /\ \A a \in Attempts : row[a] \in Rows
  BY DEF TypeOK, Table
<1>1. rw \in Table
  BY TableTypes
<1>2. ASSUME NEW a \in Attempts
      PROVE  /\ rw[a].queueOrder = row[a].queueOrder
             /\ ListingOf[a] = l => IF a \in gone THEN rw[a].status = "REJECTED" /\ Live(row[a])
                                    ELSE rw[a].status = row[a].status
  <2>1. \/ ApplicantOf[a] = p /\ Live(row[a]) /\ rw[a] = Revalidated(row[a], prof, a)
        \/ ~(ApplicantOf[a] = p /\ Live(row[a])) /\ rw[a] = row[a]
    BY DEF RevalidatedTable
  <2>2. ListingOf[a] = l => (a \in gone <=> ApplicantOf[a] = p /\ Live(row[a]) /\ ~Eligible(prof, criteria, a))
    BY DEF AttemptsAt
  <2>3. /\ Revalidated(row[a], prof, a).queueOrder = row[a].queueOrder
        /\ IF Eligible(prof, criteria, a) THEN Revalidated(row[a], prof, a).status = row[a].status
           ELSE Revalidated(row[a], prof, a).status = "REJECTED"
    BY <1>0, RevalidatedRow
  <2> HIDE DEF rw, gone
  <2> QED BY <2>1, <2>2, <2>3
<1>3. /\ gone \in SUBSET (AttemptsAt(l) \ EligibleAt(prof, criteria, l))
      /\ gone \subseteq active \cup WithStatus(row, l, "WAITING")
  BY DEF EligibleAt, AttemptsAt, Live, LiveStatus, WithStatus
<1>4. l \in Released(rw) <=> listingStatus[l] = "PUBLISHED" /\ gone \cap active # {}
  <2>1. \A a \in active : a \in Attempts /\ ListingOf[a] = l /\ row[a].status = "ACTIVE"
    BY DEF WithStatus
  <2>2. (\E a \in active : rw[a].status # "ACTIVE") <=> gone \cap active # {}
    <3> HIDE DEF rw, gone, active
    <3> QED BY <1>2, <2>1
  <2> QED BY <2>2 DEF Released
<1> HIDE DEF rw, gone
<1>5. /\ WithStatus(rw, l, "ACTIVE") = active \ gone
      /\ WithStatus(rw, l, "WAITING") = WithStatus(row, l, "WAITING") \ gone
  BY <1>2 DEF WithStatus, Live, LiveStatus
<1>6. Line(rw, l) = line
  <2>1. \A a \in WithStatus(rw, l, "WAITING") : rw[a].queueOrder = row[a].queueOrder
    BY <1>2 DEF WithStatus
  <2> QED BY <1>5, <2>1, LineWithout
<1>7. rx = Reconcile(rw, prof, Released(rw))
  BY DEF rw
<1>8. CASE l \in Released(rw)
  <2>1. /\ WithStatus(rx, l, "ACTIVE") = (active \ gone) \cup served
        /\ Line(rx, l) = Queue(l)!Without(line, served)
    <3> DEFINE serv == Queue(l)!Served(WithStatus(rw, l, "ACTIVE"), Line(rw, l), EligibleAt(prof, criteria, l))
    <3>1. /\ WithStatus(rx, l, "ACTIVE") = WithStatus(rw, l, "ACTIVE") \cup serv
          /\ Line(rx, l) = Queue(l)!Without(Line(rw, l), serv)
      BY <1>0, <1>1, <1>7, <1>8, ReconcileServes
    <3>2. serv = served
      BY <1>5, <1>6
    <3> HIDE DEF serv, served
    <3> QED BY <1>5, <1>6, <3>1, <3>2
  <2> QED BY <1>3, <1>4, <1>8, <2>1 DEF LeavesQueue
<1>9. CASE l \notin Released(rw)
  <2>1. WithStatus(rx, l, "ACTIVE") = active \ gone /\ Line(rx, l) = line
    <3>1. SameQueue(rx, rw, l)
      BY <1>0, <1>1, <1>7, <1>9, ReconcileServes
    <3> QED BY <1>5, <1>6, <3>1, SameLine
  <2> QED BY <1>3, <1>4, <1>9, <2>1 DEF LeavesQueue
<1> QED BY <1>8, <1>9

\* A new profile reassesses the queue of every listing.
LEMMA UpdatingIsReassess ==
  ASSUME TypeOK, NEW l \in Listings, NEW p \in Applicants, NEW new \in Profiles, UpdateProfile(p, new)
  PROVE  Queue(l)!Reassess
<1> DEFINE active == WithStatus(row, l, "ACTIVE")
           line(gone) == Queue(l)!Without(Line(row, l), gone)
           served(gone) == Queue(l)!Served(active \ gone, line(gone), EligibleAt(profile', criteria, l))
<1>1. profile' \in ProfileType
  BY DEF UpdateProfile, ProfileType, TypeOK
<1>2. /\ row' = Reconcile(RevalidatedTable(p, profile'), profile', Released(RevalidatedTable(p, profile')))
      /\ listingStatus' = listingStatus /\ criteria' = criteria
  BY DEF UpdateProfile
<1>3. \A prof \in ProfileType : \A rx :
        rx = Reconcile(RevalidatedTable(p, prof), prof, Released(RevalidatedTable(p, prof))) =>
          \E gone \in SUBSET (AttemptsAt(l) \ EligibleAt(prof, criteria, l)) :
            LeavesQueue(rx, prof, l, gone)
  BY RevalidatedQueue
<1>8. PICK gone \in SUBSET (AttemptsAt(l) \ EligibleAt(profile', criteria, l)) :
        LeavesQueue(row', profile', l, gone)
  BY <1>1, <1>2, <1>3
<1>9. /\ gone \subseteq active \cup WithStatus(row, l, "WAITING")
      /\ IF listingStatus[l] = "PUBLISHED" /\ gone \cap active # {}
         THEN /\ WithStatus(row', l, "ACTIVE") = (active \ gone) \cup served(gone)
              /\ Line(row', l) = Queue(l)!Without(line(gone), served(gone))
         ELSE WithStatus(row', l, "ACTIVE") = active \ gone /\ Line(row', l) = line(gone)
  BY <1>8 DEF LeavesQueue
<1>4. /\ EligibleAt(profile', criteria', l) = EligibleAt(profile', criteria, l)
      /\ EligibleAt(profile', criteria', l) \in SUBSET AttemptsAt(l)
  BY <1>2 DEF EligibleAt
<1>5. DOMAIN Line(row, l) = WithStatus(row, l, "WAITING")
  BY DEF Line
<1>6. CASE gone # {}
  <2>1. Queue(l)!Leave(gone)
    BY <1>2, <1>9, <1>4, <1>5, <1>6 DEF Queue!Leave, Queue!Serve, Queue!Waiting
  <2>2. gone \in SUBSET (AttemptsAt(l) \ EligibleAt(profile', criteria', l))
    BY <1>4, <1>8
  <2> QED BY <1>2, <1>4, <2>1, <2>2 DEF Queue!Reassess
<1>7. CASE gone = {}
  <2>1. line({}) = Line(row, l)
    BY DEF Queue!Without, Line
  <2>2. WithStatus(row', l, "ACTIVE") = active /\ Line(row', l) = Line(row, l)
    BY <1>9, <1>7, <2>1
  <2> QED BY <1>2, <1>4, <2>2 DEF Queue!Reassess
<1> QED BY <1>6, <1>7

\* A listing that returns to the public serves its queue, and no other queue changes.
LEMMA GoingPublicIsOpen ==
  ASSUME TypeOK, NEW l \in Listings, NEW k \in Listings, NEW from \in {"DRAFT", "PAUSED"}, GoPublic(k, from)
  PROVE  IF k = l THEN Queue(l)!Open ELSE Quiet(l)
<1>0. /\ row \in Table /\ profile \in ProfileType /\ criteria \in [Listings -> Criteria]
  BY DEF TypeOK, Table, ProfileType
<1>1. /\ row' = Reconcile(row, profile, {k})
      /\ \A m \in Listings : listingStatus'[m] = IF m = k THEN "PUBLISHED" ELSE listingStatus[m]
      /\ listingStatus[k] # "PUBLISHED"
      /\ EligibleAt(profile', criteria', l) = EligibleAt(profile, criteria, l)
  BY DEF GoPublic, TypeOK
<1>2. CASE k # l
  <2>1. SameQueue(row', row, l)
    BY <1>0, <1>1, <1>2, ReconcileServes
  <2> QED BY <1>1, <1>2, <2>1 DEF Quiet
<1>3. CASE k = l
  <2> DEFINE served == Queue(l)!Served(WithStatus(row, l, "ACTIVE"), Line(row, l), EligibleAt(profile, criteria, l))
  <2>1. /\ WithStatus(row', l, "ACTIVE") = WithStatus(row, l, "ACTIVE") \cup served
        /\ Line(row', l) = Queue(l)!Without(Line(row, l), served)
    BY <1>0, <1>1, <1>3, ReconcileServes
  <2> QED BY <1>1, <1>3, <2>1 DEF Queue!Open, Queue!Serve
<1> QED BY <1>2, <1>3

\* An operator's promotion serves a published listing's queue, and no other queue changes.
LEMMA PromotingIsCatch ==
  ASSUME TypeOK, NEW l \in Listings, NEW k \in Listings, PromoteWaiting(k)
  PROVE  Queue(l)!Catch \/ Quiet(l)
<1> DEFINE L == {m \in {k} : listingStatus[m] = "PUBLISHED"}
<1>0. /\ row \in Table /\ profile \in ProfileType /\ criteria \in [Listings -> Criteria]
  BY DEF TypeOK, Table, ProfileType
<1>1. /\ row' = Reconcile(row, profile, L)
      /\ listingStatus' = listingStatus
      /\ EligibleAt(profile', criteria', l) = EligibleAt(profile, criteria, l)
  BY DEF PromoteWaiting, Promote
<1>2. l \in L <=> k = l /\ listingStatus[l] = "PUBLISHED"
  OBVIOUS
<1> HIDE DEF L
<1>3. CASE l \notin L
  <2>1. SameQueue(row', row, l)
    BY <1>0, <1>1, <1>3, ReconcileServes
  <2> QED BY <1>1, <2>1 DEF Quiet
<1>4. CASE l \in L
  <2> DEFINE served == Queue(l)!Served(WithStatus(row, l, "ACTIVE"), Line(row, l), EligibleAt(profile, criteria, l))
  <2>1. /\ WithStatus(row', l, "ACTIVE") = WithStatus(row, l, "ACTIVE") \cup served
        /\ Line(row', l) = Queue(l)!Without(Line(row, l), served)
    BY <1>0, <1>1, <1>4, ReconcileServes
  <2> QED BY <1>1, <1>2, <1>4, <2>1 DEF Queue!Catch, Queue!Serve
<1> QED BY <1>3, <1>4

\* Renting a listing empties its slots and its line.
LEMMA RentingIsClose ==
  ASSUME TypeOK, NEW l \in Listings, NEW a \in Attempts, Rent(a)
  PROVE  IF ListingOf[a] = l THEN Queue(l)!Close ELSE Quiet(l)
<1>0. /\ row \in Table /\ clock \in Nat /\ \A b \in Attempts : row[b] \in Rows
  BY DEF TypeOK, Table
<1>1. /\ \A m \in Listings : listingStatus'[m] = IF m = ListingOf[a] THEN "RENTED" ELSE listingStatus[m]
      /\ EligibleAt(profile', criteria', l) = EligibleAt(profile, criteria, l)
      /\ row[a].status = "ACTIVE"
  BY DEF Rent, TypeOK
<1>2. ASSUME NEW b \in Attempts
      PROVE  IF ListingOf[b] = ListingOf[a] THEN ~Live(row'[b]) ELSE row'[b] = row[b]
  <2>1. row'[b] = RentedTable(a)[b]
    BY DEF Rent
  <2>2. CASE b = a
    <3>1. row'[b] = [row[b] EXCEPT !.status = "ACCEPTED"]
      BY <2>1, <2>2 DEF RentedTable
    <3>2. row'[b].status = "ACCEPTED"
      BY <1>0, <3>1 DEF Rows
    <3> QED BY <2>2, <3>2 DEF Live, LiveStatus
  <2>3. CASE b # a /\ ListingOf[b] = ListingOf[a] /\ Live(row[b])
    <3>1. row'[b] = Rejected(row[b], "LISTING_RENTED")
      BY <2>1, <2>3 DEF RentedTable
    <3>2. row'[b].status = "REJECTED"
      BY <1>0, <3>1, RejectedRow DEF RejectionReason
    <3> QED BY <2>3, <3>2 DEF Live, LiveStatus
  <2>4. CASE b # a /\ ~(ListingOf[b] = ListingOf[a] /\ Live(row[b]))
    BY <2>1, <2>4 DEF RentedTable
  <2> QED BY <2>2, <2>3, <2>4
<1>3. CASE ListingOf[a] # l
  <2>1. SameQueue(row', row, l)
    BY <1>2, <1>3 DEF SameQueue, AttemptsAt
  <2> QED BY <1>1, <1>3, <2>1 DEF Quiet
<1>4. CASE ListingOf[a] = l
  <2>1. WithStatus(row', l, "ACTIVE") = {} /\ WithStatus(row', l, "WAITING") = {}
    BY <1>2, <1>4 DEF WithStatus, Live, LiveStatus
  <2>2. DOMAIN Line(row', l) = {}
    BY <2>1 DEF Line
  <2> QED BY <1>1, <1>4, <2>1, <2>2 DEF Queue!Close, Queue!Waiting
<1> QED BY <1>3, <1>4

\* A listing that leaves the public keeps its slots and its line.
LEMMA GoingDarkIsClose ==
  ASSUME TypeOK, NEW l \in Listings, NEW k \in Listings, NEW from, NEW to \in {"DRAFT", "PAUSED", "ARCHIVED"},
         GoDark(k, from, to)
  PROVE  IF k = l THEN Queue(l)!Close ELSE Quiet(l)
<1>1. /\ \A m \in Listings : listingStatus'[m] = IF m = k THEN to ELSE listingStatus[m]
      /\ EligibleAt(profile', criteria', l) = EligibleAt(profile, criteria, l)
      /\ row' = row
  BY DEF GoDark, TypeOK
<1>2. SameQueue(row', row, l)
  BY <1>1 DEF SameQueue
<1>3. WithStatus(row', l, "ACTIVE") = WithStatus(row, l, "ACTIVE") /\ Line(row', l) = Line(row, l)
  BY <1>2, SameLine
<1> QED BY <1>1, <1>2, <1>3 DEF Queue!Close, Quiet

\* New criteria change who is eligible at the listing, and move nobody.
LEMMA NewCriteriaAreReassess ==
  ASSUME TypeOK, NEW l \in Listings, NEW k \in Listings, NEW c \in Criteria, UpdateCriteria(k, c)
  PROVE  IF k = l THEN Queue(l)!Reassess ELSE Quiet(l)
<1>1. SameQueue(row', row, l)
  <2>1. ASSUME NEW a \in Attempts
        PROVE  row'[a].status = row[a].status /\ row'[a].queueOrder = row[a].queueOrder
    <3>1. row[a] \in Rows
      BY DEF TypeOK
    <3>2. row'[a] = row[a] \/ row'[a] = [row[a] EXCEPT !.assessed = Assessment(profile, criteria', a)]
      BY DEF UpdateCriteria, ReassessedTable
    <3> QED BY <3>1, <3>2 DEF Rows
  <2> QED BY <2>1 DEF SameQueue, AttemptsAt
<1>2. WithStatus(row', l, "ACTIVE") = WithStatus(row, l, "ACTIVE") /\ Line(row', l) = Line(row, l)
  BY <1>1, SameLine
<1>3. /\ listingStatus' = listingStatus /\ profile' = profile
      /\ \A m \in Listings : m # k => criteria'[m] = criteria[m]
  BY DEF UpdateCriteria, TypeOK
<1>4. EligibleAt(profile', criteria', l) \in SUBSET AttemptsAt(l)
  BY DEF EligibleAt
<1>5. CASE k # l
  <2>1. EligibleAt(profile', criteria', l) = EligibleAt(profile, criteria, l)
    <3>1. \A a \in AttemptsAt(l) : Eligible(profile, criteria, a)' = Eligible(profile, criteria, a)
      BY <1>3, <1>5 DEF Eligible, AttemptsAt
    <3> QED BY <3>1 DEF EligibleAt
  <2> QED BY <1>1, <1>3, <1>5, <2>1 DEF Quiet
<1>6. CASE k = l
  BY <1>2, <1>3, <1>4, <1>6 DEF Queue!Reassess
<1> QED BY <1>5, <1>6

\* Every step of the lifecycle is a step of the queue of each listing, or leaves it alone.
LEMMA StepQueue ==
  ASSUME IInv, [Next]_vars, NEW l \in Listings
  PROVE  UNCHANGED Queue(l)!vars \/ Queue(l)!Next
<1>0. /\ TypeOK /\ clock \in Nat /\ nextOrder \in Nat
      /\ \A a \in Attempts : row[a] \in Rows /\ row[a].queueOrder \in Nat
  BY RowColumns DEF IInv, TypeOK
<1>a. ASSUME Quiet(l) PROVE UNCHANGED Queue(l)!vars
  BY <1>a, QuietStutters
<1>b. ASSUME UNCHANGED <<row, listingStatus, criteria, profile>> PROVE UNCHANGED Queue(l)!vars
  <2>1. Quiet(l)
    BY <1>b DEF Quiet, SameQueue
  <2> QED BY <1>a, <2>1
<1>c. ASSUME NEW a \in Attempts, IF ListingOf[a] = l THEN Queue(l)!Exit ELSE Quiet(l)
      PROVE  UNCHANGED Queue(l)!vars \/ Queue(l)!Next
  BY <1>a, <1>c DEF Queue!Next
<1>d. ASSUME NEW a \in Attempts, IF ListingOf[a] = l THEN Queue(l)!Enter(a) ELSE Quiet(l)
      PROVE  UNCHANGED Queue(l)!vars \/ Queue(l)!Next
  <2>1. ListingOf[a] = l => a \in AttemptsAt(l)
    BY DEF AttemptsAt
  <2> QED BY <1>a, <1>d, <2>1 DEF Queue!Next
<1>1. ASSUME NEW a \in Attempts, Apply(a) PROVE UNCHANGED Queue(l)!vars \/ Queue(l)!Next
  <2> DEFINE served == Promote(row, ListingOf[a])
             status == IF Slots(served, ListingOf[a]) > 0 THEN "ACTIVE" ELSE "WAITING"
             r == Submitted(a, status)
  <2>1. r \in Rows /\ r.status = status /\ r.queueOrder = nextOrder
    <3>1. status \in LiveStatus
      BY DEF LiveStatus
    <3> HIDE DEF status
    <3> QED BY <1>0, <3>1, SubmittedRow
  <2>2. /\ row' = [served EXCEPT ![a] = r]
        /\ row[a].status \notin LiveStatus
        /\ Eligible(profile, criteria, a) /\ listingStatus[ListingOf[a]] = "PUBLISHED"
        /\ UNCHANGED <<listingStatus, criteria, profile>>
    BY <1>1 DEF Apply, CanSubmit, LiveStatus
  <2>3. IF Slots(served, ListingOf[a]) > 0 THEN r.status = "ACTIVE"
        ELSE r.status = "WAITING" /\ r.queueOrder = nextOrder
    BY <2>1
  <2> HIDE DEF r
  <2>4. IF ListingOf[a] = l THEN Queue(l)!Enter(a) ELSE Quiet(l)
    BY <2>1, <2>2, <2>3, ComingIsEnter
  <2> QED BY <1>d, <2>4
<1>2. ASSUME NEW a \in Attempts, Restore(a) PROVE UNCHANGED Queue(l)!vars \/ Queue(l)!Next
  <2> DEFINE served == Promote(row, ListingOf[a])
  <2>1. PICK status \in LiveStatus, order \in Nat :
          /\ row' = [served EXCEPT ![a] = Restored(a, status, order)]
          /\ IF Slots(served, ListingOf[a]) > 0 THEN status = "ACTIVE" ELSE status = "WAITING" /\ order = nextOrder
    <3>1. Slots(served, ListingOf[a]) \in Int
      BY FiniteSelections, LimitAssumption DEF Slots
    <3> QED BY <1>0, <1>2, <3>1 DEF Restore, LiveStatus
  <2> DEFINE r == Restored(a, status, order)
  <2>2. r \in Rows /\ r.status = status /\ r.queueOrder = order
    BY <1>0, RestoredRow DEF TypeOK
  <2>3. /\ row[a].status \notin LiveStatus
        /\ Eligible(profile, criteria, a) /\ listingStatus[ListingOf[a]] = "PUBLISHED"
        /\ UNCHANGED <<listingStatus, criteria, profile>>
    BY <1>2 DEF Restore, LiveStatus
  <2>4. IF Slots(served, ListingOf[a]) > 0 THEN r.status = "ACTIVE"
        ELSE r.status = "WAITING" /\ r.queueOrder = nextOrder
    BY <2>1, <2>2
  <2> HIDE DEF r
  <2>5. row' = [served EXCEPT ![a] = r]
    BY <2>1 DEF r
  <2>6. IF ListingOf[a] = l THEN Queue(l)!Enter(a) ELSE Quiet(l)
    BY <2>2, <2>3, <2>4, <2>5, ComingIsEnter
  <2> QED BY <1>d, <2>6
<1>3. ASSUME NEW a \in Attempts, Withdraw(a) PROVE UNCHANGED Queue(l)!vars \/ Queue(l)!Next
  <2>1. /\ Withdrawn(row[a]) \in Rows /\ Withdrawn(row[a]).status = "WITHDRAWN"
        /\ UNCHANGED <<listingStatus, criteria, profile>>
        /\ row[a].status \in LiveStatus
    BY <1>0, <1>3, WithdrawnRow DEF Withdraw, CanWithdraw
  <2>2. "WITHDRAWN" \notin LiveStatus
    BY DEF LiveStatus
  <2>3. CASE row[a].status = "ACTIVE"
    <3>1. row' = Promote([row EXCEPT ![a] = Withdrawn(row[a])], ListingOf[a])
      BY <1>3, <2>3 DEF Withdraw
    <3>2. IF ListingOf[a] = l THEN Queue(l)!Exit ELSE Quiet(l)
      BY <1>0, <2>1, <2>2, <2>3, <3>1, LeavingIsExit
    <3> QED BY <1>c, <3>2
  <2>4. CASE row[a].status = "WAITING"
    <3>1. row' = [row EXCEPT ![a] = Withdrawn(row[a])]
      BY <1>3, <2>4 DEF Withdraw
    <3>2. IF ListingOf[a] = l THEN Queue(l)!Exit ELSE Quiet(l)
      BY <1>0, <2>1, <2>2, <2>4, <3>1, LeavingLineIsExit
    <3> QED BY <1>c, <3>2
  <2> QED BY <2>1, <2>3, <2>4 DEF LiveStatus
<1>4. ASSUME NEW a \in Attempts, NEW r \in Rows, row[a].status = "ACTIVE", r.status = "REJECTED",
             row' = Promote([row EXCEPT ![a] = r], ListingOf[a]),
             UNCHANGED <<listingStatus, criteria, profile>>
      PROVE  UNCHANGED Queue(l)!vars \/ Queue(l)!Next
  <2>1. r.status \notin LiveStatus
    BY <1>4 DEF LiveStatus
  <2>2. IF ListingOf[a] = l THEN Queue(l)!Exit ELSE Quiet(l)
    BY <1>0, <1>4, <2>1, LeavingIsExit
  <2> QED BY <1>c, <2>2
<1>5. ASSUME NEW a \in Attempts, Reject(a) PROVE UNCHANGED Queue(l)!vars \/ Queue(l)!Next
  <2>1. NotSelected(row[a]) \in Rows /\ NotSelected(row[a]).status = "REJECTED"
    BY <1>0, NotSelectedRow
  <2>2. /\ row' = Promote([row EXCEPT ![a] = NotSelected(row[a])], ListingOf[a])
        /\ row[a].status = "ACTIVE" /\ UNCHANGED <<listingStatus, criteria, profile>>
    BY <1>5 DEF Reject
  <2> QED BY <1>4, <2>1, <2>2
<1>6. ASSUME NEW a \in Attempts, ExpireViewingInterest(a) PROVE UNCHANGED Queue(l)!vars \/ Queue(l)!Next
  <2> DEFINE r == Rejected(row[a], "POST_VIEWING_RESPONSE_EXPIRED")
  <2>1. r \in Rows /\ r.status = "REJECTED"
    BY <1>0, RejectedRow DEF RejectionReason
  <2>2. /\ row' = Promote([row EXCEPT ![a] = r], ListingOf[a])
        /\ row[a].status = "ACTIVE" /\ UNCHANGED <<listingStatus, criteria, profile>>
    BY <1>6 DEF ExpireViewingInterest
  <2> HIDE DEF r
  <2> QED BY <1>4, <2>1, <2>2
<1>7. ASSUME NEW a \in Attempts, Rent(a) PROVE UNCHANGED Queue(l)!vars \/ Queue(l)!Next
  <2>1. IF ListingOf[a] = l THEN Queue(l)!Close ELSE Quiet(l)
    BY <1>0, <1>7, RentingIsClose
  <2> QED BY <1>a, <2>1 DEF Queue!Next
<1>8. ASSUME NEW p \in Applicants, NEW new \in Profiles, UpdateProfile(p, new)
      PROVE  UNCHANGED Queue(l)!vars \/ Queue(l)!Next
  <2>1. Queue(l)!Reassess
    BY <1>0, <1>8, UpdatingIsReassess
  <2> QED BY <2>1 DEF Queue!Next
<1>9. ASSUME NEW k \in Listings, NEW c \in Criteria, UpdateCriteria(k, c)
      PROVE  UNCHANGED Queue(l)!vars \/ Queue(l)!Next
  <2>1. IF k = l THEN Queue(l)!Reassess ELSE Quiet(l)
    BY <1>0, <1>9, NewCriteriaAreReassess
  <2> QED BY <1>a, <2>1 DEF Queue!Next
<1>10. ASSUME NEW k \in Listings, NEW from \in {"DRAFT", "PAUSED"}, GoPublic(k, from)
       PROVE  UNCHANGED Queue(l)!vars \/ Queue(l)!Next
  <2>1. IF k = l THEN Queue(l)!Open ELSE Quiet(l)
    BY <1>0, <1>10, GoingPublicIsOpen
  <2> QED BY <1>a, <2>1 DEF Queue!Next
<1>11. ASSUME NEW k \in Listings, NEW from, NEW to \in {"DRAFT", "PAUSED", "ARCHIVED"}, GoDark(k, from, to)
       PROVE  UNCHANGED Queue(l)!vars \/ Queue(l)!Next
  <2>1. IF k = l THEN Queue(l)!Close ELSE Quiet(l)
    BY <1>0, <1>11, GoingDarkIsClose
  <2> QED BY <1>a, <2>1 DEF Queue!Next
<1>12. ASSUME NEW k \in Listings, PromoteWaiting(k) PROVE UNCHANGED Queue(l)!vars \/ Queue(l)!Next
  <2>1. Queue(l)!Catch \/ Quiet(l)
    BY <1>0, <1>12, PromotingIsCatch
  <2> QED BY <1>a, <2>1 DEF Queue!Next
<1>13. CASE Tick
  BY <1>13, <1>b DEF Tick
<1>14. CASE UNCHANGED vars
  BY <1>14, <1>b DEF vars
<1> QED BY <1>1, <1>2, <1>3, <1>5, <1>6, <1>7, <1>8, <1>9, <1>10, <1>11, <1>12, <1>13, <1>14
        DEF Next, AttemptStep, ListingStep, Publish, Resume, MoveToDraft, Pause, Archive

\* Every queue starts empty.
LEMMA InitQueue ==
  ASSUME Init, NEW l \in Listings
  PROVE  Queue(l)!Init
<1>1. \A a \in Attempts : row[a].status \notin LiveStatus
  <2>1. CASE row = [a \in Attempts |-> Unborn]
    BY <2>1 DEF Unborn, LiveStatus
  <2>2. CASE \E a \in Legacy, r \in Rows : /\ row = [[b \in Attempts |-> Unborn] EXCEPT ![a] = r]
                                          /\ r.status = "REJECTED"
    BY <2>2 DEF Unborn, LiveStatus
  <2> QED BY <2>1, <2>2, LegacyRowType DEF Init, RejectionReason
<1>2. WithStatus(row, l, "ACTIVE") = {} /\ WithStatus(row, l, "WAITING") = {}
  BY <1>1 DEF WithStatus, LiveStatus
<1>3. DOMAIN Line(row, l) = {} /\ EligibleAt(profile, criteria, l) \in SUBSET AttemptsAt(l)
  BY <1>2 DEF Line, EligibleAt
<1>4. (listingStatus[l] = "PUBLISHED") \in BOOLEAN
  OBVIOUS
<1> QED BY <1>2, <1>3, <1>4 DEF Queue!Init, Queue!Waiting

\* Every listing is a bounded first-in first-out queue.
THEOREM QueueImplemented == Spec => ImplementsQueue
<1> DEFINE QueueSteps == \A l \in Listings : UNCHANGED Queue(l)!vars \/ Queue(l)!Next
<1>1. Init => \A l \in Listings : Queue(l)!Init
  BY InitQueue
<1>2. IInv /\ [Next]_vars => [QueueSteps]_vars
  BY StepQueue
<1> QED BY <1>1, <1>2, InitInv, StepInv, PTL DEF Spec, ImplementsQueue

-----------------------------------------------------------------------------
\* The line is linear: of two who wait one came first, and so did those before.
LEMMA LineIsLinear ==
  ASSUME NEW rw \in Table, NEW l \in Listings, OrdersDistinct(rw)
  PROVE  \A v, w \in DOMAIN Line(rw, l) :
           /\ v \in Line(rw, l)[w] <=> rw[v].queueOrder < rw[w].queueOrder
           /\ v # w => v \in Line(rw, l)[w] \/ w \in Line(rw, l)[v]
           /\ v \in Line(rw, l)[w] => Line(rw, l)[v] \subseteq Line(rw, l)[w]
<1>1. DOMAIN Line(rw, l) = WithStatus(rw, l, "WAITING")
  BY DEF Line
<1>2. \A w \in WithStatus(rw, l, "WAITING") :
        Line(rw, l)[w] = {v \in WithStatus(rw, l, "WAITING") : rw[v].queueOrder < rw[w].queueOrder}
  BY DEF Line
<1>3. \A v, w \in WithStatus(rw, l, "WAITING") :
        /\ rw[v].queueOrder \in Nat
        /\ v # w => rw[v].queueOrder # rw[w].queueOrder
  BY RowColumns DEF OrdersDistinct, WithStatus, Table
<1> QED BY <1>1, <1>2, <1>3

\* Of the eligible in the line, those who are served came before those who are not.
LEMMA ServedCameFirst ==
  ASSUME NEW rw \in Table, NEW l \in Listings, OrdersDistinct(rw), NEW gone, NEW act, NEW elig,
         IsFiniteSet(act)
  PROVE  LET q == Queue(l)!Without(Line(rw, l), gone)
             served == Queue(l)!Served(act, q, elig)
         IN  \A a \in served, w \in (DOMAIN q \cap elig) \ served : a \in Line(rw, l)[w]
<1> DEFINE q == Queue(l)!Without(Line(rw, l), gone)
           served == Queue(l)!Served(act, q, elig)
<1>1. /\ DOMAIN q = DOMAIN Line(rw, l) \ gone
      /\ \A c \in DOMAIN q : q[c] = Line(rw, l)[c] \ gone
  BY DEF Queue!Without
<1>2. \A c : c \in served <=> /\ c \in DOMAIN q \cap elig
                              /\ Cardinality(q[c] \cap elig) < Limit - Cardinality(act)
  BY QueueCounts DEF Queue!Served
<1>3. \A c \in DOMAIN q : IsFiniteSet(q[c] \cap elig) /\ Cardinality(q[c] \cap elig) \in Nat
  <2>1. \A c \in DOMAIN q : q[c] \cap elig \in SUBSET WithStatus(rw, l, "WAITING")
    BY <1>1 DEF Line
  <2>2. IsFiniteSet(WithStatus(rw, l, "WAITING"))
    BY FiniteSelections
  <2> QED BY <2>1, <2>2, FS_Subset, FS_CardinalityType
<1> HIDE DEF q, served
<1>4. ASSUME NEW a \in served, NEW w \in (DOMAIN q \cap elig) \ served, a \notin Line(rw, l)[w]
      PROVE  FALSE
  <2>1. /\ a \in DOMAIN Line(rw, l) /\ w \in DOMAIN Line(rw, l) /\ a # w
        /\ a \in DOMAIN q /\ w \in DOMAIN q
    BY <1>1, <1>2, <1>4
  <2>2. Line(rw, l)[w] \subseteq Line(rw, l)[a]
    BY <1>4, <2>1, LineIsLinear
  <2>3. q[w] \cap elig \in SUBSET (q[a] \cap elig)
    BY <1>1, <2>1, <2>2
  <2>4. Cardinality(q[w] \cap elig) <= Cardinality(q[a] \cap elig)
    BY <1>3, <2>1, <2>3, FS_Subset
  <2>5. /\ Cardinality(q[a] \cap elig) < Limit - Cardinality(act)
        /\ ~ (Cardinality(q[w] \cap elig) < Limit - Cardinality(act))
    BY <1>2, <1>4
  <2>6. /\ Cardinality(q[a] \cap elig) \in Nat /\ Cardinality(q[w] \cap elig) \in Nat
        /\ Limit - Cardinality(act) \in Int
    <3>1. Cardinality(act) \in Nat
      BY FS_CardinalityType
    <3> QED BY <1>3, <2>1, <3>1, LimitAssumption
  <2> QED BY <2>4, <2>5, <2>6
<1> QED BY <1>4 DEF q, served

\* Nobody eligible waits on while the slots are not all taken.
LEMMA ServedFillTheSlots ==
  ASSUME NEW rw \in Table, NEW l \in Listings, OrdersDistinct(rw), NEW elig
  PROVE  LET act == WithStatus(rw, l, "ACTIVE")
             served == Queue(l)!Served(act, Line(rw, l), elig)
         IN  (DOMAIN Line(rw, l) \cap elig) \ served # {} => Cardinality(act \cup served) >= Limit
<1> DEFINE act == WithStatus(rw, l, "ACTIVE")
           line == Line(rw, l)
           served == Queue(l)!Served(act, line, elig)
           left == (DOMAIN line \cap elig) \ served
<1>1. \A c : c \in served <=> /\ c \in DOMAIN line \cap elig
                              /\ Cardinality(line[c] \cap elig) < Limit - Cardinality(act)
  BY QueueCounts DEF Queue!Served
<1>2. /\ DOMAIN line = WithStatus(rw, l, "WAITING")
      /\ IsFiniteSet(act) /\ IsFiniteSet(DOMAIN line) /\ act \cap DOMAIN line = {}
      /\ Cardinality(act) \in Nat
      /\ \A c \in DOMAIN line : line[c] \in SUBSET DOMAIN line /\ rw[c].queueOrder \in Nat
  <2>1. DOMAIN line = WithStatus(rw, l, "WAITING")
    BY DEF Line
  <2>2. IsFiniteSet(act) /\ IsFiniteSet(DOMAIN line) /\ Cardinality(act) \in Nat
    BY <2>1, FiniteSelections
  <2>3. act \cap DOMAIN line = {}
    BY <2>1 DEF WithStatus
  <2>4. \A c \in DOMAIN line : line[c] \in SUBSET DOMAIN line /\ rw[c].queueOrder \in Nat
    BY RowColumns DEF Line, WithStatus, Table
  <2> QED BY <2>1, <2>2, <2>3, <2>4
<1>3. \A v, w \in DOMAIN line : v \in line[w] <=> rw[v].queueOrder < rw[w].queueOrder
  BY LineIsLinear
<1> HIDE DEF act, line, served
<1>4. ASSUME left # {} PROVE Cardinality(act \cup served) >= Limit
  <2>1. PICK w \in left : \A v \in left : rw[w].queueOrder <= rw[v].queueOrder
    <3> DEFINE D == {rw[v].queueOrder : v \in left}
    <3>1. D \in SUBSET Nat /\ D # {}
      BY <1>2, <1>4
    <3>2. PICK d \in D : \A e \in D : d <= e
      <4> HIDE DEF D
      <4> QED BY <3>1, LeastElement
    <3> QED BY <3>2
  <2>2. w \in DOMAIN line /\ ~ (Cardinality(line[w] \cap elig) < Limit - Cardinality(act))
    BY <1>1
  <2>3. line[w] \cap elig \in SUBSET served
    <3>1. ASSUME NEW v \in line[w] \cap elig, v \notin served PROVE FALSE
      <4>1. v \in left /\ v \in DOMAIN line
        BY <1>2, <2>2, <3>1
      <4>2. rw[v].queueOrder < rw[w].queueOrder /\ rw[w].queueOrder <= rw[v].queueOrder
        BY <1>3, <2>1, <2>2, <3>1, <4>1
      <4> QED BY <1>2, <2>2, <4>1, <4>2
    <3> QED BY <3>1
  <2>4. served \in SUBSET DOMAIN line
    BY <1>1
  <2>5. IsFiniteSet(served) /\ Cardinality(served) \in Nat /\ Cardinality(line[w] \cap elig) \in Nat
        /\ Cardinality(line[w] \cap elig) <= Cardinality(served)
    BY <1>2, <2>3, <2>4, FS_Subset, FS_CardinalityType
  <2>6. Cardinality(act \cup served) = Cardinality(act) + Cardinality(served)
    <3>1. act \cap served = {}
      BY <1>2, <2>4
    <3>2. Cardinality(act \cap served) = 0
      BY <3>1, FS_EmptySet
    <3>3. Cardinality(act \cup served) = Cardinality(act) + Cardinality(served) - Cardinality(act \cap served)
      BY <1>2, <2>5, FS_Union
    <3> QED BY <1>2, <2>5, <3>2, <3>3
  <2> QED BY <1>2, <2>2, <2>5, <2>6, LimitAssumption
<1> QED BY <1>4 DEF act, line, served

\* No step of the lifecycle lets anybody overtake.
LEMMA StepOvertakesNobody ==
  ASSUME IInv, [Next]_vars, NEW a \in Attempts, NEW w \in Attempts,
         ListingOf[a] = ListingOf[w],
         row[a].status # "ACTIVE", row'[a].status = "ACTIVE",
         row[w].status = "WAITING", row'[w].status = "WAITING",
         Eligible(profile', criteria', w)
  PROVE  row[a].status = "WAITING" /\ row[a].queueOrder < row[w].queueOrder
<1> DEFINE l == ListingOf[a]
           active == WithStatus(row, l, "ACTIVE")
           active2 == WithStatus(row', l, "ACTIVE")
           line == Line(row, l)
           line2 == Line(row', l)
           elig == EligibleAt(profile, criteria, l)
           elig2 == EligibleAt(profile', criteria', l)
<1>0. /\ l \in Listings /\ row \in Table /\ OrdersDistinct(row)
  BY AttemptsAssumption DEF IInv, OrdersIssued, TypeOK, Table
<1>1. /\ a \in active2 \ active
      /\ w \in DOMAIN line /\ w \in DOMAIN line2 /\ w \in elig2
      /\ IsFiniteSet(active)
      /\ DOMAIN line = WithStatus(row, l, "WAITING")
  <2>1. DOMAIN line = WithStatus(row, l, "WAITING") /\ DOMAIN line2 = WithStatus(row', l, "WAITING")
    BY DEF Line
  <2>2. a \in active2 \ active /\ w \in WithStatus(row, l, "WAITING") /\ w \in WithStatus(row', l, "WAITING")
    BY DEF WithStatus
  <2>3. w \in elig2
    BY DEF EligibleAt, AttemptsAt
  <2>4. IsFiniteSet(active)
    BY FiniteSelections
  <2> QED BY <2>1, <2>2, <2>3, <2>4
<1>2. UNCHANGED Queue(l)!vars \/ Queue(l)!Next
  BY <1>0, StepQueue
<1>3. line = Queue(l)!Without(line, {})
  BY DEF Queue!Without, Line
<1>4. ASSUME a \in line[w] PROVE row[a].status = "WAITING" /\ row[a].queueOrder < row[w].queueOrder
  BY <1>1, <1>4 DEF Line, WithStatus
<1> SUFFICES a \in line[w]
  BY <1>4
<1> HIDE DEF l, active, active2, line, line2, elig, elig2
<1>5. ASSUME NEW act \in SUBSET active, NEW gone,
             LET q == Queue(l)!Without(line, gone) IN
               /\ active2 = act \cup Queue(l)!Served(act, q, elig2)
               /\ line2 = Queue(l)!Without(q, Queue(l)!Served(act, q, elig2))
      PROVE  a \in line[w]
  <2> DEFINE q == Queue(l)!Without(line, gone)
             served == Queue(l)!Served(act, q, elig2)
  <2>1. IsFiniteSet(act)
    BY <1>1, FS_Subset
  <2>2. a \in served
    BY <1>1, <1>5
  <2>3. DOMAIN line2 = DOMAIN q \ served
    BY <1>5 DEF Queue!Without
  <2>4. w \in (DOMAIN q \cap elig2) \ served
    BY <1>1, <2>3
  <2>5. \A b \in served, v \in (DOMAIN q \cap elig2) \ served : b \in line[v]
    BY <1>0, <2>1, ServedCameFirst DEF line
  <2> QED BY <2>2, <2>4, <2>5
<1>6. ASSUME Queue(l)!Serve(active, line, elig2) PROVE a \in line[w]
  <2>1. LET q == Queue(l)!Without(line, {}) IN
          /\ active2 = active \cup Queue(l)!Served(active, q, elig2)
          /\ line2 = Queue(l)!Without(q, Queue(l)!Served(active, q, elig2))
    BY <1>3, <1>6 DEF Queue!Serve, active2, line2
  <2> QED BY <1>5, <2>1
<1>7. ASSUME NEW gone, Queue(l)!Leave(gone) PROVE a \in line[w]
  <2>1. \/ Queue(l)!Serve(active \ gone, Queue(l)!Without(line, gone), elig2)
        \/ active2 = active \ gone
    BY <1>7 DEF Queue!Leave, active, line, elig2, active2
  <2>2. Queue(l)!Serve(active \ gone, Queue(l)!Without(line, gone), elig2)
    BY <1>1, <2>1
  <2>3. LET q == Queue(l)!Without(line, gone) IN
          /\ active2 = (active \ gone) \cup Queue(l)!Served(active \ gone, q, elig2)
          /\ line2 = Queue(l)!Without(q, Queue(l)!Served(active \ gone, q, elig2))
    BY <2>2 DEF Queue!Serve, active2, line2
  <2>4. active \ gone \in SUBSET active
    OBVIOUS
  <2> QED BY <1>5, <2>3, <2>4
<1>8. ASSUME NEW c, Queue(l)!Enter(c) PROVE a \in line[w]
  <2> DEFINE served == Queue(l)!Served(active, line, elig)
             left == Queue(l)!Without(line, served)
  <2>1. /\ elig2 = elig /\ c \notin DOMAIN line
        /\ IF Cardinality(active \cup served) < Limit
           THEN active2 = active \cup served \cup {c} /\ line2 = left
           ELSE active2 = active \cup served /\ line2 = Queue(l)!Joined(left, c)
    BY <1>8, QueueCounts DEF Queue!Enter, Queue!Waiting, active, line, elig, elig2, active2, line2
  <2>2. DOMAIN left = DOMAIN line \ served /\ DOMAIN Queue(l)!Joined(left, c) = DOMAIN left \cup {c}
    BY DEF Queue!Without, Queue!Joined
  <2>3. w \in (DOMAIN line \cap elig) \ served
    BY <1>1, <2>1, <2>2
  <2>4. Cardinality(active \cup served) >= Limit
    BY <1>0, <2>3, ServedFillTheSlots DEF active, line
  <2>5. active2 = active \cup served
    <3>1. Cardinality(active \cup served) \in Nat
      <4>1. served \in SUBSET DOMAIN line
        BY DEF Queue!Served
      <4>2. IsFiniteSet(DOMAIN line)
        BY <1>1, FiniteSelections
      <4> HIDE DEF served
      <4>3. IsFiniteSet(served)
        BY <4>1, <4>2, FS_Subset
      <4>4. IsFiniteSet(active \cup served)
        BY <1>1, <4>3, FS_Union
      <4> QED BY <4>4, FS_CardinalityType
    <3> HIDE DEF served, left
    <3> QED BY <2>1, <2>4, <3>1, LimitAssumption
  <2>6. a \in served
    BY <1>1, <2>5
  <2>7. \A b \in served, v \in (DOMAIN line \cap elig) \ served : b \in line[v]
    <3>1. LET q == Queue(l)!Without(line, {}) IN
            \A b \in Queue(l)!Served(active, q, elig),
               v \in (DOMAIN q \cap elig) \ Queue(l)!Served(active, q, elig) : b \in line[v]
      BY <1>0, <1>1, ServedCameFirst DEF line
    <3> QED BY <1>3, <3>1
  <2> QED BY <2>3, <2>6, <2>7
<1>9. CASE Queue(l)!Reassess
  <2>1. active2 = active \/ \E gone : Queue(l)!Leave(gone)
    BY <1>9 DEF Queue!Reassess, active, active2
  <2> QED BY <1>1, <1>7, <2>1
<1>10. CASE Queue(l)!Exit
  BY <1>7, <1>10 DEF Queue!Exit
<1>11. CASE Queue(l)!Open
  <2>1. Queue(l)!Serve(active, line, elig) /\ elig2 = elig
    BY <1>11 DEF Queue!Open, active, line, elig, elig2
  <2> QED BY <1>6, <2>1
<1>12. CASE Queue(l)!Catch
  <2>1. Queue(l)!Serve(active, line, elig) /\ elig2 = elig
    BY <1>12 DEF Queue!Catch, active, line, elig, elig2
  <2> QED BY <1>6, <2>1
<1>13. CASE Queue(l)!Close
  <2>1. active2 = active \/ active2 = {}
    BY <1>13 DEF Queue!Close, active, active2
  <2> QED BY <1>1, <2>1
<1>14. CASE UNCHANGED Queue(l)!vars
  <2>1. active2 = active
    BY <1>14 DEF Queue!vars, active, active2
  <2> QED BY <1>1, <2>1
<1> QED BY <1>2, <1>8, <1>9, <1>10, <1>11, <1>12, <1>13, <1>14 DEF Queue!Next

\* A slot never passes over an eligible application that waits.
THEOREM NobodyOvertakes == Spec => NobodyIsOvertaken
<1> DEFINE Overtakes ==
      \A a, w \in Attempts :
        /\ ListingOf[a] = ListingOf[w]
        /\ row[a].status # "ACTIVE" /\ row'[a].status = "ACTIVE"
        /\ row[w].status = "WAITING" /\ row'[w].status = "WAITING"
        /\ Eligible(profile', criteria', w)
        => row[a].status = "WAITING" /\ row[a].queueOrder < row[w].queueOrder
<1>1. IInv /\ [Next]_vars => [Overtakes]_vars
  BY StepOvertakesNobody
<1> QED BY <1>1, InitInv, StepInv, PTL DEF Spec, NobodyIsOvertaken

-----------------------------------------------------------------------------
(***************************************************************************)
(* The paging loop.  FirstOf is a front of the queue: it is downward       *)
(* closed, has as many rows as asked for or all, and splits wherever a     *)
(* page ends.  So a page and then the right rows behind it are the right   *)
(* rows (TurnAims); the function Aim is therefore one the loop's recursion *)
(* allows, and from the last cursor that the loop would miss it, the only  *)
(* one.                                                                    *)
(***************************************************************************)
\* Rows that the queue puts in an order.
Ordered(rows) ==
  /\ rows \in SUBSET Attempts
  /\ \A w \in rows : Order(w) \in Nat
  /\ \A v, w \in rows : Order(v) = Order(w) => v = w

Before(rows, w) == {v \in rows : Order(v) < Order(w)}

\* Ordered rows are finitely many, and so are those before one, which none of them is.
LEMMA BeforeIsFinite ==
  ASSUME NEW rows, Ordered(rows), NEW w
  PROVE  /\ IsFiniteSet(rows) /\ Cardinality(rows) \in Nat
         /\ Before(rows, w) \in SUBSET rows
         /\ IsFiniteSet(Before(rows, w)) /\ Cardinality(Before(rows, w)) \in Nat
<1>1. IsFiniteSet(rows) /\ Before(rows, w) \in SUBSET rows
  BY AttemptsAssumption, FS_Subset DEF Ordered, Before
<1>2. IsFiniteSet(Before(rows, w))
  BY <1>1, FS_Subset
<1> QED BY <1>1, <1>2, FS_CardinalityType

\* The first rows are those that fewer rows are before.
LEMMA FirstOfCounts ==
  ASSUME NEW rows, NEW n
  PROVE  /\ FirstOf(rows, n) \in SUBSET rows
         /\ \A w \in rows : w \in FirstOf(rows, n) <=> Cardinality(Before(rows, w)) < n
BY DEF FirstOf, Before

\* Whatever is before one of the first rows is one of them.
LEMMA FirstOfIsDownward ==
  ASSUME NEW rows, Ordered(rows), NEW n \in Nat,
         NEW w \in FirstOf(rows, n), NEW v \in rows, Order(v) < Order(w)
  PROVE  v \in FirstOf(rows, n)
<1>1. w \in rows /\ Cardinality(Before(rows, w)) < n
  BY FirstOfCounts
<1>2. Before(rows, v) \in SUBSET Before(rows, w)
  BY <1>1 DEF Before, Ordered
<1>3. Cardinality(Before(rows, v)) <= Cardinality(Before(rows, w))
  BY <1>2, BeforeIsFinite, FS_Subset
<1>4. Cardinality(Before(rows, v)) \in Nat /\ Cardinality(Before(rows, w)) \in Nat
  BY BeforeIsFinite
<1>5. Cardinality(Before(rows, v)) < n
  BY <1>1, <1>3, <1>4
<1> QED BY <1>5, FirstOfCounts

\* The first n rows are at most n.
LEMMA FirstOfFits ==
  ASSUME NEW rows, Ordered(rows), NEW n \in Nat
  PROVE  /\ IsFiniteSet(FirstOf(rows, n))
         /\ Cardinality(FirstOf(rows, n)) \in 0..n
<1> DEFINE first == FirstOf(rows, n)
           D == {Order(w) : w \in first}
           f == [w \in first |-> Order(w)]
<1>1. first \in SUBSET rows
  BY FirstOfCounts
<1>2. IsFiniteSet(first) /\ Cardinality(first) \in Nat
  BY <1>1, BeforeIsFinite, FS_Subset, FS_CardinalityType
<1>3. CASE first = {}
  BY <1>3, FS_EmptySet
<1>4. CASE first # {}
  <2>1. PICK w \in first : \A v \in first : Order(v) <= Order(w)
    <3>1. f \in Surjection(first, D)
      BY DEF Surjection
    <3>2. D \in SUBSET Nat /\ D # {}
      BY <1>1, <1>4 DEF Ordered
    <3>3. PICK d \in D : \A e \in D : e <= d
      <4> HIDE DEF D, f
      <4>1. IsFiniteSet(D)
        <5> HIDE DEF first
        <5> QED BY <1>2, <3>1, FS_Surjection
      <4> QED BY <3>2, <4>1, GreatestElement
    <3> QED BY <3>3
  <2>2. first \in SUBSET (Before(rows, w) \cup {w})
    <3>1. ASSUME NEW v \in first, v # w PROVE v \in Before(rows, w)
      <4>1. v \in rows /\ w \in rows /\ Order(v) <= Order(w)
        BY <1>1, <2>1
      <4>2. Order(v) # Order(w) /\ Order(v) \in Nat /\ Order(w) \in Nat
        BY <3>1, <4>1 DEF Ordered
      <4> QED BY <4>1, <4>2 DEF Before
    <3> QED BY <3>1
  <2>3. /\ IsFiniteSet(Before(rows, w)) /\ Cardinality(Before(rows, w)) \in Nat
        /\ Cardinality(Before(rows, w)) < n
    BY <1>1, BeforeIsFinite, FirstOfCounts
  <2>4. /\ IsFiniteSet(Before(rows, w) \cup {w})
        /\ Cardinality(Before(rows, w) \cup {w}) <= Cardinality(Before(rows, w)) + 1
    BY <2>3, FS_AddElement
  <2>5. Cardinality(Before(rows, w) \cup {w}) \in Nat
    BY <2>4, FS_CardinalityType
  <2>6. Cardinality(first) <= Cardinality(Before(rows, w) \cup {w})
    <3> HIDE DEF first
    <3> QED BY <2>2, <2>4, FS_Subset
  <2>7. Cardinality(first) <= n
    BY <1>2, <2>3, <2>4, <2>5, <2>6
  <2> QED BY <1>2, <2>7
<1> QED BY <1>3, <1>4

\* If the first n rows are fewer, they are all.
LEMMA FirstOfFills ==
  ASSUME NEW rows, Ordered(rows), NEW n \in Nat, Cardinality(FirstOf(rows, n)) < n
  PROVE  FirstOf(rows, n) = rows
<1> DEFINE left == rows \ FirstOf(rows, n)
<1>1. CASE left = {}
  BY <1>1, FirstOfCounts
<1>2. CASE left # {}
  <2>1. PICK w \in left : \A v \in left : Order(w) <= Order(v)
    <3> DEFINE D == {Order(w) : w \in left}
    <3>1. D \in SUBSET Nat /\ D # {}
      BY <1>2 DEF Ordered
    <3>2. PICK d \in D : \A e \in D : d <= e
      <4> HIDE DEF D
      <4> QED BY <3>1, LeastElement
    <3> QED BY <3>2
  <2>2. Before(rows, w) \in SUBSET FirstOf(rows, n)
    <3>1. ASSUME NEW v \in Before(rows, w), v \notin FirstOf(rows, n) PROVE FALSE
      <4>1. v \in left /\ v \in rows /\ w \in rows /\ Order(v) < Order(w)
        BY <3>1 DEF Before
      <4>2. Order(w) <= Order(v) /\ Order(v) \in Nat /\ Order(w) \in Nat
        BY <2>1, <4>1 DEF Ordered
      <4> QED BY <4>1, <4>2
    <3> QED BY <3>1
  <2>3. Cardinality(Before(rows, w)) <= Cardinality(FirstOf(rows, n))
    BY <2>2, FirstOfFits, FS_Subset
  <2>4. ~ (Cardinality(Before(rows, w)) < n)
    BY FirstOfCounts
  <2>5. Cardinality(Before(rows, w)) \in Nat /\ Cardinality(FirstOf(rows, n)) \in Nat
    BY BeforeIsFinite, FirstOfFits
  <2> QED BY <2>3, <2>4, <2>5
<1> QED BY <1>1, <1>2

\* The first n rows, when some are read first: the first n of these, and then of the
\* others as many as are missing.
LEMMA FirstOfSplits ==
  ASSUME NEW rows, Ordered(rows), NEW n \in Nat,
         NEW head \in SUBSET rows,
         \A w \in head, v \in rows : Order(v) < Order(w) => v \in head
  PROVE  FirstOf(rows, n) =
           FirstOf(head, n) \cup FirstOf(rows \ head, n - Cardinality(FirstOf(head, n)))
<1> DEFINE tail == rows \ head
           m == Cardinality(FirstOf(head, n))
<1>1. Ordered(head) /\ Ordered(tail)
  BY DEF Ordered
<1>2. m \in 0..n
  BY <1>1, FirstOfFits
<1>3. ASSUME NEW w \in head PROVE w \in FirstOf(rows, n) <=> w \in FirstOf(head, n)
  <2>1. Before(rows, w) = Before(head, w)
    BY DEF Before
  <2> QED BY <2>1, FirstOfCounts
<1>4. ASSUME NEW w \in tail PROVE w \in FirstOf(rows, n) <=> w \in FirstOf(tail, n - m)
  <2>1. Before(rows, w) = head \cup Before(tail, w)
    <3>1. ASSUME NEW v \in head PROVE Order(v) < Order(w)
      <4>1. v \in rows /\ w \in rows /\ v # w /\ ~ (Order(w) < Order(v))
        BY <1>4
      <4> QED BY <4>1 DEF Ordered
    <3> QED BY <3>1 DEF Before
  <2>2. /\ IsFiniteSet(head) /\ Cardinality(head) \in Nat
        /\ IsFiniteSet(Before(tail, w)) /\ Cardinality(Before(tail, w)) \in Nat
        /\ Before(tail, w) \in SUBSET tail
    BY <1>1, BeforeIsFinite
  <2>3. Cardinality(Before(rows, w)) = Cardinality(head) + Cardinality(Before(tail, w))
    <3>1. head \cap Before(tail, w) = {}
      BY <2>2
    <3>2. Cardinality(head \cap Before(tail, w)) = 0
      BY <3>1, FS_EmptySet
    <3>3. Cardinality(head \cup Before(tail, w)) =
            Cardinality(head) + Cardinality(Before(tail, w)) - Cardinality(head \cap Before(tail, w))
      BY <2>2, FS_Union
    <3> QED BY <2>1, <2>2, <3>2, <3>3
  <2>4. /\ w \in FirstOf(rows, n) <=> Cardinality(Before(rows, w)) < n
        /\ w \in FirstOf(tail, n - m) <=> Cardinality(Before(tail, w)) < n - m
    BY FirstOfCounts
  <2>5. CASE m < n
    <3>1. Cardinality(head) = m
      BY <1>1, <2>5, FirstOfFills
    <3> QED BY <1>2, <2>2, <2>3, <2>4, <3>1
  <2>6. CASE m = n
    <3>1. m <= Cardinality(head)
      BY <1>1, <2>2, FirstOfCounts, FS_Subset
    <3> QED BY <1>2, <2>2, <2>3, <2>4, <2>6, <3>1
  <2> QED BY <1>2, <2>5, <2>6
<1>5. /\ FirstOf(rows, n) \in SUBSET rows
      /\ FirstOf(head, n) \in SUBSET head
      /\ FirstOf(tail, n - m) \in SUBSET tail
  BY FirstOfCounts
<1> HIDE DEF m
<1> QED BY <1>3, <1>4, <1>5 DEF m

\* What the loop relies on: rows with places of their own, all from the sequence.
WaitingOrdered == row \in Table /\ nextOrder \in Nat /\ OrdersIssued

\* The eligible among some rows.
Fit(rows) == {w \in rows : Eligible(profile, criteria, w)}

\* The waiting rows after a cursor are ordered, and so are some of them.
LEMMA RestOrdered ==
  ASSUME WaitingOrdered, NEW l, NEW cursor, NEW rows \in SUBSET Rest(l, cursor)
  PROVE  /\ Ordered(rows) /\ Ordered(Fit(rows))
         /\ \A w \in rows : Order(w) > cursor /\ Order(w) < nextOrder /\ row[w].status = "WAITING"
<1>1. \A w \in rows : /\ w \in Attempts /\ row[w].status = "WAITING"
                      /\ Order(w) > cursor /\ Order(w) = row[w].queueOrder
  BY DEF Rest, WithStatus, Order
<1>2. \A w \in rows : Order(w) \in Nat /\ Order(w) < nextOrder
  BY <1>1, RowColumns DEF WaitingOrdered, OrdersIssued, Table
<1>3. \A v, w \in rows : Order(v) = Order(w) => v = w
  BY <1>1 DEF WaitingOrdered, OrdersIssued, OrdersDistinct
<1>4. Fit(rows) \in SUBSET rows
  BY DEF Fit
<1> QED BY <1>1, <1>2, <1>3, <1>4 DEF Ordered

\* A page takes its rows from the front of the rest.
LEMMA PageIsFront ==
  ASSUME WaitingOrdered, NEW l, NEW cursor
  PROVE  /\ Page(l, cursor) \in SUBSET Rest(l, cursor)
         /\ IsFiniteSet(Page(l, cursor))
         /\ Cardinality(Page(l, cursor)) \in 0..BatchSize
         /\ Cardinality(Page(l, cursor)) < BatchSize => Page(l, cursor) = Rest(l, cursor)
         /\ \A w \in Page(l, cursor), v \in Rest(l, cursor) :
              Order(v) < Order(w) => v \in Page(l, cursor)
<1>1. Ordered(Rest(l, cursor)) /\ BatchSize \in Nat
  BY RestOrdered, BatchAssumption
<1> QED BY <1>1, FirstOfCounts, FirstOfFits, FirstOfFills, FirstOfIsDownward DEF Page

\* What a page serves, and what is left for the rows behind it.
LEMMA PageServes ==
  ASSUME WaitingOrdered, NEW l, NEW cursor, NEW capacity \in 0..Limit
  PROVE  LET page == Page(l, cursor)
             served == ServedOf(page, capacity)
         IN  /\ Cardinality(served) \in 0..capacity
             /\ served \in SUBSET page
             /\ ServedOf(Rest(l, cursor), capacity) =
                  served \cup ServedOf(Rest(l, cursor) \ page, capacity - Cardinality(served))
<1> DEFINE page == Page(l, cursor)
           rest == Rest(l, cursor)
           served == ServedOf(page, capacity)
<1>1. /\ page \in SUBSET rest
      /\ \A w \in page, v \in rest : Order(v) < Order(w) => v \in page
  BY PageIsFront
<1>2. Ordered(Fit(rest)) /\ Ordered(Fit(page)) /\ capacity \in Nat
  BY <1>1, RestOrdered, LimitAssumption
<1>3. /\ served = FirstOf(Fit(page), capacity)
      /\ ServedOf(rest, capacity) = FirstOf(Fit(rest), capacity)
      /\ \A n : ServedOf(rest \ page, n) = FirstOf(Fit(rest \ page), n)
  BY DEF ServedOf, Fit
<1>4. /\ Fit(page) \in SUBSET Fit(rest)
      /\ \A w \in Fit(page), v \in Fit(rest) : Order(v) < Order(w) => v \in Fit(page)
      /\ Fit(rest) \ Fit(page) = Fit(rest \ page)
      /\ Fit(page) \in SUBSET page
  BY <1>1 DEF Fit
<1> HIDE DEF page, rest, served
<1>5. FirstOf(Fit(rest), capacity) =
        FirstOf(Fit(page), capacity)
          \cup FirstOf(Fit(rest) \ Fit(page), capacity - Cardinality(FirstOf(Fit(page), capacity)))
  BY <1>2, <1>4, FirstOfSplits
<1>6. Cardinality(served) \in 0..capacity /\ served \in SUBSET page
  BY <1>2, <1>3, <1>4, FirstOfFits, FirstOfCounts
<1> QED BY <1>3, <1>4, <1>5, <1>6 DEF page, rest, served

\* The next cursor is behind the page, and leaves what the page left.
LEMMA CursorAdvances ==
  ASSUME WaitingOrdered, NEW l, NEW cursor \in 0..nextOrder, Page(l, cursor) # {}
  PROVE  /\ LastOrder(Page(l, cursor)) \in (cursor + 1)..nextOrder
         /\ Rest(l, LastOrder(Page(l, cursor))) = Rest(l, cursor) \ Page(l, cursor)
<1> DEFINE page == Page(l, cursor)
           rest == Rest(l, cursor)
           D == {Order(w) : w \in page}
           f == [w \in page |-> Order(w)]
           last == LastOrder(page)
<1>1. /\ page \in SUBSET rest /\ IsFiniteSet(page)
      /\ \A w \in page, v \in rest : Order(v) < Order(w) => v \in page
  BY PageIsFront
<1>2. /\ \A w \in rest : Order(w) \in Nat /\ Order(w) > cursor /\ Order(w) < nextOrder
      /\ \A v, w \in rest : Order(v) = Order(w) => v = w
      /\ nextOrder \in Nat
  <2>1. Ordered(rest) /\ \A w \in rest : Order(w) > cursor /\ Order(w) < nextOrder
    BY RestOrdered
  <2> QED BY <2>1 DEF Ordered, WaitingOrdered
<1>3. last \in D /\ \A w \in page : Order(w) <= last
  <2>1. f \in Surjection(page, D)
    BY DEF Surjection
  <2>2. D \in SUBSET Nat /\ D # {}
    BY <1>1, <1>2
  <2>3. \E d \in D : \A e \in D : e <= d
    <3> HIDE DEF D, f, page
    <3>1. IsFiniteSet(D)
      BY <1>1, <2>1, FS_Surjection
    <3> QED BY <2>2, <3>1, GreatestElement
  <2>4. \E d \in D : \A w \in page : Order(w) <= d
    BY <2>3
  <2>5. last = CHOOSE o \in D : \A w \in page : Order(w) <= o
    BY DEF LastOrder
  <2> HIDE DEF D, page, last
  <2> QED BY <2>4, <2>5
<1>4. PICK m \in page : last = Order(m)
  BY <1>3
<1> HIDE DEF last, D, page
<1>5. last \in (cursor + 1)..nextOrder
  BY <1>1, <1>2, <1>4
<1>6. ASSUME NEW w \in rest PROVE w \in page <=> ~ (Order(w) > last)
  <2>1. w \in page => ~ (Order(w) > last)
    BY <1>1, <1>2, <1>3, <1>4
  <2>2. ASSUME ~ (Order(w) > last) PROVE w \in page
    <3>1. Order(w) < Order(m) \/ Order(w) = Order(m)
      BY <1>1, <1>2, <1>4, <2>2
    <3> QED BY <1>1, <1>2, <1>4, <3>1
  <2> QED BY <2>1, <2>2
<1>7. \A w : w \in Rest(l, last) <=> w \in WithStatus(row, l, "WAITING") /\ Order(w) > last
  BY DEF Rest
<1>8. \A w : w \in rest <=> w \in WithStatus(row, l, "WAITING") /\ Order(w) > cursor
  BY DEF Rest
<1>9. \A w \in WithStatus(row, l, "WAITING") : Order(w) \in Nat
  BY RowColumns DEF WaitingOrdered, WithStatus, Table, Order
<1>10. \A w : w \in Rest(l, last) <=> w \in rest /\ w \notin page
  <2>1. \A w \in WithStatus(row, l, "WAITING") : Order(w) > last => Order(w) > cursor
    BY <1>5, <1>9
  <2> QED BY <1>6, <1>7, <1>8, <2>1
<1> QED BY <1>5, <1>10 DEF last, page

\* Where the loop should get, from a cursor and with the slots that are free there.
Aim(l) ==
  [cursor \in 0..nextOrder |->
     [capacity \in 0..Limit |->
        [promoted |-> ServedOf(Rest(l, cursor), capacity),
         remaining |-> capacity - Cardinality(ServedOf(Rest(l, cursor), capacity))]]]

\* Without slots nobody is served.
LEMMA NobodyServed ==
  ASSUME WaitingOrdered, NEW l, NEW cursor, NEW rows \in SUBSET Rest(l, cursor)
  PROVE  ServedOf(rows, 0) = {}
<1>1. Ordered(Fit(rows))
  BY RestOrdered
<1>2. \A w : Cardinality(Before(Fit(rows), w)) \in Nat
  BY <1>1, BeforeIsFinite
<1>3. FirstOf(Fit(rows), 0) = {}
  BY <1>2, FirstOfCounts
<1>4. ServedOf(rows, 0) = FirstOf(Fit(rows), 0)
  BY DEF ServedOf, Fit
<1> QED BY <1>3, <1>4

\* A page and where the loop should get from behind it are where it should get from there.
LEMMA TurnAims ==
  ASSUME WaitingOrdered, NEW l, NEW cursor \in 0..nextOrder, NEW next,
         \A o \in (cursor + 1)..nextOrder : next[o] = Aim(l)[o]
  PROVE  Turn(l, cursor, next) = Aim(l)[cursor]
<1> DEFINE page == Page(l, cursor)
           last == LastOrder(page)
           served(c) == ServedOf(page, c)
           left(c) == c - Cardinality(served(c))
           goesOn(c) == c > 0 /\ ContinuesAfter(page, served(c), left(c))
           aim(o, c) == ServedOf(Rest(l, o), c)
<1>1. Turn(l, cursor, next) =
        [c \in 0..Limit |->
           IF goesOn(c)
           THEN [promoted |-> served(c) \cup next[last][left(c)].promoted,
                 remaining |-> next[last][left(c)].remaining]
           ELSE [promoted |-> served(c), remaining |-> left(c)]]
  BY DEF Turn
<1>2. \A o \in 0..nextOrder :
        Aim(l)[o] = [c \in 0..Limit |->
                       [promoted |-> aim(o, c), remaining |-> c - Cardinality(aim(o, c))]]
  BY DEF Aim
<1>3. ASSUME NEW c \in 0..Limit
      PROVE  /\ left(c) \in 0..c /\ left(c) \in 0..Limit /\ served(c) \in SUBSET page
             /\ Cardinality(served(c)) \in Nat
             /\ aim(cursor, c) = served(c) \cup ServedOf(Rest(l, cursor) \ page, left(c))
  <2>1. /\ Cardinality(served(c)) \in 0..c
        /\ served(c) \in SUBSET page
        /\ aim(cursor, c) = served(c) \cup ServedOf(Rest(l, cursor) \ page, left(c))
    BY PageServes
  <2> HIDE DEF served
  <2> QED BY <2>1, LimitAssumption
<1>4. nextOrder \in Nat /\ BatchSize \in Nat \ {0}
  BY BatchAssumption DEF WaitingOrdered
<1>5. ASSUME NEW c \in 0..Limit, ~goesOn(c)
      PROVE  aim(cursor, c) = served(c)
  <2>1. CASE left(c) = 0
    <3>1. ServedOf(Rest(l, cursor) \ page, 0) = {}
      BY NobodyServed
    <3> HIDE DEF served, left, page, aim
    <3> QED BY <1>3, <2>1, <3>1
  <2>2. CASE c = 0
    <3>1. left(c) = 0
      <4> HIDE DEF left
      <4> QED BY <1>3, <2>2
    <3> QED BY <2>1, <3>1
  <2>3. CASE Cardinality(page) # BatchSize
    <3>1. Cardinality(page) \in 0..BatchSize
      BY PageIsFront
    <3>2. Cardinality(page) < BatchSize
      <4> HIDE DEF page
      <4> QED BY <1>4, <2>3, <3>1
    <3>3. page = Rest(l, cursor)
      BY <3>2, PageIsFront
    <3> QED BY <3>3
  <2>4. left(c) = 0 \/ c = 0 \/ Cardinality(page) # BatchSize
    <3>1. ~ (c > 0) \/ Cardinality(page) # BatchSize \/ ~ (left(c) > 0)
      BY <1>5 DEF ContinuesAfter
    <3> HIDE DEF left, page
    <3> QED BY <1>3, <3>1, LimitAssumption
  <2> QED BY <2>1, <2>2, <2>3, <2>4
<1>6. ASSUME NEW c \in 0..Limit, goesOn(c)
      PROVE  /\ last \in (cursor + 1)..nextOrder
             /\ aim(cursor, c) = served(c) \cup aim(last, left(c))
             /\ c - Cardinality(aim(cursor, c)) = left(c) - Cardinality(aim(last, left(c)))
  <2>1. page # {}
    <3>1. Cardinality(page) = BatchSize
      BY <1>6 DEF ContinuesAfter
    <3> HIDE DEF page
    <3> QED BY <1>4, <3>1, FS_EmptySet
  <2>2. last \in (cursor + 1)..nextOrder /\ Rest(l, last) = Rest(l, cursor) \ page
    BY <2>1, CursorAdvances
  <2>3. aim(cursor, c) = served(c) \cup aim(last, left(c))
    BY <1>3, <2>2
  <2>4. served(c) \cap aim(last, left(c)) = {}
    <3>1. aim(last, left(c)) \in SUBSET Rest(l, last)
      BY FirstOfCounts DEF ServedOf
    <3> HIDE DEF served, page, aim, last
    <3> QED BY <1>3, <2>2, <3>1
  <2>5. /\ IsFiniteSet(served(c)) /\ IsFiniteSet(aim(last, left(c)))
        /\ Cardinality(aim(last, left(c))) \in Nat
    <3>1. served(c) \in SUBSET Attempts /\ aim(last, left(c)) \in SUBSET Attempts
      BY DEF ServedOf, FirstOf, Page, Rest, WithStatus
    <3> HIDE DEF served, aim
    <3> QED BY <3>1, AttemptsAssumption, FS_Subset, FS_CardinalityType
  <2>6. Cardinality(aim(cursor, c)) = Cardinality(served(c)) + Cardinality(aim(last, left(c)))
    <3> HIDE DEF served, aim, left, last
    <3>1. Cardinality(served(c) \cap aim(last, left(c))) = 0
      BY <2>4, FS_EmptySet
    <3>2. Cardinality(served(c) \cup aim(last, left(c))) =
            Cardinality(served(c)) + Cardinality(aim(last, left(c)))
              - Cardinality(served(c) \cap aim(last, left(c)))
      BY <2>5, FS_Union
    <3> QED BY <1>3, <2>3, <2>5, <3>1, <3>2
  <2>7. c - Cardinality(aim(cursor, c)) = left(c) - Cardinality(aim(last, left(c)))
    <3>1. left(c) = c - Cardinality(served(c)) /\ Cardinality(served(c)) \in Nat
      BY <1>3
    <3> HIDE DEF served, aim, left, last
    <3> QED BY <2>5, <2>6, <3>1
  <2> QED BY <2>2, <2>3, <2>7
<1>7. ASSUME NEW c \in 0..Limit
      PROVE  Turn(l, cursor, next)[c] = Aim(l)[cursor][c]
  <2>1. Aim(l)[cursor][c] =
          [promoted |-> aim(cursor, c), remaining |-> c - Cardinality(aim(cursor, c))]
    BY <1>2
  <2>2. CASE ~goesOn(c)
    <3>1. Turn(l, cursor, next)[c] = [promoted |-> served(c), remaining |-> left(c)]
      BY <1>1, <2>2
    <3> QED BY <1>5, <2>1, <2>2, <3>1
  <2>3. CASE goesOn(c)
    <3>1. Turn(l, cursor, next)[c] =
            [promoted |-> served(c) \cup next[last][left(c)].promoted,
             remaining |-> next[last][left(c)].remaining]
      BY <1>1, <2>3
    <3>2. last \in 0..nextOrder /\ next[last] = Aim(l)[last]
      <4>1. last \in (cursor + 1)..nextOrder
        BY <1>6, <2>3
      <4> HIDE DEF last
      <4> QED BY <1>4, <4>1
    <3>3. next[last][left(c)] =
            [promoted |-> aim(last, left(c)), remaining |-> left(c) - Cardinality(aim(last, left(c)))]
      <4>1. left(c) \in 0..Limit
        BY <1>3
      <4>2. Aim(l)[last] = [n \in 0..Limit |->
                              [promoted |-> aim(last, n), remaining |-> n - Cardinality(aim(last, n))]]
        BY <1>2, <3>2
      <4>3. \A n \in 0..Limit :
              Aim(l)[last][n] = [promoted |-> aim(last, n), remaining |-> n - Cardinality(aim(last, n))]
        BY <4>2
      <4> HIDE DEF last, left, aim
      <4> QED BY <3>2, <4>1, <4>3
    <3>4. /\ aim(cursor, c) = served(c) \cup aim(last, left(c))
          /\ c - Cardinality(aim(cursor, c)) = left(c) - Cardinality(aim(last, left(c)))
      BY <1>6, <2>3
    <3>5. /\ next[last][left(c)].promoted = aim(last, left(c))
          /\ next[last][left(c)].remaining = left(c) - Cardinality(aim(last, left(c)))
      BY <3>3
    <3> HIDE DEF last, left, aim, served
    <3> QED BY <2>1, <3>1, <3>4, <3>5
  <2> QED BY <2>2, <2>3
<1>8. /\ Turn(l, cursor, next) = [c \in 0..Limit |-> Turn(l, cursor, next)[c]]
      /\ Aim(l)[cursor] = [c \in 0..Limit |-> Aim(l)[cursor][c]]
  BY <1>1, <1>2
<1> QED BY <1>7, <1>8

\* The loop is what its definition says: there is such a function.
LEMMA LoopTurns ==
  ASSUME WaitingOrdered, NEW l
  PROVE  \A cursor \in 0..nextOrder : Loop(l)[cursor] = Turn(l, cursor, Loop(l))
<1>1. Aim(l) = [cursor \in 0..nextOrder |-> Turn(l, cursor, Aim(l))]
  <2>1. \A cursor \in 0..nextOrder : Turn(l, cursor, Aim(l)) = Aim(l)[cursor]
    BY TurnAims
  <2>2. Aim(l) = [cursor \in 0..nextOrder |-> Aim(l)[cursor]]
    BY DEF Aim
  <2> QED BY <2>1, <2>2
<1>2. Loop(l) = CHOOSE loop : loop = [cursor \in 0..nextOrder |-> Turn(l, cursor, loop)]
  BY DEF Loop
<1>3. Loop(l) = [cursor \in 0..nextOrder |-> Turn(l, cursor, Loop(l))]
  BY <1>1, <1>2, Zenon
<1> QED BY <1>3

\* The loop gets where it should: from the last cursor that it would not, it would.
LEMMA LoopAims ==
  ASSUME WaitingOrdered, NEW l
  PROVE  \A cursor \in 0..nextOrder : Loop(l)[cursor] = Aim(l)[cursor]
<1> DEFINE Misses == {cursor \in 0..nextOrder : Loop(l)[cursor] # Aim(l)[cursor]}
           D == {nextOrder - cursor : cursor \in Misses}
<1>1. nextOrder \in Nat
  BY DEF WaitingOrdered
<1>2. ASSUME Misses # {} PROVE FALSE
  <2>1. D \in SUBSET Nat /\ D # {}
    BY <1>1, <1>2
  <2>2. PICK d \in D : \A e \in D : d <= e
    <3> HIDE DEF D
    <3> QED BY <2>1, LeastElement
  <2>3. PICK cursor \in Misses : d = nextOrder - cursor
    BY <2>2
  <2>4. cursor \in 0..nextOrder
    OBVIOUS
  <2>5. ASSUME NEW o \in (cursor + 1)..nextOrder PROVE Loop(l)[o] = Aim(l)[o]
    <3>1. o \in 0..nextOrder /\ nextOrder - o < d
      BY <1>1, <2>3, <2>4
    <3>2. nextOrder - o \notin D
      <4>1. nextOrder - o \in Int /\ d \in Int
        BY <1>1, <2>3, <2>4, <3>1
      <4> HIDE DEF D
      <4> QED BY <2>2, <3>1, <4>1
    <3> QED BY <3>1, <3>2
  <2>6. Turn(l, cursor, Loop(l)) = Aim(l)[cursor]
    BY <2>4, <2>5, TurnAims
  <2>7. Loop(l)[cursor] = Aim(l)[cursor]
    BY <2>4, <2>6, LoopTurns
  <2> QED BY <2>3, <2>7
<1> QED BY <1>2

\* Whoever was submitted has a place in the queue.
HavePlaces == \A a \in Attempts : row[a].status # "NONE" => row[a].queueOrder > 0

LEMMA InitPlaces == Init => HavePlaces
<1> SUFFICES ASSUME Init PROVE HavePlaces
  OBVIOUS
<1>1. CASE row = [a \in Attempts |-> Unborn]
  BY <1>1 DEF Unborn, HavePlaces
<1>2. CASE \E a \in Legacy, r \in Rows : /\ row = [[b \in Attempts |-> Unborn] EXCEPT ![a] = r]
                                         /\ r.queueOrder = 1
  BY <1>2, AttemptsAssumption DEF Unborn, HavePlaces
<1>3. \A reason \in {"NONE", "NOT_SELECTED"}, date \in {NoDate, 1} :
        LegacyRow(reason, date) \in Rows /\ LegacyRow(reason, date).queueOrder = 1
  <2>1. /\ \A reason \in {"NONE", "NOT_SELECTED"} : reason \in RejectionReason
        /\ \A date \in {NoDate, 1} : date \in Nat
    BY DEF RejectionReason
  <2> QED BY <2>1, LegacyRowType
<1> QED BY <1>1, <1>2, <1>3 DEF Init

\* A place given is one of the sequence, which starts at one.
LEMMA StepPlaces == IInv /\ HavePlaces /\ [Next]_vars => HavePlaces'
<1> SUFFICES ASSUME IInv, HavePlaces, [Next]_vars PROVE HavePlaces'
  OBVIOUS
<1>1. StepShape /\ nextOrder \in Nat \ {0}
  BY StepHasShape DEF IInv, TypeOK
<1>2. ASSUME NEW b \in Attempts, Serves(b)
      PROVE  row'[b].status # "NONE" => row'[b].queueOrder > 0
  BY <1>2, ServesKeeps DEF HavePlaces
<1>3. ASSUME NEW b \in Attempts, Leaves(b)
      PROVE  row'[b].queueOrder > 0
  BY <1>3 DEF HavePlaces, Leaves, Live, LiveStatus
<1>4. ASSUME NEW b \in Attempts, Submits(b) \/ Restores(b)
      PROVE  row'[b].queueOrder > 0
  <2>1. \/ row'[b].queueOrder = nextOrder
        \/ row'[b].queueOrder = row[b].queueOrder /\ row[b].status # "NONE"
    BY <1>4 DEF Submits, Restores
  <2>2. row[b].status # "NONE" => row[b].queueOrder > 0
    BY DEF HavePlaces
  <2> QED BY <1>1, <2>1, <2>2
<1> QED BY <1>1, <1>2, <1>3, <1>4 DEF StepShape, HavePlaces

\* From the start of the queue and the slots that are free, the loop promotes whom
\* Applications says.
LEMMA LoopPromotes ==
  ASSUME IInv, HavePlaces, WithinLimit(row), NEW l \in Listings
  PROVE  LET result == Paged(l)
         IN  /\ result.promoted = Promoted(row, profile, l)
             /\ result.remaining = Slots(row, l) - Cardinality(result.promoted)
             /\ result.remaining > 0 => EligibleWaiting(row, profile, l) \subseteq result.promoted
<1> DEFINE slots == Slots(row, l)
           waiting == EligibleWaiting(row, profile, l)
<1>1. WaitingOrdered /\ 0 \in 0..nextOrder
  BY DEF IInv, TypeOK, WaitingOrdered, Table
<1>2. slots \in 0..Limit
  <2>1. /\ Cardinality(WithStatus(row, l, "ACTIVE")) \in Nat
        /\ Cardinality(WithStatus(row, l, "ACTIVE")) <= Limit
    BY FiniteSelections DEF WithinLimit
  <2> QED BY <2>1, LimitAssumption DEF Slots
<1>3. Rest(l, 0) = WithStatus(row, l, "WAITING")
  BY DEF Rest, WithStatus, HavePlaces, Order
<1>4. Fit(Rest(l, 0)) = waiting
  BY <1>3 DEF Fit, EligibleWaiting
<1>5. ServedOf(Rest(l, 0), slots) = FirstOf(waiting, slots)
  BY <1>4 DEF ServedOf, Fit
<1>6. FirstOf(waiting, slots) = Promoted(row, profile, l)
  <2>1. \A w \in waiting : ListingOf[w] = l
    BY DEF EligibleWaiting, WithStatus
  <2>2. \A w \in waiting : Before(waiting, w) = Ahead(row, profile, w)
    BY <2>1 DEF Before, Ahead, Order
  <2>3. FirstOf(waiting, slots) = {w \in waiting : Cardinality(Before(waiting, w)) < slots}
    BY DEF FirstOf, Before
  <2> HIDE DEF slots
  <2> QED BY <2>2, <2>3 DEF Promoted, slots
<1>7. Paged(l) = [promoted |-> Promoted(row, profile, l),
                  remaining |-> slots - Cardinality(Promoted(row, profile, l))]
  <2>1. Paged(l) = Aim(l)[0][slots]
    BY <1>1, LoopAims DEF Paged
  <2>2. Aim(l)[0] = [capacity \in 0..Limit |->
                       [promoted |-> ServedOf(Rest(l, 0), capacity),
                        remaining |-> capacity - Cardinality(ServedOf(Rest(l, 0), capacity))]]
    BY <1>1 DEF Aim
  <2> HIDE DEF slots
  <2> QED BY <1>2, <1>5, <1>6, <2>1, <2>2
<1>8. ASSUME slots - Cardinality(Promoted(row, profile, l)) > 0
      PROVE  waiting \subseteq Promoted(row, profile, l)
  <2>1. Ordered(waiting)
    BY <1>1, <1>4, RestOrdered
  <2>2. Cardinality(Promoted(row, profile, l)) \in Nat /\ slots \in Nat
    BY <1>2, FiniteSelections, LimitAssumption
  <2> HIDE DEF slots, waiting
  <2>3. Cardinality(FirstOf(waiting, slots)) < slots
    BY <1>6, <1>8, <2>2
  <2> QED BY <1>6, <2>1, <2>2, <2>3, FirstOfFills
<1> QED BY <1>7, <1>8

\* Read page by page, with any size of the pages, any number of slots and any rows that
\* are passed over, the queue gives the slots to exactly the first eligible rows, and
\* slots are left only when nobody eligible waits.
THEOREM PagingPromotes == Spec => []PagingPromotesTheSame
<1>1. IInv /\ HavePlaces /\ WithinLimit(row) => PagingPromotesTheSame
  BY LoopPromotes DEF PagingPromotesTheSame
<1> QED BY InitInv, StepInv, InitPlaces, StepPlaces, InitWithinLimit, StepWithinLimit, <1>1, PTL DEF Spec
-----------------------------------------------------------------------------
(***************************************************************************)
(* Eligibility: the evaluation of a profile and its translation to a query *)
(* agree, and what an assessment keeps of the profile is enough to evaluate*)
(* it again.                                                               *)
(***************************************************************************)
FactRecords ==
  [profilePresent : BOOLEAN, householdNetIncome : NumberOrNull, householdSize : NumberOrNull,
   hasPets : BooleanOrNull, isSmoker : BooleanOrNull, schufaAvailable : BooleanOrNull,
   incomeProofAvailable : BooleanOrNull]

HardOutcomes == {"FAIL", "UNKNOWN"}

\* Whatever a profile holds, its facts are known or Null.
LEMMA FactsType ==
  ASSUME NEW p \in ApplicantProfiles \cup {Null}
  PROVE  Facts(p) \in FactRecords
<1>1. CASE p = Null
  BY <1>1 DEF Facts, FactRecords, NumberOrNull, BooleanOrNull
<1>2. CASE p \in ApplicantProfiles /\ p # Null
  <2>1. /\ p.householdNetIncome \in NumberOrNull /\ p.adultsCount \in NumberOrNull
        /\ p.childrenCount \in NumberOrNull /\ p.peopleCount \in NumberOrNull
        /\ p.hasPets \in BooleanOrNull /\ p.isSmoker \in BooleanOrNull
        /\ p.schufaAvailable \in BooleanOrNull /\ p.incomeProofAvailable \in BooleanOrNull
    BY <1>2 DEF ApplicantProfiles
  <2>2. \A v \in NumberOrNull : NumberFact(v) \in NumberOrNull
    BY DEF NumberFact, NumberOrNull
  <2>3. Household(p) \in NumberOrNull
    <3>1. /\ NumberFact(p.adultsCount) \in Int \cup {Null} /\ NumberFact(p.childrenCount) \in Int \cup {Null}
          /\ NumberFact(p.peopleCount) \in Int \cup {Null}
      BY <2>1, <2>2 DEF NumberOrNull
    <3>2. NumberFact(p.adultsCount) # Null /\ NumberFact(p.childrenCount) # Null =>
            NumberFact(p.adultsCount) + NumberFact(p.childrenCount) \in Int
      BY <3>1
    <3> QED
      BY <3>1, <3>2 DEF Household, NumberOrNull
  <2>4. (IF Household(p) # Null /\ Household(p) > 0 THEN Household(p) ELSE Null) \in NumberOrNull
    BY <2>3 DEF NumberOrNull
  <2> QED
    BY <1>2, <2>1, <2>2, <2>4 DEF Facts, FactRecords
<1> QED
  BY <1>1, <1>2

\* A numeric rule stands against a listing in both forms or in neither.
LEMMA NumericAgrees ==
  ASSUME NEW bound, NEW fact, NEW within \in BOOLEAN
  PROVE  NumericOutcome(bound, fact, within) \notin HardOutcomes <=> NumericWhere(bound, fact, within)
BY DEF NumericOutcome, NumericWhere, HardOutcomes

\* And so does a policy.
LEMMA PolicyAgrees ==
  ASSUME NEW policy \in Policies \cup {Null}, NEW fact \in BooleanOrNull
  PROVE  PolicyOutcome(policy, fact) \notin HardOutcomes <=> PolicyWhere(policy, fact)
BY NullAssumption DEF PolicyOutcome, PolicyWhere, HardOutcomes, Policies, BooleanOrNull

\* canApply is that no check fails or lacks its fact.
LEMMA AppliesUnlessHard ==
  ASSUME NEW checks
  PROVE  Result(checks) \in {"MATCH", "MATCH_WITH_OBSERVATIONS"}
           <=> \A k \in DOMAIN checks : checks[k] \notin HardOutcomes
<1>1. With(checks, "FAIL") = {} /\ With(checks, "UNKNOWN") = {}
        <=> \A k \in DOMAIN checks : checks[k] \notin HardOutcomes
  BY DEF With, HardOutcomes
<1> QED
  BY <1>1 DEF Result

\* A listing is among those the query finds for a profile exactly when the profile
\* may apply to it: discovery neither hides a flat the applicant could have nor shows
\* one that would be refused.
THEOREM DiscoveryMatchesEvaluation ==
  \A c \in ListingCriteria, p \in ApplicantProfiles \cup {Null} : HardMatch(c, p) <=> CanApply(c, p)
<1> SUFFICES ASSUME NEW c \in ListingCriteria, NEW p \in ApplicantProfiles \cup {Null}
             PROVE  HardMatch(c, p) <=> CanApply(c, p)
  OBVIOUS
<1> DEFINE f == Facts(p)
<1>1. f \in FactRecords
  BY FactsType
<1> HIDE DEF f
<1>2. /\ c.petsPolicy \in Policies \cup {Null} /\ c.smokingPolicy \in Policies \cup {Null}
      /\ f.hasPets \in BooleanOrNull /\ f.isSmoker \in BooleanOrNull
  BY <1>1 DEF ListingCriteria, FactRecords
<1>3. Income(c, f) \in BOOLEAN /\ Size(c, f) \in BOOLEAN
  BY DEF Income, Size
<1>4. (\A k \in DOMAIN Checks(c, f) : Checks(c, f)[k] \notin HardOutcomes)
        <=> /\ f.profilePresent
            /\ NumericOutcome(c.minimumHouseholdNetIncome, f.householdNetIncome, Income(c, f)) \notin HardOutcomes
            /\ NumericOutcome(c.suitableForPeopleCount, f.householdSize, Size(c, f)) \notin HardOutcomes
            /\ PolicyOutcome(c.petsPolicy, f.hasPets) \notin HardOutcomes
            /\ PolicyOutcome(c.smokingPolicy, f.isSmoker) \notin HardOutcomes
  BY <1>1 DEF Checks, DeclarationOutcome, HardOutcomes, FactRecords
<1>5. MatchedBy(c, f) <=> \A k \in DOMAIN Checks(c, f) : Checks(c, f)[k] \notin HardOutcomes
  BY <1>2, <1>3, <1>4, NumericAgrees, PolicyAgrees DEF MatchedBy
<1> QED
  BY <1>5, AppliesUnlessHard DEF HardMatch, CanApply, f

\* The facts an assessment keeps give the same checks again: nothing a configured
\* rule looked at is dropped.
THEOREM AssessmentKeepsEnough ==
  \A c \in ListingCriteria, p \in ApplicantProfiles \cup {Null} :
    Checks(c, Used(c, Facts(p))) = Checks(c, Facts(p))
<1> SUFFICES ASSUME NEW c \in ListingCriteria, NEW p \in ApplicantProfiles \cup {Null}
             PROVE  Checks(c, Used(c, Facts(p))) = Checks(c, Facts(p))
  OBVIOUS
<1> DEFINE f == Facts(p)
           u == Used(c, f)
<1>1. f \in FactRecords
  BY FactsType
<1> HIDE DEF f
<1>2. /\ u.profilePresent = f.profilePresent
      /\ c.minimumHouseholdNetIncome # Null => u.householdNetIncome = f.householdNetIncome
      /\ c.suitableForPeopleCount # Null => u.householdSize = f.householdSize
      /\ c.petsPolicy \in {"NOT_ALLOWED", "BY_ARRANGEMENT"} => u.hasPets = f.hasPets
      /\ c.smokingPolicy \in {"NOT_ALLOWED", "BY_ARRANGEMENT"} => u.isSmoker = f.isSmoker
  BY <1>1 DEF Used, UsedIf, FactRecords
<1> HIDE DEF u
<1>3. NumericOutcome(c.minimumHouseholdNetIncome, u.householdNetIncome, Income(c, u))
        = NumericOutcome(c.minimumHouseholdNetIncome, f.householdNetIncome, Income(c, f))
  BY <1>2 DEF NumericOutcome, Income
<1>4. NumericOutcome(c.suitableForPeopleCount, u.householdSize, Size(c, u))
        = NumericOutcome(c.suitableForPeopleCount, f.householdSize, Size(c, f))
  BY <1>2 DEF NumericOutcome, Size
<1>5. c.petsPolicy \in Policies \cup {Null} /\ c.smokingPolicy \in Policies \cup {Null}
  BY DEF ListingCriteria
<1>6. /\ PolicyOutcome(c.petsPolicy, u.hasPets) = PolicyOutcome(c.petsPolicy, f.hasPets)
      /\ PolicyOutcome(c.smokingPolicy, u.isSmoker) = PolicyOutcome(c.smokingPolicy, f.isSmoker)
  BY <1>2, <1>5 DEF PolicyOutcome, Policies
<1>7. Checks(c, u) = Checks(c, f)
  BY <1>2, <1>3, <1>4, <1>6 DEF Checks
<1> QED
  BY <1>7 DEF u, f

\* The household of a stored profile is its adults and children, and unknown when
\* they are: the number of people kept for older readers never speaks for itself.
THEOREM HouseholdIsCounted ==
  \A p \in ApplicantProfiles :
    /\ HouseholdIsConsistent(p) /\ p.peopleCount = PeopleCount(p)
    /\ \A n \in {p.adultsCount, p.childrenCount} : n = Null \/ n \in Nat
    => Household(p) = PeopleCount(p)
BY NullAssumption DEF ApplicantProfiles, NumberOrNull, HouseholdIsConsistent, PeopleCount, Household, NumberFact

\* With "only matching", everything found is published and would be accepted with the
\* profile as it stands, and the other filters never bring back what does not match.
THEOREM OnlyMatchingIsAccepted ==
  ASSUME NEW query, query.onlyMatching,
         NEW prof \in ApplicantProfiles \cup {Null},
         NEW found, found.criteria \in ListingCriteria,
         Matches(query, prof, found)
  PROVE  found.status = "PUBLISHED" /\ CanApply(found.criteria, prof)
BY DiscoveryMatchesEvaluation DEF Matches

\* apply() asks of the profile what the query for matching listings asks of it, whatever
\* the criteria, the profiles and the history of the pair (evaluateProfile(),
\* hardProfileMatchWhere() and evaluate()).
THEOREM FoundMeansAdmitted == Spec => []DiscoveryFindsTheEligible
<1>1. TypeOK => DiscoveryFindsTheEligible
  <2> SUFFICES ASSUME TypeOK, NEW a \in Attempts, row[a].status = "NONE"
               PROVE  MayApply(a) <=> /\ Found(ApplicantOf[a], ListingOf[a])
                                      /\ CanSubmit(History(row, a), "PUBLISHED", TRUE, clock)
    BY DEF DiscoveryFindsTheEligible
  <2> DEFINE c == criteria[ListingOf[a]]
             p == profile[ApplicantOf[a]]
             past == History(row, a)
  <2>1. c \in Criteria /\ p \in Profiles \cup {NoProfile}
    BY AttemptsAssumption DEF TypeOK
  <2>2. Eligible(profile, criteria, a) <=> p \in Profiles /\ CanApply(Demanded[c], Entered[p])
    BY <2>1, AcceptsAssumption DEF Eligible
  <2>3. HardMatch(Demanded[c], Entered[p]) <=> CanApply(Demanded[c], Entered[p])
    BY <2>1, AcceptsAssumption, DiscoveryMatchesEvaluation
  <2>4. p = NoProfile => ~HardMatch(Demanded[c], Entered[p])
    BY AcceptsAssumption DEF HardMatch, MatchedBy, Facts
  <2>5. Eligible(profile, criteria, a) <=> HardMatch(Demanded[c], Entered[p])
    BY <2>1, <2>2, <2>3, <2>4
  <2>6. MayApply(a) <=> CanSubmit(past, listingStatus[ListingOf[a]], Eligible(profile, criteria, a), clock)
    OBVIOUS
  <2> HIDE DEF past
  <2> QED BY <2>5, <2>6 DEF CanSubmit, Found
<1> QED BY TypeCorrect, <1>1, PTL
=============================================================================

--------------------------- MODULE ViewingProofs ---------------------------
(***************************************************************************)
(* Theorems of ViewingWorkflow, for any number of rounds, any windows and  *)
(* any bounds.  The invariant is stated of a workflow f, so that it can be *)
(* followed through the operators a step composes; the lemmas say what     *)
(* each operator does to it, the theorems put the steps together.          *)
(* What surrounds the workflow follows: the commands that reach it, what   *)
(* is shown of it, and the older rows beside it.                           *)
(***************************************************************************)
EXTENDS ViewingCommands, Attention, LegacyViewings, FiniteSetTheorems, WellFoundedInduction, TLAPS

\* CommitmentsMatch of a workflow f.
Match(f) ==
  /\ \A r \in Rounds :
       /\ f.offers[r].resolution = "PENDING" <=> r = f.pending
       /\ f.visits[r].status = "ACCEPTED" <=> r = f.confirmed
       /\ f.visits[r].status # "NONE" <=> f.offers[r].resolution = "ACCEPTED"
  /\ f.state # "OPEN" => f.pending = NoRound /\ f.confirmed = NoRound

\* Only a visit can be asked about, and only once there is a workflow.
Asked(f) ==
  \A r \in Rounds :
    f.visits[r].interest = "PENDING" => f.visits[r].status # "NONE" /\ f.state # "NONE"

Reasoned(f) == f.state = "CLOSED" <=> f.reason # "NONE"

Good(f) == f \in Workflows /\ Match(f) /\ Asked(f) /\ Reasoned(f)

\* A workflow that asks for nothing.
Quiet(f) == f.state # "OPEN" /\ \A r \in Rounds : f.visits[r].interest # "PENDING"

\* g comes after f: the revision has moved on, or the commitments are the same.
Follows(f, g) ==
  /\ g.revision >= f.revision
  /\ Commitments(g) # Commitments(f) => g.revision > f.revision

IInv == TypeOK /\ Good(wf) /\ (CanMutate \/ Quiet(wf))

USE BoundsAssumption, WindowsAssumption
    DEF MayInvite, MayAccept, MayDecline, MayProposeAlternative, MayCounterpropose, MayReschedule,
        MayCancel, MayClose, MayGiveOutcome, MayAnswer

-----------------------------------------------------------------------------
(***************************************************************************)
(* The operators.                                                          *)
(***************************************************************************)
LEMMA BumpIsGood ==
  ASSUME NEW f, Good(f)
  PROVE  /\ Good(Bump(f))
         /\ Bump(f).revision = f.revision + 1
         /\ Quiet(f) => Quiet(Bump(f))
BY DEF Good, Match, Asked, Reasoned, Quiet, Bump, Workflows

LEMMA ResolveIsTyped ==
  ASSUME NEW f \in Workflows, NEW r \in Rounds, NEW resolution \in Resolutions
  PROVE  /\ Resolve(f, r, resolution) \in Workflows
         /\ Resolve(f, r, resolution).offers[r].resolution = resolution
         /\ \A q \in Rounds : q # r => Resolve(f, r, resolution).offers[q] = f.offers[q]
BY DEF Resolve, Workflows, Offers, NoOffer, Sides

LEMMA ResolvePendingIsGood ==
  ASSUME NEW f, Good(f), NEW resolution \in Resolutions \ {"NONE", "PENDING", "ACCEPTED"}
  PROVE  /\ Good(ResolvePending(f, resolution))
         /\ ResolvePending(f, resolution).pending = NoRound
         /\ \A field \in {"state", "reason", "revision", "confirmed", "consideration", "visits"} :
              ResolvePending(f, resolution)[field] = f[field]
<1> DEFINE g == Resolve(f, f.pending, resolution)
<1>1. CASE f.pending = NoRound
  BY <1>1 DEF ResolvePending, Good, Workflows
<1>2. CASE f.pending # NoRound
  <2>1. f.pending \in Rounds /\ f \in Workflows
    BY <1>2 DEF Good, Workflows
  <2>2. /\ g \in Workflows
        /\ g.offers[f.pending].resolution = resolution
        /\ \A q \in Rounds : q # f.pending => g.offers[q] = f.offers[q]
    BY <2>1, ResolveIsTyped
  <2>3. ResolvePending(f, resolution) = [g EXCEPT !.pending = NoRound]
    BY <1>2 DEF ResolvePending
  <2>4. \A field \in {"state", "reason", "revision", "confirmed", "consideration", "visits"} : g[field] = f[field]
    BY <2>1 DEF Resolve, Workflows
  <2> HIDE DEF g
  <2> DEFINE h == [g EXCEPT !.pending = NoRound]
  <2>5. /\ h \in Workflows /\ h.pending = NoRound /\ h.offers = g.offers
        /\ h.state = f.state /\ h.reason = f.reason /\ h.revision = f.revision
        /\ h.confirmed = f.confirmed /\ h.consideration = f.consideration /\ h.visits = f.visits
    BY <2>2, <2>4 DEF Workflows, NoRound
  <2> HIDE DEF h
  <2>6. Match(h)
    BY <2>1, <2>2, <2>5 DEF Good, Match, NoRound, Rounds
  <2>7. Asked(h) /\ Reasoned(h)
    BY <2>5 DEF Good, Asked, Reasoned
  <2> QED BY <2>3, <2>5, <2>6, <2>7 DEF Good, h
<1> QED BY <1>1, <1>2

\* g is f with other interests: nothing the commitments speak of has changed.
SameCommitments(f, g) ==
  /\ g.state = f.state /\ g.reason = f.reason /\ g.revision = f.revision
  /\ g.pending = f.pending /\ g.confirmed = f.confirmed
  /\ g.consideration = f.consideration /\ g.offers = f.offers
  /\ \A r \in Rounds : g.visits[r].status = f.visits[r].status

LEMMA SameCommitmentsFollow ==
  ASSUME NEW f, NEW k, NEW g, SameCommitments(f, k), Follows(k, g)
  PROVE  Follows(f, g)
<1>1. Commitments(k) = Commitments(f)
  BY DEF SameCommitments, Commitments
<1> QED BY <1>1 DEF Follows, SameCommitments

LEMMA InterestsAreGood ==
  ASSUME NEW f, Good(f), NEW visits \in [Rounds -> Visits],
         \A r \in Rounds : visits[r].status = f.visits[r].status,
         \A r \in Rounds : visits[r].interest = "PENDING" => f.visits[r].interest = "PENDING",
         NEW g, g = [f EXCEPT !.visits = visits]
  PROVE  Good(g) /\ SameCommitments(f, g) /\ g.visits = visits
<1>1. g \in Workflows /\ g.visits = visits
  BY DEF Good, Workflows
<1>2. SameCommitments(f, g)
  BY <1>1 DEF Good, Workflows, SameCommitments
<1>3. Match(g) /\ Asked(g) /\ Reasoned(g)
  BY <1>1, <1>2 DEF SameCommitments, Good, Match, Asked, Reasoned
<1> QED BY <1>1, <1>2, <1>3 DEF Good

LEMMA EndInterestIsTyped ==
  ASSUME NEW visit \in Visits, NEW S
  PROVE  /\ EndInterest(visit, S) \in Visits
         /\ EndInterest(visit, S).status = visit.status
         /\ EndInterest(visit, S).interest = "PENDING" =>
              visit.interest = "PENDING" /\ ("PENDING" \in S => visit.status = "NONE")
BY DEF EndInterest, WithInterest, Visits, InterestState

LEMMA EndInterestsAreGood ==
  ASSUME NEW f, Good(f), NEW S
  PROVE  /\ Good(EndInterests(f, S))
         /\ SameCommitments(f, EndInterests(f, S))
         /\ \A r \in Rounds : EndInterests(f, S).visits[r].interest = "PENDING" =>
              f.visits[r].interest = "PENDING" /\ "PENDING" \notin S
<1> DEFINE visits == [r \in Rounds |-> EndInterest(f.visits[r], S)]
<1>1. f \in Workflows /\ \A r \in Rounds : f.visits[r] \in Visits
  BY DEF Good, Workflows
<1>2. \A r \in Rounds :
        /\ EndInterest(f.visits[r], S) \in Visits
        /\ EndInterest(f.visits[r], S).status = f.visits[r].status
        /\ EndInterest(f.visits[r], S).interest = "PENDING" =>
             f.visits[r].interest = "PENDING" /\ ("PENDING" \in S => f.visits[r].status = "NONE")
  BY <1>1, EndInterestIsTyped
<1>3. visits \in [Rounds -> Visits] /\ \A r \in Rounds : visits[r] = EndInterest(f.visits[r], S)
  BY <1>2
<1>4. EndInterests(f, S) = [f EXCEPT !.visits = visits]
  BY DEF EndInterests
<1> HIDE DEF visits
<1>5. /\ \A r \in Rounds : visits[r].status = f.visits[r].status
      /\ \A r \in Rounds : visits[r].interest = "PENDING" => f.visits[r].interest = "PENDING"
  BY <1>2, <1>3
<1>6. /\ Good(EndInterests(f, S)) /\ SameCommitments(f, EndInterests(f, S))
      /\ EndInterests(f, S).visits = visits
  BY <1>3, <1>4, <1>5, InterestsAreGood
<1> QED BY <1>2, <1>3, <1>6 DEF Good, Asked

-----------------------------------------------------------------------------
(***************************************************************************)
(* The closure.                                                            *)
(***************************************************************************)
LEMMA EndedVisitIsTyped ==
  ASSUME NEW f, Good(f), NEW r \in Rounds
  PROVE  /\ EndedVisit(f, r) \in Visits
         /\ EndedVisit(f, r).status # "ACCEPTED"
         /\ EndedVisit(f, r).status = "NONE" <=> f.visits[r].status = "NONE"
         /\ EndedVisit(f, r).interest # "PENDING"
<1>1. f.visits[r] \in Visits
  BY DEF Good, Workflows
<1> DEFINE visit == IF f.visits[r].status # "ACCEPTED" THEN f.visits[r]
                    ELSE [f.visits[r] EXCEPT !.status =
                            IF f.offers[r].start <= clock THEN "OUTCOME_PENDING" ELSE "CANCELLED"]
<1>2. /\ visit \in Visits /\ visit.status # "ACCEPTED"
      /\ visit.status = "NONE" <=> f.visits[r].status = "NONE"
      /\ visit.interest = f.visits[r].interest
  BY <1>1 DEF Visits, VisitStatus
<1>3. EndedVisit(f, r) = EndInterest(visit, {"PENDING", "NOT_REQUESTED"})
  BY DEF EndedVisit
<1> HIDE DEF visit
<1> QED BY <1>2, <1>3, EndInterestIsTyped DEF Good, Asked

LEMMA EndedIsGood ==
  ASSUME NEW f, Good(f), f.state # "NONE", NEW dnc \in BOOLEAN
  PROVE  /\ Good(Ended(f, dnc)) /\ Quiet(Ended(f, dnc))
         /\ Ended(f, dnc).revision = f.revision + 1
<1> DEFINE g == ResolvePending(f, "CLOSED")
           visits == [r \in Rounds |-> EndedVisit(f, r)]
           h == [g EXCEPT !.state = "CLOSED",
                          !.reason = IF f.state = "CLOSED" THEN @ ELSE "ENDED",
                          !.confirmed = NoRound,
                          !.consideration = IF dnc THEN "DO_NOT_CONTINUE" ELSE @,
                          !.visits = visits]
<1>1. /\ Good(g) /\ g.pending = NoRound /\ g.state = f.state
      /\ g.reason = f.reason /\ g.revision = f.revision /\ g.visits = f.visits
  BY ResolvePendingIsGood DEF Resolutions
<1>2. visits \in [Rounds -> Visits] /\ \A r \in Rounds : visits[r] = EndedVisit(f, r)
  BY EndedVisitIsTyped
<1> HIDE DEF g, visits
<1>3. /\ h \in Workflows /\ h.state = "CLOSED" /\ h.reason # "NONE" /\ h.revision = f.revision
      /\ h.pending = NoRound /\ h.confirmed = NoRound /\ h.offers = g.offers /\ h.visits = visits
  BY <1>1, <1>2 DEF Good, Reasoned, Workflows, Considerations, NoRound
<1>4. Ended(f, dnc) = Bump(h)
  BY DEF Ended, g, visits
<1> HIDE DEF h
<1>5. ASSUME NEW r \in Rounds
      PROVE  /\ h.offers[r].resolution = "PENDING" <=> r = h.pending
             /\ h.visits[r].status = "ACCEPTED" <=> r = h.confirmed
             /\ h.visits[r].status # "NONE" <=> h.offers[r].resolution = "ACCEPTED"
  <2>1. r # NoRound
    BY DEF Rounds, NoRound
  <2>2. /\ h.visits[r].status # "ACCEPTED"
        /\ h.visits[r].status = "NONE" <=> g.visits[r].status = "NONE"
    BY <1>1, <1>2, <1>3, EndedVisitIsTyped
  <2>3. /\ h.offers[r].resolution # "PENDING"
        /\ g.visits[r].status # "NONE" <=> h.offers[r].resolution = "ACCEPTED"
    BY <1>1, <1>3, <2>1 DEF Good, Match
  <2> QED BY <1>3, <2>1, <2>2, <2>3
<1>6. Match(h)
  BY <1>3, <1>5 DEF Match
<1>7. Asked(h) /\ Reasoned(h) /\ Quiet(h)
  BY <1>2, <1>3, EndedVisitIsTyped DEF Asked, Reasoned, Quiet
<1> QED BY <1>3, <1>4, <1>6, <1>7, BumpIsGood DEF Good

LEMMA HistoricalIsGood ==
  ASSUME NEW f, Good(f), f.state = "CLOSED"
  PROVE  /\ Good(Historical(f)) /\ Quiet(Historical(f))
         /\ Historical(f) = f \/ Historical(f).revision = f.revision + 1
<1>1. CASE \E r \in Rounds : f.visits[r].interest = "PENDING"
  <2> DEFINE g == EndInterests(f, {"PENDING"})
  <2>1. /\ Good(g) /\ SameCommitments(f, g)
        /\ \A r \in Rounds : g.visits[r].interest # "PENDING"
    BY EndInterestsAreGood
  <2>2. Historical(f) = Bump(g)
    BY <1>1 DEF Historical
  <2> HIDE DEF g
  <2> QED BY <2>1, <2>2, BumpIsGood DEF Quiet, SameCommitments
<1>2. CASE ~ \E r \in Rounds : f.visits[r].interest = "PENDING"
  BY <1>2 DEF Historical, Quiet
<1> QED BY <1>1, <1>2

\* Whatever ends the process leaves a workflow that asks for nothing.
LEMMA CloseIsGood ==
  ASSUME NEW f, Good(f), NEW dnc \in BOOLEAN
  PROVE  /\ Good(Close(f, dnc)) /\ Quiet(Close(f, dnc))
         /\ Close(f, dnc) = f \/ Close(f, dnc).revision = f.revision + 1
<1>1. f.state \in {"NONE", "OPEN", "CLOSED"}
  BY DEF Good, Workflows
<1>2. CASE f.state = "NONE"
  <2>1. LiveVisits(f) = {}
    BY <1>2 DEF Good, Match, LiveVisits, NoRound, Rounds
  <2>2. Quiet(f)
    BY <1>2 DEF Good, Asked, Quiet
  <2> QED BY <1>2, <2>1, <2>2 DEF Close
<1>3. CASE f.state = "CLOSED" /\ LiveVisits(f) = {}
  <2>1. Close(f, dnc) = Historical(f)
    BY <1>3 DEF Close
  <2> QED BY <1>3, <2>1, HistoricalIsGood
<1>4. CASE f.state # "NONE" /\ (f.state = "OPEN" \/ LiveVisits(f) # {})
  <2>1. Close(f, dnc) = Ended(f, dnc)
    BY <1>4 DEF Close
  <2> QED BY <1>4, <2>1, EndedIsGood
<1> QED BY <1>1, <1>2, <1>3, <1>4

-----------------------------------------------------------------------------
(***************************************************************************)
(* The other operators the steps are composed of.                          *)
(***************************************************************************)
LEMMA ConsiderationIsGood ==
  ASSUME NEW f, Good(f), NEW consideration \in Considerations
  PROVE  LET g == Bump([f EXCEPT !.consideration = consideration])
         IN  /\ Good(g) /\ g.revision = f.revision + 1
             /\ Quiet(f) => Quiet(g)
<1> DEFINE k == [f EXCEPT !.consideration = consideration]
<1>1. /\ k \in Workflows /\ k.state = f.state /\ k.reason = f.reason /\ k.revision = f.revision
      /\ k.pending = f.pending /\ k.confirmed = f.confirmed
      /\ k.offers = f.offers /\ k.visits = f.visits
  BY DEF Good, Workflows
<1> HIDE DEF k
<1>2. Good(k) /\ (Quiet(f) => Quiet(k))
  BY <1>1 DEF Good, Match, Asked, Reasoned, Quiet
<1> QED BY <1>1, <1>2, BumpIsGood DEF k

LEMMA AnsweredIsGood ==
  ASSUME NEW f, Good(f), NEW v \in Rounds, NEW state \in Answers \cup {"EXPIRED"}
  PROVE  LET k == [f EXCEPT !.visits[v] = WithInterest(@, state)]
         IN  Good(k) /\ SameCommitments(f, k)
<1> DEFINE visits == [f.visits EXCEPT ![v] = WithInterest(@, state)]
<1>1. f \in Workflows /\ f.visits \in [Rounds -> Visits]
  BY DEF Good, Workflows
<1>2. /\ WithInterest(f.visits[v], state) \in Visits
      /\ WithInterest(f.visits[v], state).status = f.visits[v].status
      /\ WithInterest(f.visits[v], state).interest # "PENDING"
  BY <1>1 DEF WithInterest, Visits, InterestState, Answers
<1>3. /\ visits \in [Rounds -> Visits]
      /\ \A r \in Rounds : visits[r].status = f.visits[r].status
      /\ \A r \in Rounds : visits[r].interest = "PENDING" => f.visits[r].interest = "PENDING"
  BY <1>1, <1>2
<1> DEFINE k == [f EXCEPT !.visits[v] = WithInterest(@, state)]
<1>4. k = [f EXCEPT !.visits = visits]
  BY <1>1 DEF Workflows
<1> HIDE DEF visits, k
<1>5. Good(k) /\ SameCommitments(f, k)
  BY <1>3, <1>4, InterestsAreGood
<1> QED BY <1>5 DEF k

LEMMA RestoredIsGood ==
  ASSUME NEW f, Good(f)
  PROVE  /\ Good(RestoredWorkflow(f)) /\ Quiet(RestoredWorkflow(f))
         /\ Follows(f, RestoredWorkflow(f))
<1> DEFINE g == EndInterests(f, {"PENDING", "NOT_REQUESTED"})
           h == Close(g, FALSE)
           ug == Bump([g EXCEPT !.consideration = "UNDECIDED"])
           uh == Bump([h EXCEPT !.consideration = "UNDECIDED"])
<1>1. /\ Good(g) /\ SameCommitments(f, g)
      /\ \A r \in Rounds : g.visits[r].interest # "PENDING"
  BY EndInterestsAreGood
<1>2. Good(h) /\ Quiet(h) /\ (h = g \/ h.revision = g.revision + 1)
  BY <1>1, CloseIsGood
<1> HIDE DEF g, h
<1>3. Good(ug) /\ ug.revision = g.revision + 1 /\ (Quiet(g) => Quiet(ug))
  BY <1>1, ConsiderationIsGood DEF Considerations
<1>4. Good(uh) /\ Quiet(uh) /\ uh.revision = h.revision + 1
  BY <1>2, ConsiderationIsGood DEF Considerations
<1>5. RestoredWorkflow(f) = IF f.state = "CLOSED" /\ LiveVisits(f) = {} THEN ug
                            ELSE IF h.consideration = "DO_NOT_CONTINUE" THEN uh ELSE h
  BY DEF RestoredWorkflow, g, h
<1>6. f.revision \in Nat /\ g.revision = f.revision /\ h.revision \in Nat
  BY <1>1, <1>2 DEF Good, Workflows, SameCommitments
<1> HIDE DEF ug, uh
<1>7. CASE f.state = "CLOSED" /\ LiveVisits(f) = {}
  <2>1. Quiet(g)
    BY <1>1, <1>7 DEF Quiet, SameCommitments
  <2> QED BY <1>3, <1>5, <1>6, <1>7, <2>1 DEF Follows
<1>8. CASE ~(f.state = "CLOSED" /\ LiveVisits(f) = {}) /\ h.consideration = "DO_NOT_CONTINUE"
  <2>1. h.revision >= f.revision
    BY <1>2, <1>6
  <2> QED BY <1>4, <1>5, <1>6, <1>8, <2>1 DEF Follows
<1>9. CASE ~(f.state = "CLOSED" /\ LiveVisits(f) = {}) /\ h.consideration # "DO_NOT_CONTINUE"
  <2>1. Follows(g, h)
    BY <1>2, <1>6 DEF Follows
  <2> QED BY <1>1, <1>2, <1>5, <1>9, <2>1, SameCommitmentsFollow
<1> QED BY <1>7, <1>8, <1>9

LEMMA DeadlineIsTyped ==
  ASSUME NEW f, Good(f), clock \in Nat, NEW start \in Nat
  PROVE  Deadline(f, start) \in Nat
<1>1. clock + ResponseWindow \in Nat
  BY DEF WindowsAssumption
<1>2. ASSUME NEW S, S # {}, S \subseteq Nat, \E t \in S : \A u \in S : t <= u
      PROVE  Earliest(S) \in Nat
  BY <1>2 DEF Earliest
<1>3. CASE f.confirmed = NoRound
  <2> DEFINE S == {clock + ResponseWindow, start}
  <2>1. {f.offers[r].start : r \in {f.confirmed} \ {NoRound}} = {}
    BY <1>3
  <2>2. Deadline(f, start) = Earliest(S \cup {f.offers[r].start : r \in {f.confirmed} \ {NoRound}})
    BY DEF Deadline
  <2>3. Deadline(f, start) = Earliest(S)
    <3>1. S \cup {} = S
      OBVIOUS
    <3> QED BY <2>1, <2>2, <3>1
  <2>4. S # {} /\ S \subseteq Nat /\ \E t \in S : \A u \in S : t <= u
    BY <1>1
  <2> QED BY <1>2, <2>3, <2>4
<1>4. CASE f.confirmed # NoRound
  <2> DEFINE c == f.offers[f.confirmed].start
             S == {clock + ResponseWindow, start} \cup {c}
  <2>1. c \in Nat
    BY <1>4 DEF Good, Workflows, Offers
  <2>2. {f.offers[r].start : r \in {f.confirmed} \ {NoRound}} = {c}
    BY <1>4
  <2>3. Deadline(f, start) = Earliest(S)
    BY <2>2 DEF Deadline
  <2> HIDE DEF c
  <2>4. S # {} /\ S \subseteq Nat /\ \E t \in S : \A u \in S : t <= u
    BY <1>1, <2>1
  <2> QED BY <1>2, <2>3, <2>4
<1> QED BY <1>3, <1>4

LEMMA OfferedIsGood ==
  ASSUME NEW f, Good(f), f.state = "OPEN", f.pending = NoRound,
         clock \in Nat, NEW side \in Sides, NEW g, Offered(f, side, g)
  PROVE  Good(g) /\ g.revision = f.revision
<1>1. PICK r \in Rounds, start \in (clock + 1)..MaxClock :
        /\ \A q \in Rounds : f.offers[q].resolution # "NONE" <=> q < r
        /\ g = [f EXCEPT !.pending = r,
                         !.offers[r] = [by |-> side, start |-> start, resolution |-> "PENDING",
                                        deadline |-> Deadline(f, start)]]
  BY DEF Offered
<1> DEFINE offer == [by |-> side, start |-> start, resolution |-> "PENDING",
                     deadline |-> Deadline(f, start)]
<1>2. start \in Nat
  BY DEF BoundsAssumption
<1>3. offer \in Offers /\ offer.resolution = "PENDING"
  BY <1>2, DeadlineIsTyped DEF Offers, Resolutions
<1>4. g = [f EXCEPT !.pending = r, !.offers[r] = offer]
  BY <1>1
<1> HIDE DEF offer
<1>5. /\ g \in Workflows /\ g.state = f.state /\ g.reason = f.reason /\ g.revision = f.revision
      /\ g.pending = r /\ g.confirmed = f.confirmed /\ g.visits = f.visits
      /\ g.offers[r] = offer /\ \A q \in Rounds \ {r} : g.offers[q] = f.offers[q]
  BY <1>3, <1>4 DEF Good, Workflows
<1>6. f.offers[r].resolution = "NONE"
  BY <1>1 DEF Rounds
<1>7. Match(g)
  BY <1>3, <1>5, <1>6 DEF Good, Match, NoRound, Rounds
<1> QED BY <1>5, <1>7 DEF Good, Asked, Reasoned

LEMMA ReopenedIsGood ==
  ASSUME NEW f, Good(f)
  PROVE  /\ Good(Reopened(f)) /\ Reopened(f).state = "OPEN"
         /\ Reopened(f).pending = f.pending /\ Reopened(f).revision = f.revision + 1
<1> DEFINE g == IF f.state = "CLOSED" THEN EndInterests(f, {"PENDING", "NOT_REQUESTED"}) ELSE f
           h == [g EXCEPT !.state = "OPEN", !.reason = "NONE"]
<1>1. Good(g) /\ g.revision = f.revision /\ g.pending = f.pending
  BY EndInterestsAreGood DEF SameCommitments
<1> HIDE DEF g
<1>2. /\ h \in Workflows /\ h.state = "OPEN" /\ h.reason = "NONE" /\ h.revision = g.revision
      /\ h.pending = g.pending /\ h.confirmed = g.confirmed
      /\ h.offers = g.offers /\ h.visits = g.visits
  BY <1>1 DEF Good, Workflows
<1>3. Reopened(f) = Bump(h)
  BY DEF Reopened, g
<1> HIDE DEF h
<1>4. Good(h)
  BY <1>1, <1>2 DEF Good, Match, Asked, Reasoned
<1>5. Bump(h).state = h.state /\ Bump(h).pending = h.pending
  BY <1>2 DEF Bump, Workflows
<1> QED BY <1>1, <1>2, <1>3, <1>4, <1>5, BumpIsGood

LEMMA AppointedIsGood ==
  ASSUME NEW f, Good(f), f.pending # NoRound
  PROVE  Good(Appointed(f)) /\ Appointed(f).revision = f.revision
<1> DEFINE p == f.pending
           g == Resolve(f, p, "ACCEPTED")
           appointment == [NoVisit EXCEPT !.status = "ACCEPTED"]
           visits == [r \in Rounds |->
                        CASE r = f.pending -> appointment
                          [] r = f.confirmed /\ r # f.pending -> [f.visits[r] EXCEPT !.status = "SUPERSEDED"]
                          [] OTHER -> f.visits[r]]
           h == [g EXCEPT !.visits = visits, !.confirmed = p, !.pending = NoRound]
<1>1. p \in Rounds /\ f \in Workflows
  BY DEF Good, Workflows
<1>2. /\ g \in Workflows
      /\ g.offers[p].resolution = "ACCEPTED"
      /\ \A q \in Rounds : q # p => g.offers[q] = f.offers[q]
  <2>1. "ACCEPTED" \in Resolutions
    BY DEF Resolutions
  <2> QED BY <1>1, <2>1, ResolveIsTyped
<1>3. g.state = f.state /\ g.reason = f.reason /\ g.revision = f.revision
  BY <1>1 DEF Resolve, Workflows
<1>4. appointment \in Visits /\ appointment.status = "ACCEPTED" /\ appointment.interest = "NOT_REQUESTED"
  BY DEF Visits, NoVisit, VisitStatus, InterestState
<1> HIDE DEF appointment
<1>5. ASSUME NEW r \in Rounds
      PROVE  /\ visits[r] \in Visits
             /\ r = p => visits[r].status = "ACCEPTED" /\ visits[r].interest = "NOT_REQUESTED"
             /\ r # p /\ r = f.confirmed => visits[r].status = "SUPERSEDED"
             /\ r # p => visits[r].interest = f.visits[r].interest
             /\ r # p /\ r # f.confirmed => visits[r].status = f.visits[r].status
  <2>1. f.visits[r] \in Visits
    BY <1>1 DEF Workflows
  <2>2. CASE r = p
    BY <1>4, <2>2
  <2>3. CASE r # p /\ r = f.confirmed
    <3>1. visits[r] = [f.visits[r] EXCEPT !.status = "SUPERSEDED"]
      BY <2>3
    <3> HIDE DEF visits
    <3> QED BY <2>1, <2>3, <3>1 DEF Visits, VisitStatus
  <2>4. CASE r # p /\ r # f.confirmed
    BY <2>1, <2>4
  <2> QED BY <2>2, <2>3, <2>4
<1>6. visits \in [Rounds -> Visits]
  BY <1>5
<1>7. Appointed(f) = h
  BY DEF Appointed, appointment
<1> HIDE DEF g, visits
<1>8. /\ h \in Workflows /\ h.state = f.state /\ h.reason = f.reason /\ h.revision = f.revision
      /\ h.pending = NoRound /\ h.confirmed = p /\ h.offers = g.offers /\ h.visits = visits
  BY <1>1, <1>2, <1>3, <1>6 DEF Workflows, NoRound
<1> HIDE DEF h, p
<1>9. f.state = "OPEN" /\ f.pending = p
  BY DEF Good, Match, p
<1>10. ASSUME NEW r \in Rounds
       PROVE  /\ h.offers[r].resolution = "PENDING" <=> r = h.pending
              /\ h.visits[r].status = "ACCEPTED" <=> r = h.confirmed
              /\ h.visits[r].status # "NONE" <=> h.offers[r].resolution = "ACCEPTED"
              /\ h.visits[r].interest = "PENDING" => h.visits[r].status # "NONE" /\ h.state # "NONE"
  <2>1. r # NoRound
    BY DEF Rounds, NoRound
  <2>2. /\ f.offers[r].resolution = "PENDING" <=> r = p
        /\ f.visits[r].status = "ACCEPTED" <=> r = f.confirmed
        /\ f.visits[r].status # "NONE" <=> f.offers[r].resolution = "ACCEPTED"
        /\ f.visits[r].interest = "PENDING" => f.visits[r].status # "NONE"
    BY <1>9 DEF Good, Match, Asked
  <2>3. CASE r = p
    BY <1>2, <1>5, <1>8, <2>1, <2>3
  <2>4. CASE r # p
    <3>1. h.offers[r] = f.offers[r] /\ h.visits[r] = visits[r]
      BY <1>2, <1>8, <2>4
    <3> QED BY <1>5, <1>8, <1>9, <2>1, <2>2, <2>4, <3>1
  <2> QED BY <2>3, <2>4
<1>11. Match(h) /\ Asked(h) /\ Reasoned(h)
  BY <1>8, <1>9, <1>10 DEF Good, Match, Asked, Reasoned
<1> QED BY <1>7, <1>8, <1>11 DEF Good

LEMMA CancelledIsGood ==
  ASSUME NEW f, Good(f), f.pending = NoRound
  PROVE  /\ Good(Cancelled(f))
         /\ Cancelled(f).pending = NoRound /\ Cancelled(f).confirmed = NoRound
         /\ Cancelled(f).revision = f.revision /\ Cancelled(f).state = f.state
<1> DEFINE c == f.confirmed
           w == [f.visits[c] EXCEPT !.status = "CANCELLED"]
           h == [f EXCEPT !.visits[c] = w, !.confirmed = NoRound]
<1>1. CASE c = NoRound
  BY <1>1 DEF Cancelled
<1>2. CASE c # NoRound
  <2>1. c \in Rounds /\ f \in Workflows
    BY <1>2 DEF Good, Workflows
  <2>2. Cancelled(f) = h
    BY <1>2, <2>1 DEF Cancelled, Workflows
  <2>3. w \in Visits /\ w.status = "CANCELLED" /\ w.interest = f.visits[c].interest
    BY <2>1 DEF Workflows, Visits, VisitStatus
  <2> HIDE DEF w
  <2>4. /\ h \in Workflows /\ h.state = f.state /\ h.reason = f.reason /\ h.revision = f.revision
        /\ h.pending = NoRound /\ h.confirmed = NoRound /\ h.offers = f.offers
        /\ h.visits[c].status = "CANCELLED"
        /\ \A r \in Rounds : h.visits[r].interest = f.visits[r].interest
        /\ \A r \in Rounds \ {c} : h.visits[r] = f.visits[r]
    BY <2>1, <2>3 DEF Workflows, NoRound
  <2> HIDE DEF h
  <2>5. f.visits[c].status # "NONE"
    BY <2>1 DEF Good, Match
  <2>6. ASSUME NEW r \in Rounds
        PROVE  /\ h.offers[r].resolution = "PENDING" <=> r = h.pending
               /\ h.visits[r].status = "ACCEPTED" <=> r = h.confirmed
               /\ h.visits[r].status # "NONE" <=> h.offers[r].resolution = "ACCEPTED"
               /\ h.visits[r].interest = "PENDING" => h.visits[r].status # "NONE" /\ h.state # "NONE"
    <3>1. r # NoRound
      BY DEF Rounds, NoRound
    <3>2. /\ f.offers[r].resolution = "PENDING" <=> r = f.pending
          /\ f.visits[r].status = "ACCEPTED" <=> r = c
          /\ f.visits[r].status # "NONE" <=> f.offers[r].resolution = "ACCEPTED"
          /\ f.visits[r].interest = "PENDING" => f.visits[r].status # "NONE" /\ f.state # "NONE"
      BY DEF Good, Match, Asked
    <3> QED BY <2>4, <2>5, <3>1, <3>2
  <2>7. Match(h) /\ Asked(h) /\ Reasoned(h)
    BY <2>4, <2>6 DEF Good, Match, Asked, Reasoned
  <2> QED BY <2>2, <2>4, <2>7 DEF Good
<1> QED BY <1>1, <1>2

-----------------------------------------------------------------------------
(***************************************************************************)
(* The outcome.  While the ended negotiation has let go of its appointment *)
(* and the outcome is not yet written, the two disagree about round v: the *)
(* step is followed as a whole.                                            *)
(***************************************************************************)
LEMMA OutcomeIsTyped ==
  ASSUME IInv, NEW v \in Rounds, NEW outcome \in Outcomes, RecordOutcome(v, outcome)
  PROVE  /\ WithOutcome(v, outcome) \in Visits
         /\ WithOutcome(v, outcome).status = outcome
         /\ WithOutcome(v, outcome).interest = "PENDING" => CanMutate /\ wf.state # "NONE"
<1> DEFINE visit == wf.visits[v]
           w == WithOutcome(v, outcome)
<1>1. visit \in Visits /\ clock \in Nat /\ place \in Places /\ visit.status # "NONE"
  BY DEF IInv, TypeOK, Workflows, RecordOutcome
<1>2. EndInterest(visit, {"PENDING"}) \in Visits /\ EndInterest(visit, {"PENDING"}).interest # "PENDING"
  BY <1>1, EndInterestIsTyped
<1> DEFINE e == EndInterest(visit, {"PENDING"}).interest
           requested == Requests(v)
           penalized == Penalizes(v, outcome)
           corrected == IsCorrection(v)
<1>3. visit.outcomes + 1 \in 0..2
  BY <1>1 DEF RecordOutcome, MayRecord, MayCorrect, IsCorrection, Visits
<1>4. MovedBack.position \in Nat /\ MovedBack.revision \in Nat
  BY <1>1 DEF MovedBack, Places
<1>5. e \in InterestState \ {"PENDING"}
  BY <1>2 DEF Visits
<1>6. clock + InterestWindow \in Nat
  BY <1>1 DEF WindowsAssumption
<1>7. w = [status |-> outcome, outcomes |-> visit.outcomes + 1,
           recorded |-> IF corrected THEN visit.recorded ELSE clock,
           interest |-> CASE outcome = "COMPLETED" /\ requested -> "PENDING"
                          [] outcome = "COMPLETED" /\ ~requested -> "CLOSED"
                          [] outcome # "COMPLETED" -> e,
           due |-> IF outcome = "COMPLETED" /\ requested THEN clock + InterestWindow ELSE 0,
           from |-> IF penalized THEN place.position ELSE visit.from,
           to |-> IF penalized THEN MovedBack.position ELSE visit.to,
           toRevision |-> IF penalized THEN MovedBack.revision ELSE visit.toRevision]
  BY DEF WithOutcome
<1>8. requested => CanMutate /\ wf.state # "NONE"
  BY DEF Requests, PostViewingOpen
<1> HIDE DEF w, e, requested, penalized, corrected
<1>9. /\ w.status = outcome /\ w.outcomes = visit.outcomes + 1
      /\ w.recorded \in Nat /\ w.due \in Nat
      /\ w.from \in Nat /\ w.to \in Nat /\ w.toRevision \in Nat
  BY <1>1, <1>4, <1>6, <1>7 DEF Visits, Places
<1>10. w.interest \in InterestState /\ (w.interest = "PENDING" => requested)
  BY <1>5, <1>7 DEF InterestState
<1>11. w \in Visits
  BY <1>3, <1>7, <1>9, <1>10 DEF Visits, VisitStatus
<1> QED BY <1>8, <1>9, <1>10, <1>11 DEF w

LEMMA RecordOutcomeIsGood ==
  ASSUME IInv, NEW v \in Rounds, NEW outcome \in Outcomes, RecordOutcome(v, outcome)
  PROVE  Good(wf') /\ wf'.revision = wf.revision + 1 /\ (CanMutate \/ Quiet(wf'))
<1> DEFINE w == WithOutcome(v, outcome)
           others == IF IsLatest(wf, v) THEN EndInterests(wf, {"PENDING"}) ELSE wf
           resolved == ResolvePending(others, "CLOSED")
           owned == IF wf.confirmed # v THEN others ELSE [resolved EXCEPT !.confirmed = NoRound]
           h == [owned EXCEPT !.visits[v] = w]
<1>1. /\ w \in Visits /\ w.status = outcome
      /\ w.interest = "PENDING" => CanMutate /\ wf.state # "NONE"
  BY OutcomeIsTyped
<1>2. wf.visits[v].status # "NONE" /\ wf' = Bump(h)
  BY DEF RecordOutcome
<1>3. Good(wf) /\ (CanMutate \/ Quiet(wf))
  BY DEF IInv
<1>4. /\ Good(others) /\ SameCommitments(wf, others)
      /\ \A r \in Rounds : others.visits[r].interest = "PENDING" => wf.visits[r].interest = "PENDING"
  BY <1>3, EndInterestsAreGood DEF SameCommitments
<1> HIDE DEF w, others
<1>5. /\ Good(resolved) /\ resolved.pending = NoRound
      /\ resolved.state = others.state /\ resolved.reason = others.reason
      /\ resolved.revision = others.revision /\ resolved.confirmed = others.confirmed
      /\ resolved.visits = others.visits
  BY <1>4, ResolvePendingIsGood DEF Resolutions
<1> HIDE DEF resolved
<1>6. /\ owned \in Workflows /\ owned.state = wf.state /\ owned.reason = wf.reason
      /\ owned.revision = wf.revision /\ owned.visits = others.visits
      /\ owned.confirmed = IF wf.confirmed = v THEN NoRound ELSE wf.confirmed
      /\ owned.pending = NoRound \/ owned.pending = wf.pending
  <2>1. CASE wf.confirmed = v
    BY <1>4, <1>5, <2>1 DEF Good, Workflows, SameCommitments, NoRound
  <2>2. CASE wf.confirmed # v
    BY <1>4, <2>2 DEF Good, SameCommitments
  <2> QED BY <2>1, <2>2
<1>7. ASSUME NEW r \in Rounds
      PROVE  /\ owned.offers[r].resolution = "PENDING" <=> r = owned.pending
             /\ wf.visits[r].status # "NONE" <=> owned.offers[r].resolution = "ACCEPTED"
  <2>1. CASE wf.confirmed = v
    <3>1. owned.offers = resolved.offers /\ owned.pending = resolved.pending
      BY <1>5, <2>1 DEF Good, Workflows
    <3> QED BY <1>4, <1>5, <3>1 DEF Good, Match, SameCommitments
  <2>2. CASE wf.confirmed # v
    BY <1>4, <2>2 DEF Good, Match, SameCommitments
  <2> QED BY <2>1, <2>2
<1> HIDE DEF owned
<1>8. /\ h \in Workflows /\ h.state = wf.state /\ h.reason = wf.reason /\ h.revision = wf.revision
      /\ h.pending = owned.pending /\ h.confirmed = owned.confirmed /\ h.offers = owned.offers
      /\ h.visits[v] = w /\ \A r \in Rounds \ {v} : h.visits[r] = others.visits[r]
  BY <1>1, <1>6 DEF Workflows
<1>9. wf' = Bump(h)
  BY <1>2 DEF owned, resolved, others, w
<1> HIDE DEF h
<1>10. outcome # "NONE" /\ outcome # "ACCEPTED"
  BY DEF Outcomes
<1>11. ASSUME NEW r \in Rounds
       PROVE  /\ h.offers[r].resolution = "PENDING" <=> r = h.pending
              /\ h.visits[r].status = "ACCEPTED" <=> r = h.confirmed
              /\ h.visits[r].status # "NONE" <=> h.offers[r].resolution = "ACCEPTED"
              /\ h.visits[r].interest = "PENDING" => h.visits[r].status # "NONE" /\ h.state # "NONE"
              /\ h.visits[r].interest = "PENDING" => CanMutate \/ wf.visits[r].interest = "PENDING"
  <2>1. r # NoRound
    BY DEF Rounds, NoRound
  <2>2. CASE r = v
    BY <1>1, <1>2, <1>6, <1>7, <1>8, <1>10, <2>1, <2>2
  <2>3. CASE r # v
    <3>1. h.visits[r] = others.visits[r] /\ others.visits[r].status = wf.visits[r].status
      BY <1>4, <1>8, <2>3 DEF SameCommitments
    <3>2. /\ wf.visits[r].status = "ACCEPTED" <=> r = wf.confirmed
          /\ wf.visits[r].interest = "PENDING" => wf.visits[r].status # "NONE" /\ wf.state # "NONE"
          /\ others.visits[r].interest = "PENDING" => wf.visits[r].interest = "PENDING"
      BY <1>3, <1>4 DEF Good, Match, Asked
    <3> QED BY <1>6, <1>7, <1>8, <2>1, <2>3, <3>1, <3>2
  <2> QED BY <2>2, <2>3
<1>12. Good(h)
  <2>1. wf.state # "OPEN" => h.pending = NoRound /\ h.confirmed = NoRound
    BY <1>3, <1>6, <1>8 DEF Good, Match
  <2>2. Match(h) /\ Asked(h)
    BY <1>8, <1>11, <2>1 DEF Match, Asked
  <2>3. Reasoned(h)
    BY <1>3, <1>8 DEF Good, Reasoned
  <2> QED BY <1>8, <2>2, <2>3 DEF Good
<1>13. CanMutate \/ Quiet(h)
  BY <1>3, <1>8, <1>11 DEF Quiet
<1> QED BY <1>8, <1>9, <1>12, <1>13, BumpIsGood

-----------------------------------------------------------------------------
(***************************************************************************)
(* The steps.                                                              *)
(***************************************************************************)
\* What every step does to the workflow.
Kept == Good(wf') /\ Follows(wf, wf') /\ (CanMutate' \/ Quiet(wf'))

\* The variables beside the workflow.
Scalars ==
  /\ application \in ApplicationStatus /\ activeAt \in BOOLEAN
  /\ listing \in ListingStatus
  /\ clock \in 1..MaxClock
  /\ place \in Places

LEMMA MovedOnFollows ==
  ASSUME NEW f, NEW g, f.revision \in Nat, g.revision = f.revision + 1
  PROVE  Follows(f, g)
BY DEF Follows

LEMMA InitIsGood == Init => IInv
<1> SUFFICES ASSUME Init PROVE IInv
  OBVIOUS
<1>1. NoOffer \in Offers /\ NoOffer.resolution = "NONE"
  BY DEF NoOffer, Offers, Sides, Resolutions
<1>2. NoVisit \in Visits /\ NoVisit.status = "NONE" /\ NoVisit.interest = "NOT_REQUESTED"
  BY DEF NoVisit, Visits, VisitStatus, InterestState
<1>3. /\ wf \in Workflows /\ wf.state = "NONE" /\ wf.reason = "NONE"
      /\ wf.pending = NoRound /\ wf.confirmed = NoRound
      /\ \A r \in Rounds : wf.offers[r] = NoOffer /\ wf.visits[r] = NoVisit
  BY <1>1, <1>2 DEF Init, Workflows, Considerations, NoRound
<1>4. Scalars
  BY DEF Init, Scalars, ApplicationStatus, ListingStatus, Places, BoundsAssumption
<1>5. Good(wf)
  BY <1>1, <1>2, <1>3 DEF Good, Match, Asked, Reasoned, NoRound, Rounds
<1>6. Quiet(wf)
  BY <1>2, <1>3 DEF Quiet
<1> QED BY <1>4, <1>5, <1>6 DEF IInv, TypeOK, Scalars, Good, Reasoned

LEMMA PlacesAreTyped ==
  ASSUME place \in Places, NEW n \in Nat
  PROVE  /\ Activated \in Places /\ MovedBack \in Places
         /\ [place EXCEPT !.position = n, !.revision = @ + 1] \in Places
<1>1. Activated \in Places
  BY DEF Activated, Places
<1>2. ASSUME NEW p \in Places, NEW m \in Nat, NEW i \in Nat, NEW q \in Nat
      PROVE  /\ [p EXCEPT !.position = m, !.issued = i, !.revision = q] \in Places
             /\ [p EXCEPT !.position = m, !.revision = q] \in Places
  BY DEF Places
<1>3. place.issued + 1 \in Nat /\ place.revision + 1 \in Nat
  BY DEF Places
<1>4. [place EXCEPT !.position = n, !.revision = @ + 1] \in Places
  BY <1>2, <1>3
<1>5. MovedBack \in Places
  BY <1>2, <1>3 DEF MovedBack
<1> QED BY <1>1, <1>4, <1>5

LEMMA ScalarsStep == IInv /\ [Next]_vars => Scalars'
<1> SUFFICES ASSUME IInv, [Next]_vars PROVE Scalars'
  OBVIOUS
<1>1. Scalars
  BY DEF IInv, TypeOK, Scalars
<1> USE <1>1
<1>2. CASE UNCHANGED <<application, activeAt, listing, clock, place>>
  BY <1>2 DEF Scalars
<1>3. CASE CalendarStep
  <2>1. UNCHANGED <<application, activeAt, listing, clock, place>>
    BY <1>3 DEF CalendarStep, Invite, ProposeAlternative, Counterpropose, WithdrawOffer,
         CancelAppointment, CloseCalendar, Accept, Decline, Reschedule, Calendar
  <2> QED BY <1>2, <2>1
<1>4. CASE DecisionStep
  <2> PICK v \in Rounds :
        \/ \E outcome \in Outcomes : RecordOutcome(v, outcome)
        \/ \E reply \in Answers : Answer(v, reply)
        \/ \E consideration \in Considerations : Consider(v, consideration)
        \/ DoNotContinue(v)
    BY <1>4 DEF DecisionStep
  <2>1. ASSUME NEW outcome \in Outcomes, RecordOutcome(v, outcome) PROVE Scalars'
    <3>1. /\ wf.visits[v].from \in Nat /\ wf.visits[v] \in Visits
      BY DEF IInv, TypeOK, Workflows, Visits
    <3>2. MovedBack \in Places /\ [place EXCEPT !.position = wf.visits[v].from, !.revision = @ + 1] \in Places
      BY <3>1, PlacesAreTyped DEF Scalars
    <3>3. place' \in Places /\ UNCHANGED <<application, activeAt, listing, clock>>
      <4>1. CASE Penalizes(v, outcome) /\ ~RestoresPlace(v)
        BY <2>1, <3>2, <4>1 DEF RecordOutcome
      <4>2. CASE RestoresPlace(v) /\ ~Penalizes(v, outcome)
        BY <2>1, <3>2, <4>2 DEF RecordOutcome
      <4>3. CASE ~Penalizes(v, outcome) /\ ~RestoresPlace(v)
        BY <2>1, <3>2, <4>3 DEF RecordOutcome, Scalars
      <4>4. CASE Penalizes(v, outcome) /\ RestoresPlace(v)
        BY <2>1, <3>2, <4>4 DEF RecordOutcome
      <4> QED BY <4>1, <4>2, <4>3, <4>4
    <3> QED BY <3>3 DEF Scalars
  <2>2. ASSUME NEW reply \in Answers, Answer(v, reply) PROVE Scalars'
    BY <2>2 DEF Answer, Scalars, ApplicationStatus
  <2>3. ASSUME NEW consideration \in Considerations, Consider(v, consideration) PROVE Scalars'
    BY <2>3 DEF Consider, Scalars
  <2>4. CASE DoNotContinue(v)
    BY <2>4 DEF DoNotContinue, Scalars, ApplicationStatus
  <2> QED BY <2>1, <2>2, <2>3, <2>4
<1>5. CASE LifecycleStep
  <2>1. CASE Promote \/ Restore
    <3>1. Activated \in Places
      BY PlacesAreTyped DEF Scalars
    <3>2. CASE Promote
      BY <3>1, <3>2 DEF Promote, Scalars, ApplicationStatus
    <3>3. CASE Restore
      BY <3>1, <3>3 DEF Restore, Scalars, ApplicationStatus
    <3> QED BY <2>1, <3>2, <3>3
  <2>2. CASE Withdraw \/ Reject \/ Revalidate \/ MoveToDraft \/ Archive \/ Rent
    BY <2>2 DEF Withdraw, Reject, Revalidate, MoveToDraft, Archive, Rent,
         Scalars, ApplicationStatus, ListingStatus
  <2>3. CASE \/ SetListing("DRAFT", "PUBLISHED") \/ SetListing("PUBLISHED", "PAUSED")
             \/ SetListing("PAUSED", "PUBLISHED")
    BY <2>3 DEF SetListing, Scalars, ListingStatus
  <2> QED BY <1>5, <2>1, <2>2, <2>3 DEF LifecycleStep
<1>6. CASE ExpireOffer
  BY <1>6 DEF ExpireOffer, Scalars
<1>7. ASSUME NEW v \in Rounds, ExpireInterest(v) PROVE Scalars'
  BY <1>7 DEF ExpireInterest, Scalars, ApplicationStatus
<1>8. CASE Tick
  BY <1>8 DEF Tick, Scalars, BoundsAssumption
<1>9. CASE UNCHANGED vars
  BY <1>9 DEF vars, Scalars
<1> QED BY <1>3, <1>4, <1>5, <1>6, <1>7, <1>8, <1>9 DEF Next

\* A command or expiry in the middle of the process: it goes on.
LEMMA CalendarKeeps ==
  ASSUME IInv, CalendarStep \/ ExpireOffer
  PROVE  Kept
<1>1. Good(wf) /\ (CanMutate \/ Quiet(wf)) /\ clock \in Nat /\ wf.revision \in Nat
  BY DEF IInv, TypeOK, Workflows
<1>2. CanMutate => CanMutate'
  BY DEF CalendarStep, Invite, ProposeAlternative, Counterpropose, WithdrawOffer, CancelAppointment,
       CloseCalendar, Accept, Decline, Reschedule, Calendar, ExpireOffer, CanMutate
<1>3. ASSUME Good(wf'), wf'.revision = wf.revision + 1, CanMutate PROVE Kept
  BY <1>1, <1>2, <1>3, MovedOnFollows DEF Kept
<1>4. ASSUME NEW resolution \in {"DECLINED", "SUPERSEDED", "WITHDRAWN", "EXPIRED", "CLOSED"}
      PROVE  LET g == ResolvePending(wf, resolution)
             IN  /\ Good(g) /\ g.pending = NoRound /\ g.state = wf.state /\ g.revision = wf.revision
                 /\ Good(Bump(g)) /\ Bump(g).revision = wf.revision + 1
                 /\ Bump(g).pending = NoRound /\ Bump(g).state = wf.state
  <2> DEFINE g == ResolvePending(wf, resolution)
  <2>1. resolution \in Resolutions \ {"NONE", "PENDING", "ACCEPTED"}
    BY DEF Resolutions
  <2>2. Good(g) /\ g.pending = NoRound /\ g.state = wf.state /\ g.revision = wf.revision
    BY <1>1, <2>1, ResolvePendingIsGood
  <2> HIDE DEF g
  <2>3. Bump(g).pending = g.pending /\ Bump(g).state = g.state
    BY <2>2 DEF Good, Workflows, Bump
  <2>4. Good(Bump(g)) /\ Bump(g).revision = wf.revision + 1
    BY <2>2, BumpIsGood
  <2> QED BY <2>2, <2>3, <2>4 DEF g
<1>5. wf.pending # NoRound \/ wf.confirmed # NoRound => wf.state = "OPEN"
  BY <1>1 DEF Good, Match
<1>6. ASSUME NEW g, Good(g), g.state = "OPEN", g.pending = NoRound, g.revision = wf.revision + 1,
             NEW side \in Sides, Offered(g, side, wf'), CanMutate
      PROVE  Kept
  BY <1>1, <1>3, <1>6, OfferedIsGood
<1>7. CASE Invite
  <2>1. /\ Good(Reopened(wf)) /\ Reopened(wf).state = "OPEN"
        /\ Reopened(wf).pending = wf.pending /\ Reopened(wf).revision = wf.revision + 1
    BY <1>1, ReopenedIsGood
  <2> QED BY <1>6, <1>7, <2>1 DEF Invite, Calendar, Sides
<1>8. CASE ProposeAlternative
  <2> DEFINE g == Bump(ResolvePending(wf, "SUPERSEDED"))
  <2>1. CanMutate /\ wf.pending # NoRound /\ Offered(g, "APPLICANT", wf')
    BY <1>8 DEF ProposeAlternative, Calendar, PendingBy
  <2>2. Good(g) /\ g.state = "OPEN" /\ g.pending = NoRound /\ g.revision = wf.revision + 1
    BY <1>4, <1>5, <2>1
  <2> HIDE DEF g
  <2> QED BY <1>6, <2>1, <2>2 DEF Sides
<1>9. CASE Counterpropose
  <2> DEFINE resolution == IF PendingBy("APPLICANT") THEN "DECLINED" ELSE "SUPERSEDED"
             g == Bump(ResolvePending(wf, resolution))
  <2>1. CanMutate /\ wf.pending # NoRound /\ Offered(g, "PROVIDER", wf')
    BY <1>9 DEF Counterpropose, Calendar
  <2>2. resolution \in {"DECLINED", "SUPERSEDED"}
    OBVIOUS
  <2> HIDE DEF resolution
  <2>3. Good(g) /\ g.state = "OPEN" /\ g.pending = NoRound /\ g.revision = wf.revision + 1
    BY <1>4, <1>5, <2>1, <2>2
  <2> HIDE DEF g
  <2> QED BY <1>6, <2>1, <2>3 DEF Sides
<1>10. ASSUME NEW side \in Sides, Reschedule(side) PROVE Kept
  <2>1. /\ CanMutate /\ wf.pending = NoRound /\ wf.state = "OPEN"
        /\ Offered(Bump(wf), side, wf')
    BY <1>5, <1>10 DEF Reschedule, Calendar
  <2>2. /\ Good(Bump(wf)) /\ Bump(wf).revision = wf.revision + 1
        /\ Bump(wf).state = wf.state /\ Bump(wf).pending = wf.pending
    <3>1. Good(Bump(wf)) /\ Bump(wf).revision = wf.revision + 1
      BY <1>1, BumpIsGood
    <3>2. Bump(wf).state = wf.state /\ Bump(wf).pending = wf.pending
      BY <1>1 DEF Good, Workflows, Bump
    <3> QED BY <3>1, <3>2
  <2> QED BY <1>6, <2>1, <2>2
<1>11. ASSUME NEW side \in Sides, Accept(side) PROVE Kept
  <2>1. CanMutate /\ wf.pending # NoRound /\ wf' = Bump(Appointed(wf))
    BY <1>11 DEF Accept, Calendar
  <2>2. Good(Appointed(wf)) /\ Appointed(wf).revision = wf.revision
    BY <1>1, <2>1, AppointedIsGood
  <2> QED BY <1>3, <2>1, <2>2, BumpIsGood
<1>12. ASSUME NEW side \in Sides, Decline(side) PROVE Kept
  <2>1. CanMutate /\ wf' = Bump(ResolvePending(wf, "DECLINED"))
    BY <1>12 DEF Decline, Calendar
  <2> QED BY <1>3, <1>4, <2>1
<1>13. CASE WithdrawOffer
  <2>1. CanMutate /\ wf' = Bump(ResolvePending(wf, "WITHDRAWN"))
    BY <1>13 DEF WithdrawOffer, Calendar
  <2> QED BY <1>3, <1>4, <2>1
<1>14. CASE CancelAppointment \/ CloseCalendar
  <2> DEFINE g == Cancelled(ResolvePending(wf, "CLOSED"))
             b == Bump(g)
             h == [b EXCEPT !.state = "CLOSED", !.reason = "PROVIDER_CLOSED"]
  <2>1. CanMutate /\ (wf' = b \/ wf' = h) /\ wf.state = "OPEN"
    BY <1>5, <1>14 DEF CancelAppointment, CloseCalendar, Calendar
  <2>2. /\ Good(g) /\ g.pending = NoRound /\ g.confirmed = NoRound
        /\ g.revision = wf.revision /\ g.state = "OPEN"
    BY <1>4, <2>1, CancelledIsGood
  <2> HIDE DEF g
  <2>3. Good(b) /\ b.revision = wf.revision + 1
    BY <2>2, BumpIsGood
  <2>4. /\ h \in Workflows /\ h.state = "CLOSED" /\ h.reason = "PROVIDER_CLOSED"
        /\ h.revision = wf.revision + 1 /\ h.pending = NoRound /\ h.confirmed = NoRound
        /\ h.offers = g.offers /\ h.visits = g.visits
    <3>1. /\ b \in Workflows /\ b.revision = wf.revision + 1 /\ b.pending = NoRound
          /\ b.confirmed = NoRound /\ b.offers = g.offers /\ b.visits = g.visits
      BY <2>2, <2>3 DEF Good, Workflows, Bump
    <3> HIDE DEF b
    <3> QED BY <3>1 DEF Workflows
  <2> HIDE DEF h
  <2>5. Good(h)
    BY <2>2, <2>4 DEF Good, Match, Asked, Reasoned
  <2> QED BY <1>3, <2>1, <2>3, <2>4, <2>5
<1>15. CASE ExpireOffer
  <2>1. wf' = Bump(ResolvePending(wf, "EXPIRED")) /\ wf.state = "OPEN"
    BY <1>15 DEF ExpireOffer, OfferOverdue
  <2>2. CanMutate
    BY <1>1, <2>1 DEF Quiet
  <2> QED BY <1>3, <1>4, <2>1, <2>2
<1> QED
  BY <1>7, <1>8, <1>9, <1>10, <1>11, <1>12, <1>13, <1>14, <1>15 DEF CalendarStep

\* A step that closes the workflow f, which differs from wf in its interests only.
LEMMA ClosingKeeps ==
  ASSUME IInv, NEW f, Good(f), SameCommitments(wf, f), NEW dnc \in BOOLEAN,
         wf' = Close(f, dnc)
  PROVE  Kept
<1>1. /\ Good(Close(f, dnc)) /\ Quiet(Close(f, dnc))
      /\ Close(f, dnc) = f \/ Close(f, dnc).revision = f.revision + 1
  BY CloseIsGood
<1>2. f.revision \in Nat
  BY DEF Good, Workflows
<1>3. Follows(f, Close(f, dnc))
  BY <1>1, <1>2 DEF Follows
<1>4. Follows(wf, wf')
  BY <1>3, SameCommitmentsFollow
<1> QED BY <1>1, <1>4 DEF Kept

LEMMA SameAsItself ==
  ASSUME NEW f PROVE SameCommitments(f, f)
BY DEF SameCommitments

LEMMA DecisionKeeps ==
  ASSUME IInv, DecisionStep \/ \E v \in Rounds : ExpireInterest(v)
  PROVE  Kept
<1>1. Good(wf) /\ (CanMutate \/ Quiet(wf)) /\ wf.revision \in Nat
  BY DEF IInv, TypeOK, Workflows
<1>2. ASSUME Good(wf'), wf'.revision = wf.revision + 1, CanMutate' \/ Quiet(wf') PROVE Kept
  BY <1>1, <1>2, MovedOnFollows DEF Kept
<1>3. ASSUME NEW v \in Rounds, NEW outcome \in Outcomes, RecordOutcome(v, outcome) PROVE Kept
  <2>1. CanMutate => CanMutate'
    BY <1>3 DEF RecordOutcome, CanMutate
  <2>2. Good(wf') /\ wf'.revision = wf.revision + 1 /\ (CanMutate \/ Quiet(wf'))
    BY <1>3, RecordOutcomeIsGood
  <2> QED BY <1>2, <2>1, <2>2
<1>4. ASSUME NEW v \in Rounds, NEW reply \in Answers, Answer(v, reply) PROVE Kept
  <2> DEFINE answered == [wf EXCEPT !.visits[v] = WithInterest(@, reply)]
  <2>1. Good(answered) /\ SameCommitments(wf, answered)
    BY <1>1, AnsweredIsGood
  <2>2. \/ wf' = Bump(answered) /\ CanMutate /\ UNCHANGED <<application, listing>>
        \/ wf' = Close(answered, FALSE)
    BY <1>4 DEF Answer
  <2> HIDE DEF answered
  <2>3. CASE wf' = Bump(answered) /\ CanMutate /\ UNCHANGED <<application, listing>>
    <3>1. CanMutate'
      BY <2>3 DEF CanMutate
    <3>2. Good(wf') /\ wf'.revision = answered.revision + 1
      BY <2>1, <2>3, BumpIsGood
    <3> QED BY <1>2, <2>1, <3>1, <3>2 DEF SameCommitments
  <2>4. CASE wf' = Close(answered, FALSE)
    BY <2>1, <2>4, ClosingKeeps
  <2> QED BY <2>2, <2>3, <2>4
<1>5. ASSUME NEW v \in Rounds, NEW consideration \in Considerations, Consider(v, consideration) PROVE Kept
  <2>1. CanMutate /\ UNCHANGED <<application, listing>>
    BY <1>5 DEF Consider, MayConsider
  <2>2. CanMutate'
    BY <2>1 DEF CanMutate
  <2>3. Good(wf') /\ wf'.revision = wf.revision + 1
    BY <1>1, <1>5, ConsiderationIsGood DEF Consider
  <2> QED BY <1>2, <2>2, <2>3
<1>6. ASSUME NEW v \in Rounds, DoNotContinue(v) PROVE Kept
  BY <1>1, <1>6, ClosingKeeps, SameAsItself DEF DoNotContinue
<1>7. ASSUME NEW v \in Rounds, ExpireInterest(v) PROVE Kept
  <2> DEFINE expired == [wf EXCEPT !.visits[v] = WithInterest(@, "EXPIRED")]
             closed == Close(expired, FALSE)
  <2>1. Good(expired) /\ SameCommitments(wf, expired)
    BY <1>1, AnsweredIsGood
  <2>2. wf' = IF closed.revision = wf.revision THEN Bump(closed) ELSE closed
    BY <1>7 DEF ExpireInterest
  <2> HIDE DEF expired
  <2>3. Good(closed) /\ Quiet(closed) /\ (closed = expired \/ closed.revision = expired.revision + 1)
    BY <2>1, CloseIsGood
  <2> HIDE DEF closed
  <2>4. expired.revision = wf.revision
    BY <2>1 DEF SameCommitments
  <2>5. CASE closed.revision = wf.revision
    <3>1. Good(wf') /\ Quiet(wf') /\ wf'.revision = wf.revision + 1
      BY <2>2, <2>3, <2>5, BumpIsGood
    <3> QED BY <1>2, <3>1
  <2>6. CASE closed.revision # wf.revision
    <3>1. closed.revision = wf.revision + 1
      BY <2>3, <2>4, <2>6
    <3> QED BY <1>2, <2>2, <2>3, <2>6, <3>1
  <2> QED BY <2>5, <2>6
<1> QED BY <1>3, <1>4, <1>5, <1>6, <1>7 DEF DecisionStep

LEMMA LifecycleKeeps ==
  ASSUME IInv, LifecycleStep \/ Tick \/ UNCHANGED vars
  PROVE  Kept
<1>1. Good(wf) /\ (CanMutate \/ Quiet(wf)) /\ wf.revision \in Nat
  BY DEF IInv, TypeOK, Workflows
<1>2. ASSUME wf' = wf, CanMutate => CanMutate' PROVE Kept
  BY <1>1, <1>2 DEF Kept, Follows
<1>3. CASE Withdraw \/ Reject \/ Revalidate \/ MoveToDraft \/ Archive \/ Rent
  <2>1. wf' = Close(wf, FALSE)
    BY <1>3 DEF Withdraw, Reject, Revalidate, MoveToDraft, Archive, Rent
  <2> QED BY <1>1, <2>1, ClosingKeeps, SameAsItself
<1>4. CASE Promote
  BY <1>2, <1>4 DEF Promote, CanMutate
<1>5. CASE Restore
  <2>1. wf' = RestoredWorkflow(wf)
    BY <1>5 DEF Restore
  <2> QED BY <1>1, <2>1, RestoredIsGood DEF Kept
<1>6. CASE \/ SetListing("DRAFT", "PUBLISHED") \/ SetListing("PUBLISHED", "PAUSED")
           \/ SetListing("PAUSED", "PUBLISHED")
  BY <1>2, <1>6 DEF SetListing, CanMutate
<1>7. CASE Tick \/ UNCHANGED vars
  BY <1>2, <1>7 DEF Tick, vars, CanMutate
<1> QED BY <1>3, <1>4, <1>5, <1>6, <1>7 DEF LifecycleStep

LEMMA EveryStepKeeps == IInv /\ [Next]_vars => IInv' /\ Follows(wf, wf')
<1> SUFFICES ASSUME IInv, [Next]_vars PROVE IInv' /\ Follows(wf, wf')
  OBVIOUS
<1>1. Kept
  BY CalendarKeeps, DecisionKeeps, LifecycleKeeps DEF Next
<1>2. Scalars'
  BY ScalarsStep
<1>3. wf' \in Workflows /\ Reasoned(wf')
  BY <1>1 DEF Kept, Good
<1>4. TypeOK'
  BY <1>2, <1>3 DEF TypeOK, Scalars, Reasoned
<1> QED BY <1>1, <1>4 DEF Kept, IInv

-----------------------------------------------------------------------------
\* The workflow's invariant: its types, its commitments, and that it asks for
\* nothing once the process it belongs to has ended.
THEOREM Invariance == Spec => []IInv
<1>1. Init => IInv
  BY InitIsGood
<1>2. IInv /\ [Next]_vars => IInv'
  BY EveryStepKeeps
<1> QED BY <1>1, <1>2, PTL DEF Spec

\* Every variable keeps its type (the columns the transactions of
\* application-viewings.service.ts and application-transitions write).
THEOREM TypeCorrect == Spec => []TypeOK
<1>1. IInv => TypeOK
  BY DEF IInv
<1> QED BY <1>1, Invariance, PTL

\* However commands, expiries and lifecycle operations follow one another, the
\* pointers of the workflow and its offers and appointments agree.
THEOREM CommitmentsHold == Spec => []CommitmentsMatch
<1>1. IInv => CommitmentsMatch
  BY DEF IInv, Good, Match, CommitmentsMatch
<1> QED BY <1>1, Invariance, PTL

\* Whatever ends the application or takes its listing off the market ends the
\* offers, the appointments and the interest requests in the same transaction.
THEOREM EndsWithProcess == Spec => []NothingOutlivesTheProcess
<1>1. IInv => NothingOutlivesTheProcess
  BY DEF IInv, Quiet, NothingOutlivesTheProcess
<1> QED BY <1>1, Invariance, PTL

\* A change of the commitments always moves the revision on: a client that acts
\* on an older picture is refused by the expectedRevision check.
THEOREM RevisionAdvances == Spec => RevisionTellsPicture
<1>1. IInv /\ [Next]_vars =>
        [wf' # wf => /\ wf'.revision >= wf.revision
                     /\ Commitments(wf') # Commitments(wf) => wf'.revision > wf.revision]_vars
  BY EveryStepKeeps DEF Follows
<1> QED BY <1>1, Invariance, PTL DEF Spec, RevisionTellsPicture

-----------------------------------------------------------------------------
(***************************************************************************)
(* What no step undoes.  A workflow g goes on from f when nothing settled  *)
(* in f has changed; every operator but the recording of an outcome makes  *)
(* a workflow go on.                                                       *)
(***************************************************************************)
\* What a visit keeps beside its status and its interest.
SameLedger(x, y) ==
  y.outcomes = x.outcomes /\ y.from = x.from /\ y.to = x.to /\ y.toRevision = x.toRevision

\* The visit x goes on as y in any step but the one that records its outcome: it may be
\* appointed, and until its outcome called off; of its interest only what is open changes.
VisitGoesOn(x, y) ==
  /\ SameLedger(x, y)
  /\ y.status = "NONE" => y = x
  /\ x.status \in Outcomes \cup {"SUPERSEDED", "CANCELLED", "OUTCOME_PENDING"} => y.status = x.status
  /\ x.status = "ACCEPTED" => y.status \in {"ACCEPTED", "SUPERSEDED", "CANCELLED", "OUTCOME_PENDING"}
  /\ x.interest \notin {"NOT_REQUESTED", "PENDING"} => y.interest = x.interest
  /\ y.interest = x.interest \/ y.interest = "CLOSED" \/ x.interest = "PENDING"

\* The offer x goes on as y: once settled it stays so, and the clock has its say.
OfferGoesOn(x, y) ==
  /\ x.resolution \notin {"NONE", "PENDING"} => y = x
  /\ x.resolution = "PENDING" =>
       \/ y = x
       \/ y.resolution \in {"SUPERSEDED", "CLOSED"}
       \/ y.resolution = "EXPIRED" /\ clock >= x.deadline
       \/ y.resolution \in {"ACCEPTED", "DECLINED", "WITHDRAWN"} /\ clock < x.deadline

\* An appointment of f that has started still stands in g.
AppointmentStands(f, g, r) ==
  f.visits[r].status = "ACCEPTED" =>
    /\ g.visits[r].status = "ACCEPTED" => g.offers[r].start = f.offers[r].start
    /\ f.offers[r].start <= clock => g.visits[r].status \in {"ACCEPTED", "OUTCOME_PENDING"}

GoesOn(f, g) ==
  \A r \in Rounds : /\ VisitGoesOn(f.visits[r], g.visits[r])
                    /\ OfferGoesOn(f.offers[r], g.offers[r])
                    /\ AppointmentStands(f, g, r)

\* A row of the ledger: nothing is known of a visit that is none, only a no-show keeps a
\* place to give back, and an applicant is asked only about a visit that took place.
IsRow(x) ==
  /\ x.status = "NONE" => x = NoVisit
  /\ x.outcomes = 0 => x.to = 0 /\ x.interest \in {"NOT_REQUESTED", "CLOSED"}
  /\ x.outcomes = 1 =>
       /\ x.to # 0 => x.status = "APPLICANT_ABSENT"
       /\ x.interest \notin {"NOT_REQUESTED", "CLOSED"} => x.status = "COMPLETED"

Rowed(f) == \A r \in Rounds : IsRow(f.visits[r])

LEMMA VisitGoesOnAgain ==
  ASSUME NEW x, NEW k, NEW y, VisitGoesOn(x, k), VisitGoesOn(k, y)
  PROVE  VisitGoesOn(x, y)
<1>1. SameLedger(x, y)
  BY DEF VisitGoesOn, SameLedger
<1>2. y.status = "NONE" => y = x
  BY DEF VisitGoesOn
<1>3. x.status \in Outcomes \cup {"SUPERSEDED", "CANCELLED", "OUTCOME_PENDING"} => y.status = x.status
  BY DEF VisitGoesOn
<1>4. x.status = "ACCEPTED" => y.status \in {"ACCEPTED", "SUPERSEDED", "CANCELLED", "OUTCOME_PENDING"}
  BY DEF VisitGoesOn
<1>5. /\ x.interest \notin {"NOT_REQUESTED", "PENDING"} => y.interest = x.interest
      /\ y.interest = x.interest \/ y.interest = "CLOSED" \/ x.interest = "PENDING"
  BY DEF VisitGoesOn
<1> QED BY <1>1, <1>2, <1>3, <1>4, <1>5 DEF VisitGoesOn

\* What goes on twice goes on.
LEMMA GoesOnAgain ==
  ASSUME NEW f, NEW k, NEW g, GoesOn(f, k), GoesOn(k, g)
  PROVE  GoesOn(f, g)
<1> SUFFICES ASSUME NEW r \in Rounds
             PROVE  /\ VisitGoesOn(f.visits[r], g.visits[r])
                    /\ OfferGoesOn(f.offers[r], g.offers[r])
                    /\ AppointmentStands(f, g, r)
  BY DEF GoesOn
<1>1. /\ VisitGoesOn(f.visits[r], k.visits[r]) /\ VisitGoesOn(k.visits[r], g.visits[r])
      /\ OfferGoesOn(f.offers[r], k.offers[r]) /\ OfferGoesOn(k.offers[r], g.offers[r])
      /\ AppointmentStands(f, k, r) /\ AppointmentStands(k, g, r)
  BY DEF GoesOn
<1>2. VisitGoesOn(f.visits[r], g.visits[r])
  BY <1>1, VisitGoesOnAgain
<1>3. OfferGoesOn(f.offers[r], g.offers[r])
  BY <1>1 DEF OfferGoesOn
<1>4. AppointmentStands(f, g, r)
  BY <1>1 DEF AppointmentStands, VisitGoesOn
<1> QED BY <1>2, <1>3, <1>4

\* Only the rows count.
LEMMA SameRowsGoOn ==
  ASSUME NEW f, NEW k, NEW g, GoesOn(f, k), g.visits = k.visits, g.offers = k.offers
  PROVE  GoesOn(f, g)
BY DEF GoesOn, AppointmentStands

LEMMA ItGoesOn ==
  ASSUME NEW f
  PROVE  GoesOn(f, f)
BY DEF GoesOn, VisitGoesOn, SameLedger, OfferGoesOn, AppointmentStands

LEMMA RowGoesOn ==
  ASSUME NEW x, NEW y, IsRow(x), VisitGoesOn(x, y)
  PROVE  IsRow(y)
<1>1. ASSUME y.status = "NONE" PROVE y = NoVisit
  BY <1>1 DEF IsRow, VisitGoesOn
<1>2. ASSUME y.outcomes = 0 PROVE y.to = 0 /\ y.interest \in {"NOT_REQUESTED", "CLOSED"}
  BY <1>2 DEF IsRow, VisitGoesOn, SameLedger
<1>3. ASSUME y.outcomes = 1, y.to # 0 PROVE y.status = "APPLICANT_ABSENT"
  BY <1>3 DEF IsRow, VisitGoesOn, SameLedger, Outcomes
<1>4. ASSUME y.outcomes = 1, y.interest \notin {"NOT_REQUESTED", "CLOSED"} PROVE y.status = "COMPLETED"
  <2>1. x.interest \notin {"NOT_REQUESTED", "CLOSED"} /\ x.outcomes = 1
    BY <1>4 DEF VisitGoesOn, SameLedger
  <2> QED BY <2>1 DEF IsRow, VisitGoesOn, Outcomes
<1> QED BY <1>1, <1>2, <1>3, <1>4 DEF IsRow

\* The rows of the ledger remain rows.
LEMMA RowsGoOn ==
  ASSUME NEW f, NEW g, Rowed(f), GoesOn(f, g)
  PROVE  Rowed(g)
<1> SUFFICES ASSUME NEW r \in Rounds PROVE IsRow(g.visits[r])
  BY DEF Rowed
<1>1. IsRow(f.visits[r]) /\ VisitGoesOn(f.visits[r], g.visits[r])
  BY DEF Rowed, GoesOn
<1> QED BY <1>1, RowGoesOn

\* The pending offer of f may be settled so at this instant.
MaySettle(f, resolution) ==
  f.pending # NoRound =>
    \/ resolution \in {"SUPERSEDED", "CLOSED"}
    \/ resolution = "EXPIRED" /\ clock >= f.offers[f.pending].deadline
    \/ resolution \in {"ACCEPTED", "DECLINED", "WITHDRAWN"} /\ clock < f.offers[f.pending].deadline

LEMMA ResolvePendingGoesOn ==
  ASSUME NEW f, Good(f), NEW resolution \in Resolutions \ {"NONE", "PENDING", "ACCEPTED"},
         MaySettle(f, resolution)
  PROVE  GoesOn(f, ResolvePending(f, resolution))
<1>1. CASE f.pending = NoRound
  BY <1>1, ItGoesOn DEF ResolvePending
<1>2. CASE f.pending # NoRound
  <2> DEFINE g == Resolve(f, f.pending, resolution)
  <2>1. f.pending \in Rounds /\ f \in Workflows
    BY <1>2 DEF Good, Workflows
  <2>2. /\ g \in Workflows
        /\ g.offers[f.pending].resolution = resolution
        /\ \A q \in Rounds : q # f.pending => g.offers[q] = f.offers[q]
    BY <2>1, ResolveIsTyped
  <2>3. g.visits = f.visits
    BY <2>1 DEF Resolve, Workflows
  <2>4. ResolvePending(f, resolution) = [g EXCEPT !.pending = NoRound]
    BY <1>2 DEF ResolvePending
  <2> HIDE DEF g
  <2>5. GoesOn(f, g)
    <3> SUFFICES ASSUME NEW r \in Rounds
                 PROVE  /\ VisitGoesOn(f.visits[r], g.visits[r])
                        /\ OfferGoesOn(f.offers[r], g.offers[r])
                        /\ AppointmentStands(f, g, r)
      BY DEF GoesOn
    <3>1. VisitGoesOn(f.visits[r], g.visits[r])
      BY <2>3 DEF VisitGoesOn, SameLedger
    <3>2. CASE r = f.pending
      <4>1. f.offers[r].resolution = "PENDING" /\ f.visits[r].status # "ACCEPTED"
        BY <3>2 DEF Good, Match
      <4> QED BY <1>2, <2>2, <3>1, <3>2, <4>1 DEF OfferGoesOn, AppointmentStands, MaySettle
    <3>3. CASE r # f.pending
      BY <2>2, <2>3, <3>1, <3>3 DEF OfferGoesOn, AppointmentStands
    <3> QED BY <3>2, <3>3
  <2>6. [g EXCEPT !.pending = NoRound].visits = g.visits /\ [g EXCEPT !.pending = NoRound].offers = g.offers
    BY <2>2 DEF Workflows
  <2> QED BY <2>4, <2>5, <2>6, SameRowsGoOn
<1> QED BY <1>1, <1>2

\* Interests end.
LEMMA EndInterestGoesOn ==
  ASSUME NEW visit \in Visits, NEW S \in SUBSET {"PENDING", "NOT_REQUESTED"}
  PROVE  VisitGoesOn(visit, EndInterest(visit, S)) /\ EndInterest(visit, S).status = visit.status
<1>1. CASE visit.status # "NONE" /\ visit.interest \in S
  <2>1. EndInterest(visit, S) = WithInterest(visit, "CLOSED")
    BY <1>1 DEF EndInterest
  <2>2. /\ WithInterest(visit, "CLOSED").interest = "CLOSED"
        /\ WithInterest(visit, "CLOSED").status = visit.status
        /\ SameLedger(visit, WithInterest(visit, "CLOSED"))
    BY DEF WithInterest, Visits, SameLedger
  <2> QED BY <1>1, <2>1, <2>2 DEF VisitGoesOn
<1>2. CASE ~(visit.status # "NONE" /\ visit.interest \in S)
  BY <1>2 DEF EndInterest, VisitGoesOn, SameLedger
<1> QED BY <1>1, <1>2

LEMMA EndInterestsGoOn ==
  ASSUME NEW f, Good(f), NEW S \in SUBSET {"PENDING", "NOT_REQUESTED"}
  PROVE  GoesOn(f, EndInterests(f, S))
<1>1. f \in Workflows /\ \A r \in Rounds : f.visits[r] \in Visits
  BY DEF Good, Workflows
<1>2. /\ EndInterests(f, S).offers = f.offers
      /\ \A r \in Rounds : EndInterests(f, S).visits[r] = EndInterest(f.visits[r], S)
  BY <1>1 DEF EndInterests, Workflows
<1> DEFINE g == EndInterests(f, S)
<1> HIDE DEF g
<1>3. \A r \in Rounds : VisitGoesOn(f.visits[r], g.visits[r]) /\ g.visits[r].status = f.visits[r].status
  BY <1>1, <1>2, EndInterestGoesOn DEF g
<1> QED BY <1>2, <1>3 DEF g, GoesOn, OfferGoesOn, AppointmentStands

LEMMA EndedVisitGoesOn ==
  ASSUME NEW f, Good(f), NEW r \in Rounds
  PROVE  /\ VisitGoesOn(f.visits[r], EndedVisit(f, r))
         /\ f.visits[r].status = "ACCEPTED" /\ f.offers[r].start <= clock =>
              EndedVisit(f, r).status = "OUTCOME_PENDING"
<1>1. f.visits[r] \in Visits
  BY DEF Good, Workflows
<1> DEFINE status == IF f.offers[r].start <= clock THEN "OUTCOME_PENDING" ELSE "CANCELLED"
           visit == IF f.visits[r].status # "ACCEPTED" THEN f.visits[r]
                    ELSE [f.visits[r] EXCEPT !.status = status]
<1>2. /\ visit \in Visits /\ visit.interest = f.visits[r].interest
      /\ SameLedger(f.visits[r], visit)
      /\ f.visits[r].status # "ACCEPTED" => visit = f.visits[r]
      /\ f.visits[r].status = "ACCEPTED" => visit.status = status
  BY <1>1 DEF Visits, VisitStatus, SameLedger
<1>3. status \in {"OUTCOME_PENDING", "CANCELLED"} /\ (f.offers[r].start <= clock => status = "OUTCOME_PENDING")
  OBVIOUS
<1>4. EndedVisit(f, r) = EndInterest(visit, {"PENDING", "NOT_REQUESTED"})
  BY DEF EndedVisit
<1> HIDE DEF visit, status
<1>5. VisitGoesOn(f.visits[r], visit)
  BY <1>2, <1>3 DEF VisitGoesOn, SameLedger, Outcomes
<1>6. /\ VisitGoesOn(visit, EndInterest(visit, {"PENDING", "NOT_REQUESTED"}))
      /\ EndInterest(visit, {"PENDING", "NOT_REQUESTED"}).status = visit.status
  BY <1>2, EndInterestGoesOn
<1>7. VisitGoesOn(f.visits[r], EndedVisit(f, r))
  BY <1>4, <1>5, <1>6, VisitGoesOnAgain
<1> QED BY <1>2, <1>3, <1>4, <1>6, <1>7

LEMMA EndedGoesOn ==
  ASSUME NEW f, Good(f), NEW dnc \in BOOLEAN
  PROVE  GoesOn(f, Ended(f, dnc))
<1> DEFINE g == ResolvePending(f, "CLOSED")
           visits == [r \in Rounds |-> EndedVisit(f, r)]
           h == [g EXCEPT !.state = "CLOSED",
                          !.reason = IF f.state = "CLOSED" THEN @ ELSE "ENDED",
                          !.confirmed = NoRound,
                          !.consideration = IF dnc THEN "DO_NOT_CONTINUE" ELSE @,
                          !.visits = visits]
<1>1. Good(g) /\ g.visits = f.visits /\ GoesOn(f, g)
  BY ResolvePendingIsGood, ResolvePendingGoesOn DEF Resolutions, MaySettle
<1>2. Ended(f, dnc) = Bump(h)
  BY DEF Ended
<1> HIDE DEF g
<1>3. h.visits = visits /\ h.offers = g.offers /\ h.revision = g.revision
  BY <1>1 DEF Good, Workflows
<1>4. \A r \in Rounds : visits[r] = EndedVisit(f, r)
  OBVIOUS
<1> HIDE DEF visits
<1>5. Bump(h).visits = visits /\ Bump(h).offers = g.offers
  <2>1. "revision" \in DOMAIN h /\ "visits" \in DOMAIN h /\ "offers" \in DOMAIN h
    BY <1>1 DEF Good, Workflows
  <2> HIDE DEF h
  <2> QED BY <1>3, <2>1 DEF Bump
<1> HIDE DEF h
<1>6. \A r \in Rounds : /\ VisitGoesOn(f.visits[r], visits[r])
                        /\ f.visits[r].status = "ACCEPTED" /\ f.offers[r].start <= clock =>
                             visits[r].status = "OUTCOME_PENDING"
                        /\ visits[r].status # "ACCEPTED"
  BY <1>4, EndedVisitGoesOn, EndedVisitIsTyped
<1> QED BY <1>1, <1>2, <1>5, <1>6 DEF GoesOn, AppointmentStands

LEMMA BumpGoesOn ==
  ASSUME NEW f, NEW g \in Workflows, GoesOn(f, g)
  PROVE  GoesOn(f, Bump(g))
<1>1. Bump(g).visits = g.visits /\ Bump(g).offers = g.offers
  BY DEF Bump, Workflows
<1> QED BY <1>1, SameRowsGoOn

LEMMA HistoricalGoesOn ==
  ASSUME NEW f, Good(f)
  PROVE  GoesOn(f, Historical(f))
<1>1. CASE \E r \in Rounds : f.visits[r].interest = "PENDING"
  <2>1. /\ GoesOn(f, EndInterests(f, {"PENDING"})) /\ Good(EndInterests(f, {"PENDING"}))
    BY EndInterestsGoOn, EndInterestsAreGood
  <2> QED BY <1>1, <2>1, BumpGoesOn DEF Historical, Good
<1>2. CASE ~ \E r \in Rounds : f.visits[r].interest = "PENDING"
  BY <1>2, ItGoesOn DEF Historical
<1> QED BY <1>1, <1>2

LEMMA CloseGoesOn ==
  ASSUME NEW f, Good(f), NEW dnc \in BOOLEAN
  PROVE  GoesOn(f, Close(f, dnc))
<1>1. f.state \in {"NONE", "OPEN", "CLOSED"}
  BY DEF Good, Workflows
<1>2. CASE f.state = "NONE"
  <2>1. LiveVisits(f) = {}
    BY <1>2 DEF Good, Match, LiveVisits, NoRound, Rounds
  <2> QED BY <1>2, <2>1, ItGoesOn DEF Close
<1>3. CASE f.state = "CLOSED" /\ LiveVisits(f) = {}
  BY <1>3, HistoricalGoesOn DEF Close
<1>4. CASE f.state # "NONE" /\ (f.state = "OPEN" \/ LiveVisits(f) # {})
  <2>1. Close(f, dnc) = Ended(f, dnc)
    BY <1>4 DEF Close
  <2> QED BY <2>1, EndedGoesOn
<1> QED BY <1>1, <1>2, <1>3, <1>4

\* An open interest is answered, or expires.
LEMMA AnsweredGoesOn ==
  ASSUME NEW f, Good(f), NEW v \in Rounds, NEW state \in Answers \cup {"EXPIRED"},
         f.visits[v].interest = "PENDING"
  PROVE  GoesOn(f, [f EXCEPT !.visits[v] = WithInterest(@, state)])
<1> DEFINE k == [f EXCEPT !.visits[v] = WithInterest(@, state)]
<1>1. f \in Workflows /\ f.visits \in [Rounds -> Visits]
  BY DEF Good, Workflows
<1>2. /\ WithInterest(f.visits[v], state).status = f.visits[v].status
      /\ WithInterest(f.visits[v], state).interest = state
      /\ SameLedger(f.visits[v], WithInterest(f.visits[v], state))
      /\ f.visits[v].status # "NONE"
  BY <1>1 DEF WithInterest, Visits, SameLedger, Good, Asked
<1>3. /\ k.offers = f.offers /\ k.visits[v] = WithInterest(f.visits[v], state)
      /\ \A r \in Rounds : r # v => k.visits[r] = f.visits[r]
  BY <1>1 DEF Workflows
<1> HIDE DEF k
<1>4. ASSUME NEW r \in Rounds
      PROVE  VisitGoesOn(f.visits[r], k.visits[r]) /\ k.visits[r].status = f.visits[r].status
  <2>1. CASE r = v
    BY <1>2, <1>3, <2>1 DEF VisitGoesOn
  <2>2. CASE r # v
    BY <1>3, <2>2 DEF VisitGoesOn, SameLedger
  <2> QED BY <2>1, <2>2
<1>5. GoesOn(f, k)
  BY <1>3, <1>4 DEF GoesOn, OfferGoesOn, AppointmentStands
<1> QED BY <1>5 DEF k

LEMMA RestoredGoesOn ==
  ASSUME NEW f, Good(f)
  PROVE  GoesOn(f, RestoredWorkflow(f))
<1> DEFINE g == EndInterests(f, {"PENDING", "NOT_REQUESTED"})
           h == Close(g, FALSE)
           Undecided(k) == Bump([k EXCEPT !.consideration = "UNDECIDED"])
<1>1. Good(g) /\ GoesOn(f, g)
  BY EndInterestsAreGood, EndInterestsGoOn
<1>2. Good(h) /\ GoesOn(f, h)
  <2> HIDE DEF g
  <2> QED BY <1>1, CloseIsGood, CloseGoesOn, GoesOnAgain
<1>3. RestoredWorkflow(f) \in {Undecided(g), Undecided(h), h}
  BY DEF RestoredWorkflow
<1> HIDE DEF g, h
<1>4. ASSUME NEW k, Good(k), GoesOn(f, k) PROVE GoesOn(f, Undecided(k))
  <2> DEFINE l == [k EXCEPT !.consideration = "UNDECIDED"]
  <2>1. l \in Workflows /\ l.visits = k.visits /\ l.offers = k.offers
    BY <1>4 DEF Good, Workflows, Considerations
  <2> HIDE DEF l
  <2>2. GoesOn(f, l)
    BY <1>4, <2>1, SameRowsGoOn
  <2> QED BY <2>1, <2>2, BumpGoesOn DEF l
<1> HIDE DEF Undecided
<1> QED BY <1>1, <1>2, <1>3, <1>4

LEMMA OfferedGoesOn ==
  ASSUME NEW f, Good(f), NEW side, NEW g, Offered(f, side, g)
  PROVE  GoesOn(f, g)
<1>1. PICK r \in Rounds, start \in (clock + 1)..MaxClock :
        /\ \A q \in Rounds : f.offers[q].resolution # "NONE" <=> q < r
        /\ g = [f EXCEPT !.pending = r,
                         !.offers[r] = [by |-> side, start |-> start, resolution |-> "PENDING",
                                        deadline |-> Deadline(f, start)]]
  BY DEF Offered
<1>2. g.visits = f.visits /\ \A q \in Rounds : q # r => g.offers[q] = f.offers[q]
  BY <1>1 DEF Good, Workflows
<1>3. f.offers[r].resolution = "NONE" /\ f.visits[r].status # "ACCEPTED"
  <2>1. f.offers[r].resolution = "NONE"
    BY <1>1 DEF Rounds
  <2> QED BY <2>1 DEF Good, Match
<1>4. ASSUME NEW q \in Rounds
      PROVE  /\ VisitGoesOn(f.visits[q], g.visits[q])
             /\ OfferGoesOn(f.offers[q], g.offers[q])
             /\ AppointmentStands(f, g, q)
  <2>1. VisitGoesOn(f.visits[q], g.visits[q])
    BY <1>2 DEF VisitGoesOn, SameLedger
  <2>2. CASE q = r
    BY <1>3, <2>1, <2>2 DEF OfferGoesOn, AppointmentStands
  <2>3. CASE q # r
    BY <1>2, <2>1, <2>3 DEF OfferGoesOn, AppointmentStands
  <2> QED BY <2>2, <2>3
<1> QED BY <1>4 DEF GoesOn

LEMMA ReopenedGoesOn ==
  ASSUME NEW f, Good(f)
  PROVE  GoesOn(f, Reopened(f))
<1> DEFINE g == IF f.state = "CLOSED" THEN EndInterests(f, {"PENDING", "NOT_REQUESTED"}) ELSE f
           h == [g EXCEPT !.state = "OPEN", !.reason = "NONE"]
<1>1. Good(g) /\ GoesOn(f, g)
  BY EndInterestsAreGood, EndInterestsGoOn, ItGoesOn
<1>2. Reopened(f) = Bump(h)
  BY DEF Reopened
<1> HIDE DEF g
<1>3. h \in Workflows /\ h.visits = g.visits /\ h.offers = g.offers
  BY <1>1 DEF Good, Workflows
<1> HIDE DEF h
<1>4. GoesOn(f, h)
  BY <1>1, <1>3, SameRowsGoOn
<1> QED BY <1>2, <1>3, <1>4, BumpGoesOn

\* An offer that is accepted in time takes the place of an appointment yet to come.
LEMMA AppointedGoesOn ==
  ASSUME NEW f, Good(f), Rowed(f), f.pending # NoRound, MaySettle(f, "ACCEPTED"),
         NotStarted(f), clock \in Nat
  PROVE  GoesOn(f, Appointed(f))
<1> DEFINE p == f.pending
           g == Resolve(f, p, "ACCEPTED")
           appointment == [NoVisit EXCEPT !.status = "ACCEPTED"]
           superseded(r) == [f.visits[r] EXCEPT !.status = "SUPERSEDED"]
           visits == [r \in Rounds |->
                        CASE r = f.pending -> appointment
                          [] r = f.confirmed /\ r # f.pending -> superseded(r)
                          [] OTHER -> f.visits[r]]
           h == [g EXCEPT !.visits = visits, !.confirmed = p, !.pending = NoRound]
<1>1. p \in Rounds /\ f \in Workflows
  BY DEF Good, Workflows
<1>2. /\ g \in Workflows
      /\ g.offers[p].resolution = "ACCEPTED"
      /\ \A q \in Rounds : q # p => g.offers[q] = f.offers[q]
  <2>1. "ACCEPTED" \in Resolutions
    BY DEF Resolutions
  <2> QED BY <1>1, <2>1, ResolveIsTyped
<1>3. /\ appointment.status = "ACCEPTED" /\ appointment.interest = NoVisit.interest
      /\ SameLedger(NoVisit, appointment) /\ NoVisit.status = "NONE"
  BY DEF NoVisit, SameLedger
<1>4. \A r \in Rounds : /\ superseded(r).status = "SUPERSEDED"
                        /\ superseded(r).interest = f.visits[r].interest
                        /\ SameLedger(f.visits[r], superseded(r))
  BY <1>1 DEF Workflows, Visits, SameLedger
<1>5. Appointed(f) = h
  BY DEF Appointed
<1> HIDE DEF appointment, superseded, g
<1>6. h.visits = visits /\ h.offers = g.offers
  BY <1>2 DEF Workflows
<1> HIDE DEF h
<1>7. ASSUME NEW r \in Rounds
      PROVE  /\ VisitGoesOn(f.visits[r], visits[r])
             /\ OfferGoesOn(f.offers[r], g.offers[r])
             /\ f.visits[r].status = "ACCEPTED" =>
                  /\ visits[r].status = "ACCEPTED" => g.offers[r].start = f.offers[r].start
                  /\ f.offers[r].start <= clock => visits[r].status \in {"ACCEPTED", "OUTCOME_PENDING"}
  <2>1. CASE r = p
    <3>1. f.offers[r].resolution = "PENDING" /\ f.visits[r].status = "NONE"
      BY <2>1 DEF Good, Match
    <3>2. f.visits[r] = NoVisit /\ visits[r] = appointment
      BY <2>1, <3>1 DEF Rowed, IsRow
    <3>3. VisitGoesOn(f.visits[r], visits[r])
      BY <1>3, <3>2 DEF VisitGoesOn, Outcomes
    <3>4. OfferGoesOn(f.offers[r], g.offers[r])
      BY <1>2, <2>1, <3>1 DEF OfferGoesOn, MaySettle
    <3> QED BY <3>1, <3>3, <3>4
  <2>2. CASE r # p /\ r = f.confirmed
    <3>1. f.visits[r].status = "ACCEPTED" /\ clock < f.offers[r].start /\ visits[r] = superseded(r)
      BY <2>2 DEF Good, Match, NotStarted, NoRound, Rounds
    <3>2. VisitGoesOn(f.visits[r], visits[r])
      BY <1>4, <3>1 DEF VisitGoesOn, Outcomes
    <3>3. OfferGoesOn(f.offers[r], g.offers[r])
      BY <1>2, <2>2 DEF OfferGoesOn
    <3>4. ~(f.offers[r].start <= clock)
      BY <1>1, <3>1 DEF Workflows, Offers
    <3> QED BY <1>4, <3>1, <3>2, <3>3, <3>4
  <2>3. CASE r # p /\ r # f.confirmed
    <3>1. f.visits[r].status # "ACCEPTED" /\ visits[r] = f.visits[r]
      BY <2>3 DEF Good, Match
    <3>2. OfferGoesOn(f.offers[r], g.offers[r])
      BY <1>2, <2>3 DEF OfferGoesOn
    <3> QED BY <3>1, <3>2 DEF VisitGoesOn, SameLedger
  <2> QED BY <2>1, <2>2, <2>3
<1> HIDE DEF visits
<1>8. GoesOn(f, h)
  BY <1>6, <1>7 DEF GoesOn, AppointmentStands
<1> QED BY <1>5, <1>8

LEMMA CancelledGoesOn ==
  ASSUME NEW f, Good(f), NotStarted(f), clock \in Nat
  PROVE  GoesOn(f, Cancelled(f))
<1> DEFINE c == f.confirmed
           w == [f.visits[c] EXCEPT !.status = "CANCELLED"]
           h == [f EXCEPT !.visits[c] = w, !.confirmed = NoRound]
<1>1. CASE c = NoRound
  BY <1>1, ItGoesOn DEF Cancelled
<1>2. CASE c # NoRound
  <2>1. c \in Rounds /\ f \in Workflows /\ f.offers[c].start \in Nat
    BY <1>2 DEF Good, Workflows, Offers
  <2>2. Cancelled(f) = h
    BY <1>2, <2>1 DEF Cancelled, Workflows
  <2>3. /\ w.status = "CANCELLED" /\ w.interest = f.visits[c].interest
        /\ SameLedger(f.visits[c], w)
    BY <2>1 DEF Workflows, Visits, SameLedger
  <2> HIDE DEF w
  <2>4. /\ h.offers = f.offers /\ h.visits[c] = w
        /\ \A r \in Rounds : r # c => h.visits[r] = f.visits[r]
    BY <2>1 DEF Workflows
  <2> HIDE DEF h
  <2>5. f.visits[c].status = "ACCEPTED" /\ clock < f.offers[c].start
    BY <1>2, <2>1 DEF Good, Match, NotStarted
  <2>6. ASSUME NEW r \in Rounds
        PROVE  VisitGoesOn(f.visits[r], h.visits[r]) /\ AppointmentStands(f, h, r)
    <3>1. CASE r = c
      <4>1. ~(f.offers[c].start <= clock)
        BY <2>1, <2>5
      <4> QED BY <2>3, <2>4, <2>5, <3>1, <4>1 DEF VisitGoesOn, AppointmentStands, Outcomes
    <3>2. CASE r # c
      BY <2>4, <3>2 DEF VisitGoesOn, SameLedger, AppointmentStands
    <3> QED BY <3>1, <3>2
  <2> QED BY <2>2, <2>4, <2>6 DEF GoesOn, OfferGoesOn
<1> QED BY <1>1, <1>2

\* A calendar command that finds nothing overdue is in time, and it calls off or
\* replaces only an appointment that has not started.
LEMMA CalendarGoesOn ==
  ASSUME IInv, Rowed(wf), CalendarStep \/ ExpireOffer
  PROVE  GoesOn(wf, wf')
<1>1. /\ Good(wf) /\ wf \in Workflows /\ clock \in Nat
      /\ wf.pending # NoRound => wf.state = "OPEN" /\ wf.offers[wf.pending].deadline \in Nat
  BY DEF IInv, TypeOK, Good, Match, Workflows, Offers
<1>2. ASSUME Timely(wf), NEW resolution \in {"ACCEPTED", "DECLINED", "SUPERSEDED", "WITHDRAWN", "CLOSED"}
      PROVE  MaySettle(wf, resolution)
  <2>1. wf.pending # NoRound => clock < wf.offers[wf.pending].deadline
    BY <1>1, <1>2 DEF Timely, OfferOverdue
  <2> QED BY <2>1 DEF MaySettle
<1>3. ASSUME Timely(wf), NEW resolution \in {"DECLINED", "SUPERSEDED", "WITHDRAWN", "CLOSED"}
      PROVE  LET g == ResolvePending(wf, resolution)
             IN  /\ Good(g) /\ GoesOn(wf, g)
                 /\ Good(Bump(g)) /\ GoesOn(wf, Bump(g))
                 /\ g.confirmed = wf.confirmed
                 /\ NotStarted(wf) => NotStarted(g)
  <2> DEFINE g == ResolvePending(wf, resolution)
  <2>1. resolution \in Resolutions \ {"NONE", "PENDING", "ACCEPTED"} /\ MaySettle(wf, resolution)
    BY <1>2, <1>3 DEF Resolutions
  <2>2. Good(g) /\ GoesOn(wf, g) /\ g.confirmed = wf.confirmed /\ g.visits = wf.visits
    BY <1>1, <2>1, ResolvePendingIsGood, ResolvePendingGoesOn
  <2> HIDE DEF g
  <2>3. Good(Bump(g)) /\ GoesOn(wf, Bump(g))
    BY <2>2, BumpIsGood, BumpGoesOn DEF Good
  <2>4. ASSUME NotStarted(wf) PROVE NotStarted(g)
    <3>1. CASE wf.confirmed = NoRound
      BY <2>2, <3>1 DEF NotStarted
    <3>2. CASE wf.confirmed # NoRound
      <4>1. wf.confirmed \in Rounds /\ wf.visits[wf.confirmed].status = "ACCEPTED"
        BY <1>1, <3>2 DEF Workflows, Good, Match
      <4>2. g.offers[wf.confirmed].start = wf.offers[wf.confirmed].start
        BY <2>2, <4>1 DEF GoesOn, AppointmentStands
      <4> QED BY <2>2, <2>4, <4>2 DEF NotStarted
    <3> QED BY <3>1, <3>2
  <2> QED BY <2>2, <2>3, <2>4 DEF g
<1>4. ASSUME NEW g, Good(g), GoesOn(wf, g), NEW side, Offered(g, side, wf')
      PROVE  GoesOn(wf, wf')
  BY <1>4, OfferedGoesOn, GoesOnAgain
<1>5. CASE Invite
  <2>1. Good(Reopened(wf)) /\ GoesOn(wf, Reopened(wf))
    BY <1>1, ReopenedIsGood, ReopenedGoesOn
  <2> QED BY <1>4, <1>5, <2>1 DEF Invite
<1>6. CASE ProposeAlternative
  BY <1>3, <1>4, <1>6 DEF ProposeAlternative, Calendar
<1>7. CASE Counterpropose
  <2> DEFINE resolution == IF PendingBy("APPLICANT") THEN "DECLINED" ELSE "SUPERSEDED"
             g == Bump(ResolvePending(wf, resolution))
  <2>1. Timely(wf) /\ Offered(g, "PROVIDER", wf')
    BY <1>7 DEF Counterpropose, Calendar
  <2>2. resolution \in {"DECLINED", "SUPERSEDED"}
    OBVIOUS
  <2> HIDE DEF resolution
  <2>3. Good(g) /\ GoesOn(wf, g)
    BY <1>3, <2>1, <2>2
  <2> HIDE DEF g
  <2> QED BY <1>4, <2>1, <2>3
<1>8. ASSUME NEW side \in Sides, Reschedule(side) PROVE GoesOn(wf, wf')
  <2>1. Good(Bump(wf)) /\ GoesOn(wf, Bump(wf)) /\ Offered(Bump(wf), side, wf')
    BY <1>1, <1>8, BumpIsGood, BumpGoesOn, ItGoesOn DEF Reschedule
  <2> QED BY <1>4, <2>1
<1>9. ASSUME NEW side \in Sides, Accept(side) PROVE GoesOn(wf, wf')
  <2>1. wf.pending # NoRound /\ NotStarted(wf) /\ Timely(wf) /\ wf' = Bump(Appointed(wf))
    BY <1>9 DEF Accept, Calendar
  <2>2. Good(Appointed(wf)) /\ GoesOn(wf, Appointed(wf))
    BY <1>1, <1>2, <2>1, AppointedIsGood, AppointedGoesOn
  <2> QED BY <2>1, <2>2, BumpGoesOn DEF Good
<1>10. ASSUME NEW side \in Sides, Decline(side) PROVE GoesOn(wf, wf')
  BY <1>3, <1>10 DEF Decline, Calendar
<1>11. CASE WithdrawOffer
  BY <1>3, <1>11 DEF WithdrawOffer, Calendar
<1>12. CASE CancelAppointment \/ CloseCalendar
  <2> DEFINE k == ResolvePending(wf, "CLOSED")
             g == Cancelled(k)
             b == Bump(g)
             h == [b EXCEPT !.state = "CLOSED", !.reason = "PROVIDER_CLOSED"]
  <2>1. Timely(wf) /\ NotStarted(wf) /\ (wf' = b \/ wf' = h)
    BY <1>12 DEF CancelAppointment, CloseCalendar, Calendar
  <2>2. Good(k) /\ GoesOn(wf, k) /\ NotStarted(k) /\ k.pending = NoRound
    BY <1>1, <1>3, <2>1, ResolvePendingIsGood DEF Resolutions
  <2> HIDE DEF k
  <2>3. Good(g) /\ GoesOn(wf, g)
    BY <1>1, <2>2, CancelledIsGood, CancelledGoesOn, GoesOnAgain
  <2> HIDE DEF g
  <2>4. b \in Workflows /\ GoesOn(wf, b)
    BY <2>3, BumpIsGood, BumpGoesOn DEF Good
  <2> HIDE DEF b
  <2>5. h.visits = b.visits /\ h.offers = b.offers
    BY <2>4 DEF Workflows
  <2> QED BY <2>1, <2>4, <2>5, SameRowsGoOn
<1>13. CASE ExpireOffer
  <2> DEFINE g == ResolvePending(wf, "EXPIRED")
  <2>1. wf' = Bump(g) /\ MaySettle(wf, "EXPIRED")
    BY <1>1, <1>13 DEF ExpireOffer, OfferOverdue, MaySettle
  <2>2. Good(g) /\ GoesOn(wf, g)
    BY <1>1, <2>1, ResolvePendingIsGood, ResolvePendingGoesOn DEF Resolutions
  <2> HIDE DEF g
  <2> QED BY <2>1, <2>2, BumpGoesOn DEF Good
<1> QED BY <1>5, <1>6, <1>7, <1>8, <1>9, <1>10, <1>11, <1>12, <1>13 DEF CalendarStep

LEMMA LifecycleGoesOn ==
  ASSUME IInv, LifecycleStep \/ Tick \/ UNCHANGED vars
  PROVE  GoesOn(wf, wf')
<1>1. CASE LifecycleStep
  <2>1. \/ wf' = Close(wf, FALSE) \/ wf' = RestoredWorkflow(wf) \/ wf' = wf
    BY <1>1 DEF LifecycleStep, Withdraw, Reject, Revalidate, MoveToDraft, Archive, Rent,
         Promote, Restore, SetListing
  <2>2. Good(wf)
    BY DEF IInv
  <2> QED BY <2>1, <2>2, CloseGoesOn, RestoredGoesOn, ItGoesOn
<1>2. CASE Tick \/ UNCHANGED vars
  BY <1>2, ItGoesOn DEF Tick, vars
<1> QED BY <1>1, <1>2

\* So does every decision but the recording of an outcome.
LEMMA DecidedGoesOn ==
  ASSUME IInv, NEW v \in Rounds,
         \/ \E reply \in Answers : Answer(v, reply)
         \/ \E consideration \in Considerations : Consider(v, consideration)
         \/ DoNotContinue(v) \/ ExpireInterest(v)
  PROVE  GoesOn(wf, wf')
<1>1. Good(wf) /\ wf \in Workflows
  BY DEF IInv, Good
<1>2. ASSUME NEW state \in Answers \cup {"EXPIRED"}, wf.visits[v].interest = "PENDING"
      PROVE  LET k == [wf EXCEPT !.visits[v] = WithInterest(@, state)]
             IN  /\ GoesOn(wf, k) /\ GoesOn(wf, Bump(k))
                 /\ Good(Close(k, FALSE)) /\ GoesOn(wf, Close(k, FALSE))
  <2> DEFINE k == [wf EXCEPT !.visits[v] = WithInterest(@, state)]
  <2>1. Good(k) /\ GoesOn(wf, k)
    BY <1>1, <1>2, AnsweredIsGood, AnsweredGoesOn
  <2> HIDE DEF k
  <2>2. GoesOn(wf, Bump(k)) /\ Good(Close(k, FALSE)) /\ GoesOn(wf, Close(k, FALSE))
    BY <2>1, BumpGoesOn, CloseIsGood, CloseGoesOn, GoesOnAgain DEF Good
  <2> QED BY <2>1, <2>2 DEF k
<1>3. ASSUME NEW reply \in Answers, Answer(v, reply) PROVE GoesOn(wf, wf')
  BY <1>2, <1>3 DEF Answer
<1>4. ASSUME NEW consideration \in Considerations, Consider(v, consideration) PROVE GoesOn(wf, wf')
  <2> DEFINE k == [wf EXCEPT !.consideration = consideration]
  <2>1. k \in Workflows /\ k.visits = wf.visits /\ k.offers = wf.offers
    BY <1>1 DEF Workflows
  <2>2. wf' = Bump(k)
    BY <1>4 DEF Consider
  <2> HIDE DEF k
  <2>3. GoesOn(wf, k)
    BY <2>1, ItGoesOn, SameRowsGoOn
  <2> QED BY <2>1, <2>2, <2>3, BumpGoesOn
<1>5. CASE DoNotContinue(v)
  BY <1>1, <1>5, CloseGoesOn DEF DoNotContinue
<1>6. CASE ExpireInterest(v)
  <2> DEFINE closed == Close([wf EXCEPT !.visits[v] = WithInterest(@, "EXPIRED")], FALSE)
  <2>1. wf' = closed \/ wf' = Bump(closed)
    BY <1>6 DEF ExpireInterest
  <2>2. Good(closed) /\ GoesOn(wf, closed)
    BY <1>2, <1>6 DEF ExpireInterest, InterestOverdue
  <2> HIDE DEF closed
  <2> QED BY <2>1, <2>2, BumpGoesOn DEF Good
<1> QED BY <1>3, <1>4, <1>5, <1>6

\* The outcome of a visit is recorded or corrected.
Records == \E v \in Rounds, outcome \in Outcomes : RecordOutcome(v, outcome)

LEMMA StepGoesOn ==
  ASSUME IInv, Rowed(wf), [Next]_vars, ~Records
  PROVE  GoesOn(wf, wf')
<1>1. CASE CalendarStep \/ ExpireOffer
  BY <1>1, CalendarGoesOn
<1>2. CASE DecisionStep \/ \E v \in Rounds : ExpireInterest(v)
  BY <1>2, DecidedGoesOn DEF DecisionStep, Records
<1>3. CASE LifecycleStep \/ Tick \/ UNCHANGED vars
  BY <1>3, LifecycleGoesOn
<1> QED BY <1>1, <1>2, <1>3 DEF Next

-----------------------------------------------------------------------------
(***************************************************************************)
(* The outcome writes the row of its visit; what it ends beside that goes  *)
(* on as in any other step.                                                *)
(***************************************************************************)
LEMMA OutcomeRows ==
  ASSUME IInv, NEW v \in Rounds, NEW outcome \in Outcomes, RecordOutcome(v, outcome)
  PROVE  /\ wf'.visits[v] = WithOutcome(v, outcome)
         /\ \A r \in Rounds : r # v => /\ VisitGoesOn(wf.visits[r], wf'.visits[r])
                                       /\ wf'.visits[r].status = wf.visits[r].status
         /\ \A r \in Rounds : OfferGoesOn(wf.offers[r], wf'.offers[r])
<1> DEFINE w == WithOutcome(v, outcome)
           others == IF IsLatest(wf, v) THEN EndInterests(wf, {"PENDING"}) ELSE wf
           resolved == ResolvePending(others, "CLOSED")
           owned == IF wf.confirmed # v THEN others ELSE [resolved EXCEPT !.confirmed = NoRound]
           h == [owned EXCEPT !.visits[v] = w]
<1>1. wf' = Bump(h)
  BY DEF RecordOutcome
<1>2. Good(wf)
  BY DEF IInv
<1>3. Good(others) /\ SameCommitments(wf, others) /\ GoesOn(wf, others)
  BY <1>2, EndInterestsAreGood, EndInterestsGoOn, ItGoesOn DEF SameCommitments
<1> HIDE DEF w, others
<1>4. Good(resolved) /\ GoesOn(others, resolved) /\ resolved.visits = others.visits
  BY <1>3, ResolvePendingIsGood, ResolvePendingGoesOn DEF Resolutions, MaySettle
<1> HIDE DEF resolved
<1>5. GoesOn(wf, resolved)
  BY <1>3, <1>4, GoesOnAgain
<1>6. /\ owned \in Workflows /\ GoesOn(wf, owned) /\ owned.visits = others.visits
  <2>1. CASE wf.confirmed = v
    <3>1. owned = [resolved EXCEPT !.confirmed = NoRound]
      BY <2>1
    <3>2. owned \in Workflows /\ owned.visits = resolved.visits /\ owned.offers = resolved.offers
      BY <1>4, <3>1 DEF Good, Workflows
    <3> QED BY <1>4, <1>5, <3>2, SameRowsGoOn
  <2>2. CASE wf.confirmed # v
    BY <1>3, <2>2 DEF Good
  <2> QED BY <2>1, <2>2
<1> HIDE DEF owned
<1>7. Bump(h).visits = h.visits /\ Bump(h).offers = h.offers
  <2>1. "revision" \in DOMAIN h /\ "visits" \in DOMAIN h /\ "offers" \in DOMAIN h
    BY <1>6 DEF Workflows
  <2> HIDE DEF h
  <2> QED BY <2>1 DEF Bump
<1>8. /\ h.offers = owned.offers /\ h.visits[v] = w
      /\ \A r \in Rounds : r # v => h.visits[r] = others.visits[r]
  BY <1>6 DEF Workflows
<1>9. wf'.visits = h.visits /\ wf'.offers = h.offers
  BY <1>1, <1>7 DEF owned, resolved, others, w
<1> HIDE DEF h
<1>10. ASSUME NEW r \in Rounds, r # v
       PROVE  /\ VisitGoesOn(wf.visits[r], wf'.visits[r])
              /\ wf'.visits[r].status = wf.visits[r].status
  <2>1. wf'.visits[r] = others.visits[r]
    BY <1>8, <1>9, <1>10
  <2> QED BY <1>3, <2>1 DEF GoesOn, SameCommitments
<1>11. ASSUME NEW r \in Rounds PROVE OfferGoesOn(wf.offers[r], wf'.offers[r])
  BY <1>6, <1>8, <1>9 DEF GoesOn
<1> QED BY <1>8, <1>9, <1>10, <1>11 DEF w

\* The row an outcome writes, field by field.
LEMMA OutcomeWritten ==
  ASSUME IInv, NEW v \in Rounds, NEW outcome \in Outcomes, RecordOutcome(v, outcome)
  PROVE  LET x == wf.visits[v]
             y == WithOutcome(v, outcome)
         IN  /\ x.status # "NONE"
             /\ y.status = outcome /\ y.outcomes = x.outcomes + 1
             /\ y.from = (IF Penalizes(v, outcome) THEN place.position ELSE x.from)
             /\ y.to = (IF Penalizes(v, outcome) THEN place.issued + 1 ELSE x.to)
             /\ y.toRevision = (IF Penalizes(v, outcome) THEN place.revision + 1 ELSE x.toRevision)
             /\ outcome = "COMPLETED" => y.interest = "CLOSED" \/ (y.interest = "PENDING" /\ x.interest # "CLOSED")
             /\ outcome # "COMPLETED" => y.interest = (IF x.interest = "PENDING" THEN "CLOSED" ELSE x.interest)
<1> DEFINE x == wf.visits[v]
           y == WithOutcome(v, outcome)
<1>1. x \in Visits /\ place \in Places /\ x.status # "NONE"
  BY DEF IInv, TypeOK, Workflows, RecordOutcome
<1>2. MovedBack.position = place.issued + 1 /\ MovedBack.revision = place.revision + 1
  BY <1>1 DEF MovedBack, Places
<1>3. EndInterest(x, {"PENDING"}).interest = IF x.interest = "PENDING" THEN "CLOSED" ELSE x.interest
  BY <1>1 DEF EndInterest, WithInterest, Visits
<1>4. /\ y.status = outcome /\ y.outcomes = x.outcomes + 1
      /\ y.from = (IF Penalizes(v, outcome) THEN place.position ELSE x.from)
      /\ y.to = (IF Penalizes(v, outcome) THEN MovedBack.position ELSE x.to)
      /\ y.toRevision = (IF Penalizes(v, outcome) THEN MovedBack.revision ELSE x.toRevision)
      /\ y.interest = CASE outcome = "COMPLETED" /\ Requests(v) -> "PENDING"
                        [] outcome = "COMPLETED" /\ ~Requests(v) -> "CLOSED"
                        [] outcome # "COMPLETED" -> EndInterest(x, {"PENDING"}).interest
  BY DEF WithOutcome
<1>5. outcome = "COMPLETED" => y.interest = "CLOSED" \/ (y.interest = "PENDING" /\ x.interest # "CLOSED")
  <2>1. CASE Requests(v)
    BY <1>4, <2>1 DEF Requests
  <2>2. CASE ~Requests(v)
    BY <1>4, <2>2
  <2> QED BY <2>1, <2>2
<1>6. outcome # "COMPLETED" => y.interest = EndInterest(x, {"PENDING"}).interest
  BY <1>4
<1> HIDE DEF y
<1> QED BY <1>1, <1>2, <1>3, <1>4, <1>5, <1>6 DEF y

\* An outcome leaves a row, and asks nobody again.
LEMMA OutcomeAsksOnce ==
  ASSUME IInv, Rowed(wf), NEW v \in Rounds, NEW outcome \in Outcomes, RecordOutcome(v, outcome)
  PROVE  /\ IsRow(WithOutcome(v, outcome))
         /\ wf.visits[v].interest \notin {"NOT_REQUESTED", "PENDING"} =>
              WithOutcome(v, outcome).interest = wf.visits[v].interest
<1> DEFINE x == wf.visits[v]
           y == WithOutcome(v, outcome)
<1>1. /\ y.status = outcome /\ y.outcomes = x.outcomes + 1
      /\ y.to = (IF Penalizes(v, outcome) THEN place.issued + 1 ELSE x.to)
      /\ outcome = "COMPLETED" => y.interest = "CLOSED" \/ (y.interest = "PENDING" /\ x.interest # "CLOSED")
      /\ outcome # "COMPLETED" => y.interest = (IF x.interest = "PENDING" THEN "CLOSED" ELSE x.interest)
  BY OutcomeWritten
<1>2. x.outcomes \in 0..2 /\ x.interest \in InterestState /\ IsRow(x)
  BY DEF IInv, TypeOK, Workflows, Visits, Rowed
<1>3. \/ x.outcomes = 0
      \/ x.outcomes = 1 /\ x.interest \notin Answers /\ outcome # x.status
  BY DEF RecordOutcome, MayRecord, MayCorrect, IsCorrection
<1>4. Penalizes(v, outcome) => outcome = "APPLICANT_ABSENT"
  BY DEF Penalizes
<1> HIDE DEF y
<1>5. IsRow(y)
  BY <1>1, <1>2, <1>3, <1>4 DEF IsRow, Outcomes
<1>6. ASSUME x.interest \notin {"NOT_REQUESTED", "PENDING"} PROVE y.interest = x.interest
  <2>1. CASE outcome # "COMPLETED"
    BY <1>1, <1>6, <2>1
  <2>2. CASE outcome = "COMPLETED" /\ x.interest = "CLOSED"
    BY <1>1, <2>2
  <2>3. CASE outcome = "COMPLETED" /\ x.interest # "CLOSED"
    BY <1>2, <1>3, <1>6, <2>3 DEF IsRow
  <2> QED BY <2>1, <2>2, <2>3
<1> QED BY <1>5, <1>6 DEF y

-----------------------------------------------------------------------------
\* The rows of the ledger are kept by every step, and no step asks again.
LEMMA RowsAreKept ==
  ASSUME IInv, Rowed(wf), [Next]_vars
  PROVE  /\ Rowed(wf')
         /\ \A r \in Rounds : wf.visits[r].interest \notin {"NOT_REQUESTED", "PENDING"} =>
              wf'.visits[r].interest = wf.visits[r].interest
<1>1. CASE ~Records
  <2>1. GoesOn(wf, wf')
    BY <1>1, StepGoesOn
  <2>2. Rowed(wf')
    BY <2>1, RowsGoOn
  <2> QED BY <2>1, <2>2 DEF GoesOn, VisitGoesOn
<1>2. CASE Records
  <2>1. PICK v \in Rounds, outcome \in Outcomes : RecordOutcome(v, outcome)
    BY <1>2 DEF Records
  <2>2. ASSUME NEW r \in Rounds
        PROVE  /\ IsRow(wf'.visits[r])
               /\ wf.visits[r].interest \notin {"NOT_REQUESTED", "PENDING"} =>
                    wf'.visits[r].interest = wf.visits[r].interest
    <3>1. CASE r = v
      <4>1. wf'.visits[r] = WithOutcome(v, outcome)
        BY <2>1, <3>1, OutcomeRows
      <4> QED BY <2>1, <3>1, <4>1, OutcomeAsksOnce
    <3>2. CASE r # v
      <4>1. VisitGoesOn(wf.visits[r], wf'.visits[r])
        BY <2>1, <3>2, OutcomeRows
      <4>2. IsRow(wf'.visits[r])
        BY <4>1, RowGoesOn DEF Rowed
      <4> QED BY <4>1, <4>2 DEF VisitGoesOn
    <3> QED BY <3>1, <3>2
  <2> QED BY <2>2 DEF Rowed
<1> QED BY <1>1, <1>2

\* The workflow's invariant with the rows of its ledger.
LedgerInv == IInv /\ Rowed(wf)

LEMMA LedgerIsKept == LedgerInv /\ [Next]_vars => LedgerInv'
<1> SUFFICES ASSUME LedgerInv, [Next]_vars PROVE LedgerInv'
  OBVIOUS
<1>1. IInv'
  BY EveryStepKeeps DEF LedgerInv
<1>2. Rowed(wf')
  BY RowsAreKept DEF LedgerInv
<1>3. Rowed(wf)'
  BY <1>2 DEF Rowed
<1> QED BY <1>1, <1>3 DEF LedgerInv

LEMMA InitIsRowed == Init => LedgerInv
<1> SUFFICES ASSUME Init PROVE LedgerInv
  OBVIOUS
<1>1. \A r \in Rounds : wf.visits[r] = NoVisit
  BY DEF Init
<1>2. IsRow(NoVisit)
  BY DEF IsRow, NoVisit
<1> QED BY <1>1, <1>2, InitIsGood DEF LedgerInv, Rowed

\* The ledger keeps to its rows (the CHECKs of the outcome and interest columns).
THEOREM LedgerInvariance == Spec => []LedgerInv
<1>1. Init => LedgerInv
  BY InitIsRowed
<1>2. LedgerInv /\ [Next]_vars => LedgerInv'
  BY LedgerIsKept
<1> QED BY <1>1, <1>2, PTL DEF Spec

\* An applicant is asked about a visit once: no correction, reopening or restoration
\* takes back an answer, an expiry or a closure (outcomeWithinTransaction keeps the
\* interest of a row it has closed, and corrects no row that was answered).
THEOREM AskedOnceOnly == Spec => AskedOnce
<1>1. LedgerInv /\ [Next]_vars =>
        [\A r \in Rounds :
           wf.visits[r].interest \notin {"NOT_REQUESTED", "PENDING"} =>
             wf'.visits[r].interest = wf.visits[r].interest]_vars
  BY RowsAreKept DEF LedgerInv
<1> QED BY <1>1, LedgerInvariance, PTL DEF Spec, AskedOnce

LEMMA DeadlinesInStep ==
  ASSUME LedgerInv, [Next]_vars, NEW r \in Rounds
  PROVE  StartedStands(r) /\ OfferSettlesInTime(r)
<1>1. CASE ~Records
  <2>1. /\ VisitGoesOn(wf.visits[r], wf'.visits[r])
        /\ OfferGoesOn(wf.offers[r], wf'.offers[r])
        /\ AppointmentStands(wf, wf', r)
    BY <1>1, StepGoesOn DEF LedgerInv, GoesOn
  <2>2. StartedStands(r)
    BY <2>1 DEF StartedStands, AppointmentStands, VisitGoesOn
  <2>3. OfferSettlesInTime(r)
    BY <2>1 DEF OfferSettlesInTime, OfferGoesOn
  <2> QED BY <2>2, <2>3
<1>2. CASE Records
  <2>1. PICK v \in Rounds, outcome \in Outcomes : RecordOutcome(v, outcome)
    BY <1>2 DEF Records
  <2>2. /\ wf'.visits[v].status = outcome
        /\ r # v => wf'.visits[r].status = wf.visits[r].status
        /\ OfferGoesOn(wf.offers[r], wf'.offers[r])
    BY <2>1, OutcomeRows, OutcomeWritten DEF LedgerInv
  <2>3. StartedStands(r)
    BY <2>2 DEF StartedStands
  <2>4. OfferSettlesInTime(r)
    BY <2>2 DEF OfferSettlesInTime, OfferGoesOn
  <2> QED BY <2>3, <2>4
<1> QED BY <1>1, <1>2

\* Time decides: no command answers an offer that has run out, and none calls off or
\* replaces an appointment that has begun (execute() expires what is overdue before
\* apply(), and closeWithinTransaction() keeps a started appointment).
THEOREM DeadlinesKept == Spec => DeadlinesAreKept
<1>1. LedgerInv /\ [Next]_vars => [\A r \in Rounds : StartedStands(r) /\ OfferSettlesInTime(r)]_vars
  BY DeadlinesInStep
<1> QED BY <1>1, LedgerInvariance, PTL DEF Spec, DeadlinesAreKept

-----------------------------------------------------------------------------
(***************************************************************************)
(* The place.  PlaceIsJustified is not inductive: a corrected no-show gives*)
(* back the place its row remembers, which must be justified as well, and  *)
(* by an earlier no-show that can no longer be corrected.                  *)
(***************************************************************************)
\* The round r of f is a no-show that moved the application to a position.
MovedTo(f, r, position) ==
  f.visits[r].status = "APPLICANT_ABSENT" /\ f.visits[r].to = position

Revisable(f, r) == IsLatest(f, r) /\ f.visits[r].outcomes = 1

\* Round r of f can be corrected, and the place p is still the one it gave.
GivesBack(f, p, r) ==
  Revisable(f, r) /\ f.visits[r].to # 0 /\ f.visits[r].toRevision = p.revision

\* Positions and revisions of places were given out in order.
Issued(f, p) ==
  /\ p.placed <= p.issued /\ p.position <= p.issued
  /\ \A r \in Rounds : f.visits[r].to <= p.issued /\ f.visits[r].toRevision <= p.revision

\* The no-show that justifies the place can give it back while it can be corrected.
Justified(f, p) ==
  \/ p.position = p.placed
  \/ /\ p.position > p.placed
     /\ \E r \in Rounds : MovedTo(f, r, p.position) /\ (Revisable(f, r) => GivesBack(f, p, r))

\* What a no-show gives back is justified by an earlier one.
GivesJustified(f, p) ==
  \A r \in Rounds : GivesBack(f, p, r) =>
    \/ f.visits[r].from = p.placed
    \/ /\ f.visits[r].from > p.placed
       /\ \E q \in Rounds : q < r /\ MovedTo(f, q, f.visits[r].from)

PlacesFit ==
  Issued(wf, place) /\ (application = "ACTIVE" => Justified(wf, place) /\ GivesJustified(wf, place))

\* A workflow that goes on keeps its no-shows, and none becomes correctable again.
LEMMA NoShowsGoOn ==
  ASSUME NEW f, NEW g, GoesOn(f, g), NEW r \in Rounds
  PROVE  /\ SameLedger(f.visits[r], g.visits[r])
         /\ \A position : MovedTo(f, r, position) => MovedTo(g, r, position)
         /\ Revisable(g, r) => Revisable(f, r)
         /\ \A p : GivesBack(g, p, r) => GivesBack(f, p, r)
<1>1. \A q \in Rounds : VisitGoesOn(f.visits[q], g.visits[q])
  BY DEF GoesOn
<1>2. SameLedger(f.visits[r], g.visits[r])
  BY <1>1 DEF VisitGoesOn
<1>3. ASSUME NEW position, MovedTo(f, r, position) PROVE MovedTo(g, r, position)
  BY <1>1, <1>2, <1>3 DEF MovedTo, VisitGoesOn, SameLedger, Outcomes
<1>4. ASSUME IsLatest(g, r) PROVE IsLatest(f, r)
  BY <1>1, <1>4 DEF IsLatest, VisitGoesOn
<1>5. Revisable(g, r) => Revisable(f, r)
  BY <1>2, <1>4 DEF Revisable, SameLedger
<1>6. ASSUME NEW p, GivesBack(g, p, r) PROVE GivesBack(f, p, r)
  BY <1>2, <1>5, <1>6 DEF GivesBack, SameLedger
<1> QED BY <1>2, <1>3, <1>5, <1>6

\* The same place remains justified as the workflow goes on.
LEMMA SamePlaceFits ==
  ASSUME NEW f, NEW g, NEW p, GoesOn(f, g)
  PROVE  /\ Issued(f, p) => Issued(g, p)
         /\ Justified(f, p) => Justified(g, p)
         /\ GivesJustified(f, p) => GivesJustified(g, p)
<1>1. ASSUME Issued(f, p) PROVE Issued(g, p)
  BY <1>1, NoShowsGoOn DEF Issued, SameLedger
<1>2. ASSUME Justified(f, p) PROVE Justified(g, p)
  <2>1. CASE p.position = p.placed
    BY <2>1 DEF Justified
  <2>2. CASE p.position # p.placed
    <3>1. PICK r \in Rounds : MovedTo(f, r, p.position) /\ (Revisable(f, r) => GivesBack(f, p, r))
      BY <1>2, <2>2 DEF Justified
    <3>2. MovedTo(g, r, p.position) /\ SameLedger(f.visits[r], g.visits[r])
      BY <3>1, NoShowsGoOn
    <3>3. Revisable(g, r) => GivesBack(f, p, r)
      BY <3>1, NoShowsGoOn
    <3>4. Revisable(g, r) => GivesBack(g, p, r)
      BY <3>2, <3>3 DEF GivesBack, SameLedger
    <3> QED BY <1>2, <2>2, <3>2, <3>4 DEF Justified
  <2> QED BY <2>1, <2>2
<1>3. ASSUME GivesJustified(f, p), NEW r \in Rounds, GivesBack(g, p, r)
      PROVE  \/ g.visits[r].from = p.placed
             \/ /\ g.visits[r].from > p.placed
                /\ \E q \in Rounds : q < r /\ MovedTo(g, q, g.visits[r].from)
  <2>1. GivesBack(f, p, r) /\ g.visits[r].from = f.visits[r].from
    BY <1>3, NoShowsGoOn DEF SameLedger
  <2>2. CASE f.visits[r].from = p.placed
    BY <2>1, <2>2
  <2>3. CASE f.visits[r].from # p.placed
    <3>1. PICK q \in Rounds : q < r /\ MovedTo(f, q, f.visits[r].from)
      BY <1>3, <2>1, <2>3 DEF GivesJustified
    <3>2. f.visits[r].from > p.placed
      BY <1>3, <2>1, <2>3 DEF GivesJustified
    <3>3. MovedTo(g, q, f.visits[r].from)
      BY <3>1, NoShowsGoOn
    <3> QED BY <2>1, <3>1, <3>2, <3>3
  <2> QED BY <2>2, <2>3
<1> QED BY <1>1, <1>2, <1>3 DEF GivesJustified

\* Nothing is given back to a place newer than every no-show.
LEMMA NothingGivesBack ==
  ASSUME NEW f \in Workflows, NEW g \in Workflows, NEW p \in Places, NEW q \in Places, Issued(f, p),
         q.revision = p.revision + 1,
         NEW r \in Rounds, g.visits[r].toRevision = f.visits[r].toRevision
  PROVE  ~GivesBack(g, q, r)
<1>1. f.visits[r].toRevision \in Nat /\ p.revision \in Nat /\ f.visits[r].toRevision <= p.revision
  BY DEF Workflows, Visits, Places, Issued
<1> QED BY <1>1 DEF GivesBack

\* An activation assigns a place that owes nothing to a no-show.
LEMMA FreshPlaceFits ==
  ASSUME NEW f \in Workflows, NEW g \in Workflows, NEW p \in Places, NEW q \in Places,
         GoesOn(f, g), Issued(f, p),
         q.revision = p.revision + 1, q.issued = p.issued + 1,
         q.position = q.issued, q.placed = q.issued
  PROVE  Issued(g, q) /\ Justified(g, q) /\ GivesJustified(g, q)
<1>1. ASSUME NEW r \in Rounds
      PROVE  /\ g.visits[r].to <= q.issued /\ g.visits[r].toRevision <= q.revision
             /\ ~GivesBack(g, q, r)
  <2>1. g.visits[r].to = f.visits[r].to /\ g.visits[r].toRevision = f.visits[r].toRevision
    BY NoShowsGoOn DEF SameLedger
  <2>2. /\ f.visits[r].to \in Nat /\ f.visits[r].toRevision \in Nat
        /\ f.visits[r].to <= p.issued /\ f.visits[r].toRevision <= p.revision
    BY DEF Workflows, Visits, Issued
  <2>3. p.issued \in Nat /\ p.revision \in Nat
    BY DEF Places
  <2>4. ~GivesBack(g, q, r)
    BY <2>1, NothingGivesBack
  <2> QED BY <2>1, <2>2, <2>3, <2>4
<1>2. q.placed <= q.issued /\ q.position <= q.issued
  BY DEF Places
<1> QED BY <1>1, <1>2 DEF Issued, Justified, GivesJustified

\* Beside the visit of the outcome the no-shows stay as they were.
LEMMA OtherNoShows ==
  ASSUME LedgerInv, NEW v \in Rounds, NEW outcome \in Outcomes, RecordOutcome(v, outcome),
         NEW r \in Rounds
  PROVE  /\ IsLatest(wf', r) <=> IsLatest(wf, r)
         /\ r # v =>
              /\ SameLedger(wf.visits[r], wf'.visits[r])
              /\ \A position : MovedTo(wf, r, position) => MovedTo(wf', r, position)
              /\ Revisable(wf', r) <=> Revisable(wf, r)
              /\ \A p : GivesBack(wf', p, r) <=> GivesBack(wf, p, r)
<1>1. /\ wf.visits[v].status # "NONE" /\ wf'.visits[v].status = outcome /\ outcome # "NONE"
      /\ \A q \in Rounds : q # v => wf'.visits[q].status = wf.visits[q].status
  BY OutcomeRows, OutcomeWritten DEF LedgerInv, Outcomes
<1>2. IsLatest(wf', r) <=> IsLatest(wf, r)
  BY <1>1 DEF IsLatest
<1>3. ASSUME r # v
      PROVE  /\ SameLedger(wf.visits[r], wf'.visits[r])
             /\ \A position : MovedTo(wf, r, position) => MovedTo(wf', r, position)
             /\ Revisable(wf', r) <=> Revisable(wf, r)
             /\ \A p : GivesBack(wf', p, r) <=> GivesBack(wf, p, r)
  <2>1. SameLedger(wf.visits[r], wf'.visits[r])
    BY <1>3, OutcomeRows DEF VisitGoesOn, LedgerInv
  <2>2. Revisable(wf', r) <=> Revisable(wf, r)
    BY <1>2, <2>1 DEF Revisable, SameLedger
  <2> QED BY <1>1, <1>3, <2>1, <2>2 DEF MovedTo, GivesBack, SameLedger
<1> QED BY <1>2, <1>3

\* An outcome is recorded first, or corrected while nothing was appointed since.
LEMMA FirstOrCorrection ==
  ASSUME LedgerInv, NEW v \in Rounds, NEW outcome \in Outcomes, RecordOutcome(v, outcome)
  PROVE  /\ wf.visits[v].status # "NONE"
         /\ \/ ~IsCorrection(v) /\ wf.visits[v].outcomes = 0
               /\ wf.visits[v].to = 0 /\ wf.visits[v].status \notin Outcomes
            \/ IsCorrection(v) /\ Revisable(wf, v) /\ outcome # wf.visits[v].status
<1>1. CASE MayRecord(v)
  BY <1>1 DEF RecordOutcome, MayRecord, IsCorrection, LedgerInv, Rowed, IsRow, Outcomes
<1>2. CASE MayCorrect(v, outcome)
  BY <1>2 DEF RecordOutcome, MayCorrect, IsCorrection, Revisable
<1> QED BY <1>1, <1>2 DEF RecordOutcome

\* No outcome both moves the application and gives its place back.
LEMMA PenaltyOrRestoration ==
  ASSUME LedgerInv, NEW v \in Rounds, NEW outcome \in Outcomes, RecordOutcome(v, outcome)
  PROVE  ~(Penalizes(v, outcome) /\ RestoresPlace(v))
<1>1. ASSUME Penalizes(v, outcome), RestoresPlace(v) PROVE FALSE
  <2>1. outcome = "APPLICANT_ABSENT" /\ IsCorrection(v) /\ wf.visits[v].to # 0
    BY <1>1 DEF Penalizes, RestoresPlace
  <2>2. wf.visits[v].status = "APPLICANT_ABSENT"
    BY <2>1 DEF IsCorrection, LedgerInv, Rowed, IsRow
  <2> QED BY <2>1, <2>2, FirstOrCorrection
<1> QED BY <1>1

LEMMA MovedBackIs ==
  ASSUME place \in Places
  PROVE  /\ MovedBack \in Places
         /\ MovedBack.position = place.issued + 1 /\ MovedBack.issued = place.issued + 1
         /\ MovedBack.revision = place.revision + 1 /\ MovedBack.placed = place.placed
<1>1. MovedBack \in Places
  BY 0 \in Nat, PlacesAreTyped
<1>2. MovedBack.position = place.issued + 1
  BY DEF MovedBack, Places
<1>3. MovedBack.issued = place.issued + 1
  BY DEF MovedBack, Places
<1>4. MovedBack.revision = place.revision + 1
  BY DEF MovedBack, Places
<1>5. MovedBack.placed = place.placed
  BY DEF MovedBack, Places
<1> QED BY <1>1, <1>2, <1>3, <1>4, <1>5

\* A no-show moves the application behind everybody, and remembers the place it had.
LEMMA PenaltyFits ==
  ASSUME LedgerInv, PlacesFit, NEW v \in Rounds, NEW outcome \in Outcomes,
         RecordOutcome(v, outcome), Penalizes(v, outcome)
  PROVE  Issued(wf', place') /\ Justified(wf', place') /\ GivesJustified(wf', place')
<1>1. /\ wf \in Workflows /\ wf' \in Workflows /\ place \in Places
  BY EveryStepKeeps, RecordOutcomeIsGood DEF LedgerInv, IInv, TypeOK, Good
<1>2. /\ Issued(wf, place) /\ Justified(wf, place)
      /\ IsLatest(wf, v) /\ outcome = "APPLICANT_ABSENT"
  BY DEF PlacesFit, Penalizes, CanMutate
<1>3. place' = MovedBack
  BY PenaltyOrRestoration DEF RecordOutcome
<1>4. /\ place' \in Places /\ place'.position = place.issued + 1 /\ place'.issued = place.issued + 1
      /\ place'.revision = place.revision + 1 /\ place'.placed = place.placed
  BY <1>1, <1>3, MovedBackIs
<1>5. /\ wf'.visits[v].status = outcome
      /\ wf'.visits[v].from = place.position
      /\ wf'.visits[v].to = place.issued + 1
      /\ wf'.visits[v].toRevision = place.revision + 1
  BY OutcomeRows, OutcomeWritten DEF LedgerInv
<1>6. \A r \in Rounds : r # v => SameLedger(wf.visits[r], wf'.visits[r])
  BY OtherNoShows
<1>7. /\ place.issued \in Nat /\ place.revision \in Nat /\ place.placed \in Nat /\ place.position \in Nat
      /\ \A r \in Rounds : wf.visits[r].to \in Nat /\ wf.visits[r].toRevision \in Nat
  BY <1>1 DEF Places, Workflows, Visits
<1>8. Issued(wf', place')
  <2>1. ASSUME NEW r \in Rounds
        PROVE  wf'.visits[r].to <= place'.issued /\ wf'.visits[r].toRevision <= place'.revision
    <3>1. CASE r = v
      BY <1>4, <1>5, <1>7, <3>1
    <3>2. CASE r # v
      BY <1>2, <1>4, <1>6, <1>7, <3>2 DEF Issued, SameLedger
    <3> QED BY <3>1, <3>2
  <2>2. place'.placed <= place'.issued /\ place'.position <= place'.issued
    BY <1>2, <1>4, <1>7 DEF Issued
  <2> QED BY <2>1, <2>2 DEF Issued
<1>9. Justified(wf', place')
  <2>1. place'.position > place'.placed
    BY <1>2, <1>4, <1>7 DEF Issued
  <2>2. MovedTo(wf', v, place'.position)
    BY <1>2, <1>4, <1>5 DEF MovedTo
  <2>3. Revisable(wf', v) => GivesBack(wf', place', v)
    BY <1>4, <1>5, <1>7 DEF GivesBack
  <2> QED BY <2>1, <2>2, <2>3 DEF Justified
<1>10. ASSUME NEW r \in Rounds, GivesBack(wf', place', r)
       PROVE  \/ wf'.visits[r].from = place'.placed
              \/ /\ wf'.visits[r].from > place'.placed
                 /\ \E q \in Rounds : q < r /\ MovedTo(wf', q, wf'.visits[r].from)
  <2>1. r = v
    <3>1. ASSUME r # v PROVE FALSE
      <4>1. wf'.visits[r].toRevision = wf.visits[r].toRevision
        BY <1>6, <3>1 DEF SameLedger
      <4> QED BY <1>1, <1>2, <1>4, <1>10, <4>1, NothingGivesBack
    <3> QED BY <3>1
  <2>2. CASE place.position = place.placed
    BY <1>4, <1>5, <2>1, <2>2
  <2>3. CASE place.position # place.placed
    <3>1. /\ place.position > place.placed
          /\ \E q \in Rounds : MovedTo(wf, q, place.position)
      BY <1>2, <2>3 DEF Justified
    <3>2. PICK q \in Rounds : MovedTo(wf, q, place.position)
      BY <3>1
    <3>3. q # v
      BY <1>2, <3>2, FirstOrCorrection DEF MovedTo, Outcomes
    <3>4. q < v
      <4>1. ~(q > v)
        BY <1>2, <3>2 DEF IsLatest, MovedTo
      <4> QED BY <3>3, <4>1 DEF Rounds
    <3>5. MovedTo(wf', q, place.position)
      BY <3>2, <3>3, OtherNoShows
    <3> QED BY <1>4, <1>5, <2>1, <3>1, <3>4, <3>5
  <2> QED BY <2>2, <2>3
<1> QED BY <1>8, <1>9, <1>10 DEF GivesJustified

\* A corrected no-show gives back a place that is justified without it.
LEMMA RestorationFits ==
  ASSUME LedgerInv, PlacesFit, NEW v \in Rounds, NEW outcome \in Outcomes,
         RecordOutcome(v, outcome), ~Penalizes(v, outcome), RestoresPlace(v)
  PROVE  Issued(wf', place') /\ Justified(wf', place') /\ GivesJustified(wf', place')
<1>1. /\ wf \in Workflows /\ wf' \in Workflows /\ place \in Places
  BY RecordOutcomeIsGood DEF LedgerInv, IInv, TypeOK, Good
<1>2. /\ Issued(wf, place) /\ GivesJustified(wf, place)
      /\ wf.visits[v].to # 0 /\ wf.visits[v].toRevision = place.revision
  BY DEF PlacesFit, RestoresPlace
<1>3. place' = [place EXCEPT !.position = wf.visits[v].from, !.revision = @ + 1]
  BY DEF RecordOutcome
<1>4. /\ place' \in Places /\ place'.position = wf.visits[v].from /\ place'.issued = place.issued
      /\ place'.revision = place.revision + 1 /\ place'.placed = place.placed
  <2>1. wf.visits[v].from \in Nat
    BY <1>1 DEF Workflows, Visits
  <2>2. place' = [[place EXCEPT !.position = wf.visits[v].from] EXCEPT !.revision = @ + 1]
    BY <1>1, <1>3 DEF Places
  <2> DEFINE k == [place EXCEPT !.position = wf.visits[v].from]
  <2>3. /\ k \in Places /\ k.position = wf.visits[v].from /\ k.issued = place.issued
        /\ k.revision = place.revision /\ k.placed = place.placed
    BY <1>1, <2>1 DEF Places
  <2> HIDE DEF k
  <2>4. /\ [k EXCEPT !.revision = @ + 1] \in Places
        /\ [k EXCEPT !.revision = @ + 1].position = k.position
        /\ [k EXCEPT !.revision = @ + 1].issued = k.issued
        /\ [k EXCEPT !.revision = @ + 1].placed = k.placed
        /\ [k EXCEPT !.revision = @ + 1].revision = k.revision + 1
    BY <2>3 DEF Places
  <2> QED BY <2>2, <2>3, <2>4 DEF k
<1>5. wf'.visits[v].to = wf.visits[v].to /\ wf'.visits[v].toRevision = wf.visits[v].toRevision
  BY OutcomeRows, OutcomeWritten DEF LedgerInv
<1>6. \A r \in Rounds : /\ wf'.visits[r].to = wf.visits[r].to
                        /\ wf'.visits[r].toRevision = wf.visits[r].toRevision
  BY <1>5, OtherNoShows DEF SameLedger
<1>7. /\ place.issued \in Nat /\ place.revision \in Nat /\ place.placed \in Nat
      /\ \A r \in Rounds : wf.visits[r].to \in Nat /\ wf.visits[r].toRevision \in Nat
                           /\ wf.visits[r].from \in Nat
  BY <1>1 DEF Places, Workflows, Visits
<1>8. GivesBack(wf, place, v)
  BY <1>2, FirstOrCorrection DEF GivesBack, RestoresPlace
<1>9. /\ Justified(wf', place') /\ place'.position <= place.issued
  <2>1. CASE wf.visits[v].from = place.placed
    BY <1>2, <1>4, <2>1 DEF Justified, Issued
  <2>2. CASE wf.visits[v].from # place.placed
    <3>1. PICK q \in Rounds : q < v /\ MovedTo(wf, q, wf.visits[v].from)
      BY <1>2, <1>8, <2>2 DEF GivesJustified
    <3>2. wf.visits[v].from > place.placed
      BY <1>2, <1>8, <2>2 DEF GivesJustified
    <3>3. MovedTo(wf', q, place'.position)
      BY <1>4, <3>1, OtherNoShows DEF Rounds
    <3>4. ~Revisable(wf', q)
      <4>1. v > q /\ wf.visits[v].status # "NONE"
        BY <3>1, FirstOrCorrection DEF Rounds
      <4>2. ~IsLatest(wf, q)
        BY <4>1 DEF IsLatest
      <4> QED BY <4>2, OtherNoShows DEF Revisable
    <3>5. place'.position <= place.issued
      BY <1>2, <1>4, <3>1 DEF Issued, MovedTo
    <3> QED BY <1>4, <3>2, <3>3, <3>4, <3>5 DEF Justified
  <2> QED BY <2>1, <2>2
<1>10. Issued(wf', place')
  BY <1>2, <1>4, <1>6, <1>7, <1>9 DEF Issued
<1>11. \A r \in Rounds : ~GivesBack(wf', place', r)
  BY <1>1, <1>2, <1>4, <1>6, NothingGivesBack
<1> QED BY <1>9, <1>10, <1>11 DEF GivesJustified

\* Any other outcome leaves the place and what justifies it.
LEMMA OtherOutcomeFits ==
  ASSUME LedgerInv, PlacesFit, NEW v \in Rounds, NEW outcome \in Outcomes,
         RecordOutcome(v, outcome), ~Penalizes(v, outcome), ~RestoresPlace(v)
  PROVE  /\ Issued(wf', place')
         /\ application = "ACTIVE" => Justified(wf', place') /\ GivesJustified(wf', place')
<1>1. place' = place
  BY DEF RecordOutcome
<1>2. /\ Issued(wf, place)
      /\ application = "ACTIVE" => Justified(wf, place) /\ GivesJustified(wf, place)
  BY DEF PlacesFit
<1>3. /\ wf'.visits[v].from = wf.visits[v].from /\ wf'.visits[v].to = wf.visits[v].to
      /\ wf'.visits[v].toRevision = wf.visits[v].toRevision
      /\ wf'.visits[v].outcomes = wf.visits[v].outcomes + 1
      /\ wf.visits[v].outcomes \in Nat
  BY OutcomeRows, OutcomeWritten DEF LedgerInv, IInv, TypeOK, Workflows, Visits
<1>4. Issued(wf', place')
  BY <1>1, <1>2, <1>3, OtherNoShows DEF Issued, SameLedger
<1>5. ASSUME application = "ACTIVE" PROVE Justified(wf', place)
  <2>1. CASE place.position = place.placed
    BY <2>1 DEF Justified
  <2>2. CASE place.position # place.placed
    <3>1. /\ place.position > place.placed
          /\ \E r \in Rounds : MovedTo(wf, r, place.position) /\ (Revisable(wf, r) => GivesBack(wf, place, r))
      BY <1>2, <1>5, <2>2 DEF Justified
    <3>2. PICK r \in Rounds : MovedTo(wf, r, place.position) /\ (Revisable(wf, r) => GivesBack(wf, place, r))
      BY <3>1
    <3>3. r # v
      <4>1. ASSUME r = v PROVE FALSE
        <5>1. wf.visits[v].status \in Outcomes
          BY <3>2, <4>1 DEF MovedTo, Outcomes
        <5>2. IsCorrection(v) /\ Revisable(wf, v)
          BY <5>1, FirstOrCorrection
        <5>3. GivesBack(wf, place, v) /\ place.position = wf.visits[v].to
          BY <3>2, <4>1, <5>2 DEF MovedTo
        <5> QED BY <1>5, <5>2, <5>3 DEF GivesBack, RestoresPlace
      <4> QED BY <4>1
    <3>4. MovedTo(wf', r, place.position) /\ (Revisable(wf', r) => GivesBack(wf', place, r))
      BY <3>2, <3>3, OtherNoShows
    <3> QED BY <3>1, <3>4 DEF Justified
  <2> QED BY <2>1, <2>2
<1>6. ASSUME application = "ACTIVE", NEW r \in Rounds, GivesBack(wf', place, r)
      PROVE  \/ wf'.visits[r].from = place.placed
             \/ /\ wf'.visits[r].from > place.placed
                /\ \E q \in Rounds : q < r /\ MovedTo(wf', q, wf'.visits[r].from)
  <2>1. r # v
    <3>1. ASSUME r = v PROVE FALSE
      <4>1. wf.visits[v].outcomes = 0 /\ wf.visits[v].to # 0
        BY <1>3, <1>6, <3>1 DEF GivesBack, Revisable
      <4> QED BY <4>1, FirstOrCorrection DEF Revisable
    <3> QED BY <3>1
  <2>2. GivesBack(wf, place, r) /\ wf'.visits[r].from = wf.visits[r].from
    BY <1>6, <2>1, OtherNoShows DEF SameLedger
  <2>3. CASE wf.visits[r].from = place.placed
    BY <2>2, <2>3
  <2>4. CASE wf.visits[r].from # place.placed
    <3>1. /\ wf.visits[r].from > place.placed
          /\ \E q \in Rounds : q < r /\ MovedTo(wf, q, wf.visits[r].from)
      BY <1>2, <1>6, <2>2, <2>4 DEF GivesJustified
    <3>2. PICK q \in Rounds : q < r /\ MovedTo(wf, q, wf.visits[r].from)
      BY <3>1
    <3>3. q # v
      <4>1. ASSUME q = v PROVE FALSE
        <5>1. wf.visits[v].status \in Outcomes
          BY <3>2, <4>1 DEF MovedTo, Outcomes
        <5>2. IsLatest(wf, v)
          BY <5>1, FirstOrCorrection DEF Revisable
        <5>3. wf.visits[r].status = "NONE"
          BY <3>2, <4>1, <5>2 DEF IsLatest, Rounds
        <5>4. wf.visits[r].outcomes = 0
          BY <5>3 DEF LedgerInv, Rowed, IsRow, NoVisit
        <5> QED BY <2>2, <5>4 DEF GivesBack, Revisable
      <4> QED BY <4>1
    <3>4. MovedTo(wf', q, wf.visits[r].from)
      BY <3>2, <3>3, OtherNoShows
    <3> QED BY <2>2, <3>1, <3>2, <3>4
  <2> QED BY <2>3, <2>4
<1> QED BY <1>1, <1>4, <1>5, <1>6 DEF GivesJustified

\* A step that is no outcome keeps the place, or activates the application anew.
LEMMA OtherStepFits ==
  ASSUME LedgerInv, PlacesFit, [Next]_vars, ~Records
  PROVE  PlacesFit'
<1>1. GoesOn(wf, wf')
  BY StepGoesOn DEF LedgerInv
<1>2. /\ wf \in Workflows /\ wf' \in Workflows /\ place \in Places /\ place' \in Places
  BY EveryStepKeeps DEF LedgerInv, IInv, TypeOK
<1>3. /\ Issued(wf, place)
      /\ application = "ACTIVE" => Justified(wf, place) /\ GivesJustified(wf, place)
  BY DEF PlacesFit
<1>4. CASE place' = place /\ (application' = "ACTIVE" => application = "ACTIVE")
  BY <1>1, <1>3, <1>4, SamePlaceFits DEF PlacesFit, Issued, Justified, GivesJustified,
     MovedTo, GivesBack, Revisable, IsLatest
<1>5. CASE place' = Activated
  <2>1. /\ place'.revision = place.revision + 1 /\ place'.issued = place.issued + 1
        /\ place'.position = place'.issued /\ place'.placed = place'.issued
    BY <1>5 DEF Activated
  <2>2. Issued(wf', place') /\ Justified(wf', place') /\ GivesJustified(wf', place')
    BY <1>1, <1>2, <1>3, <2>1, FreshPlaceFits
  <2> QED BY <2>2 DEF PlacesFit, Issued, Justified, GivesJustified,
     MovedTo, GivesBack, Revisable, IsLatest
<1>6. \/ place' = place /\ (application' = "ACTIVE" => application = "ACTIVE")
      \/ place' = Activated
  <2>1. CASE CalendarStep
    BY <2>1 DEF CalendarStep, Calendar, Invite, ProposeAlternative, Counterpropose, WithdrawOffer,
       CancelAppointment, CloseCalendar, Accept, Decline, Reschedule
  <2>2. CASE DecisionStep
    BY <2>2 DEF DecisionStep, Records, Answer, Consider, DoNotContinue
  <2>3. CASE LifecycleStep
    <3>1. CASE Withdraw \/ Reject \/ Revalidate \/ Promote \/ Restore
      BY <3>1 DEF Withdraw, Reject, Revalidate, Promote, Restore
    <3>2. CASE MoveToDraft \/ Archive \/ Rent
      BY <3>2 DEF MoveToDraft, Archive, Rent
    <3> QED BY <2>3, <3>1, <3>2 DEF LifecycleStep, SetListing
  <2>4. CASE ExpireOffer \/ (\E v \in Rounds : ExpireInterest(v)) \/ Tick \/ UNCHANGED vars
    BY <2>4 DEF ExpireOffer, ExpireInterest, Tick, vars
  <2> QED BY <2>1, <2>2, <2>3, <2>4 DEF Next
<1> QED BY <1>4, <1>5, <1>6

LEMMA OutcomeFits ==
  ASSUME LedgerInv, PlacesFit, Records
  PROVE  PlacesFit'
<1>1. PICK v \in Rounds, outcome \in Outcomes : RecordOutcome(v, outcome)
  BY DEF Records
<1>2. application' = application
  BY <1>1 DEF RecordOutcome
<1>3. /\ Issued(wf', place')
      /\ application = "ACTIVE" => Justified(wf', place') /\ GivesJustified(wf', place')
  BY <1>1, PenaltyFits, RestorationFits, OtherOutcomeFits
<1> QED BY <1>2, <1>3 DEF PlacesFit, Issued, Justified, GivesJustified,
     MovedTo, GivesBack, Revisable, IsLatest

LEMMA InitFits == Init => PlacesFit
<1> SUFFICES ASSUME Init PROVE PlacesFit
  OBVIOUS
<1>1. \A r \in Rounds : wf.visits[r] = NoVisit
  BY DEF Init
<1>2. PICK p \in {0, 1} : place = [position |-> p, revision |-> 0, issued |-> p, placed |-> p]
  BY DEF Init
<1>3. \A r \in Rounds : ~GivesBack(wf, place, r)
  BY <1>1 DEF GivesBack, NoVisit
<1>4. Issued(wf, place)
  BY <1>1, <1>2 DEF Issued, NoVisit
<1>5. Justified(wf, place)
  BY <1>2 DEF Justified
<1> QED BY <1>3, <1>4, <1>5 DEF PlacesFit, GivesJustified

\* An active application stands where its activation placed it, or behind that for a
\* no-show that still counts, through any number of penalties, corrections and new
\* activations (application-consideration.service.ts gives back a place only under the
\* revision the penalty left).
THEOREM PlaceJustified == Spec => []PlaceIsJustified
<1>1. Init => PlacesFit
  BY InitFits
<1>2. LedgerInv /\ PlacesFit /\ [Next]_vars => PlacesFit'
  BY OtherStepFits, OutcomeFits
<1>3. PlacesFit => PlaceIsJustified
  BY DEF PlacesFit, Justified, MovedTo, PlaceIsJustified
<1> QED BY <1>1, <1>2, <1>3, LedgerInvariance, PTL DEF Spec

-----------------------------------------------------------------------------
(***************************************************************************)
(* What surrounds the workflow.  The commands, the readers and the older   *)
(* rows see of a step what it makes of the state of the workflow.          *)
(***************************************************************************)
\* A workflow that has not begun has no appointments, and nothing has been considered.
Fresh(f) ==
  f.state = "NONE" =>
    /\ \A r \in Rounds : f.visits[r].status = "NONE"
    /\ f.consideration # "DO_NOT_CONTINUE"

LEMMA BumpKeepsState ==
  ASSUME NEW f \in Workflows
  PROVE  Bump(f) \in Workflows /\ Bump(f).state = f.state /\ Bump(f).visits = f.visits
BY DEF Bump, Workflows

LEMMA ResolvedKeepsState ==
  ASSUME NEW f \in Workflows, NEW resolution
  PROVE  ResolvePending(f, resolution).state = f.state
BY DEF ResolvePending, Resolve, Workflows

LEMMA OfferedKeepsState ==
  ASSUME NEW f \in Workflows, NEW side, NEW g, Offered(f, side, g)
  PROVE  g.state = f.state
BY DEF Offered, Workflows

LEMMA EndInterestsKeepsState ==
  ASSUME NEW f \in Workflows, NEW S
  PROVE  EndInterests(f, S).state = f.state
BY DEF EndInterests, Workflows

LEMMA AppointedKeepsState ==
  ASSUME NEW f \in Workflows
  PROVE  Appointed(f).state = f.state
<1> DEFINE k == Resolve(f, f.pending, "ACCEPTED")
           visits == [r \in Rounds |->
               CASE r = f.pending -> [NoVisit EXCEPT !.status = "ACCEPTED"]
                 [] r = f.confirmed /\ r # f.pending -> [f.visits[r] EXCEPT !.status = "SUPERSEDED"]
                 [] OTHER -> f.visits[r]]
<1>1. k.state = f.state
  BY DEF Resolve, Workflows
<1>2. Appointed(f) = [k EXCEPT !.visits = visits, !.confirmed = f.pending, !.pending = NoRound]
  BY DEF Appointed
<1> HIDE DEF k, visits
<1>3. Appointed(f).state = k.state
  BY <1>2
<1> QED BY <1>1, <1>3

\* Closing a workflow that has begun leaves it closed, and one that has not as it is.
LEMMA ClosedState ==
  ASSUME NEW f, Good(f), NEW dnc \in BOOLEAN
  PROVE  /\ f.state = "NONE" => Close(f, dnc) = f
         /\ f.state # "NONE" => Close(f, dnc).state # "NONE"
<1>1. f \in Workflows /\ f.state \in {"NONE", "OPEN", "CLOSED"}
  BY DEF Good, Workflows
<1>2. CASE f.state = "NONE"
  <2>1. LiveVisits(f) = {}
    BY <1>2 DEF Good, Match, LiveVisits, NoRound, Rounds
  <2> QED BY <1>2, <2>1 DEF Close
<1>3. CASE f.state = "CLOSED" /\ LiveVisits(f) = {}
  <2>1. Close(f, dnc) = Historical(f)
    BY <1>3 DEF Close
  <2>2. Good(EndInterests(f, {"PENDING"}))
    BY EndInterestsAreGood
  <2>3. Historical(f).state = f.state
    BY <1>1, <2>2, BumpKeepsState, EndInterestsKeepsState DEF Historical, Good
  <2> QED BY <1>3, <2>1, <2>3
<1>4. CASE f.state # "NONE" /\ (f.state = "OPEN" \/ LiveVisits(f) # {})
  <2>1. Close(f, dnc) = Ended(f, dnc)
    BY <1>4 DEF Close
  <2> DEFINE k == [ResolvePending(f, "CLOSED") EXCEPT
                    !.state = "CLOSED",
                    !.reason = IF f.state = "CLOSED" THEN @ ELSE "ENDED",
                    !.confirmed = NoRound,
                    !.consideration = IF dnc THEN "DO_NOT_CONTINUE" ELSE @,
                    !.visits = [r \in Rounds |-> EndedVisit(f, r)]]
  <2>2. ResolvePending(f, "CLOSED") \in Workflows
    BY ResolvePendingIsGood DEF Good, Resolutions
  <2>3. k.state = "CLOSED"
    <3> DEFINE p == ResolvePending(f, "CLOSED")
               visits == [r \in Rounds |-> EndedVisit(f, r)]
    <3> HIDE DEF p, visits
    <3>1. k = [p EXCEPT !.state = "CLOSED",
                    !.reason = IF f.state = "CLOSED" THEN @ ELSE "ENDED",
                    !.confirmed = NoRound,
                    !.consideration = IF dnc THEN "DO_NOT_CONTINUE" ELSE @,
                    !.visits = visits]
      BY DEF p, visits
    <3>2. p \in Workflows
      BY <2>2 DEF p
    <3> QED BY <3>1, <3>2 DEF Workflows
  <2>4. Ended(f, dnc) = Bump(k)
    BY DEF Ended
  <2> HIDE DEF k
  <2>5. Bump(k).state = k.state
    BY DEF Bump
  <2> QED BY <1>4, <2>1, <2>3, <2>4, <2>5
<1> QED BY <1>1, <1>2, <1>3, <1>4

\* A restoration moves the revision of a workflow that has begun on.
LEMMA RestoredState ==
  ASSUME NEW f, Good(f), Fresh(f)
  PROVE  /\ f.state = "NONE" => RestoredWorkflow(f) = f
         /\ f.state # "NONE" => /\ RestoredWorkflow(f).state # "NONE"
                                /\ RestoredWorkflow(f).revision > f.revision
<1> DEFINE g == EndInterests(f, {"PENDING", "NOT_REQUESTED"})
           h == Close(g, FALSE)
           ug == Bump([g EXCEPT !.consideration = "UNDECIDED"])
           uh == Bump([h EXCEPT !.consideration = "UNDECIDED"])
<1>1. Good(g) /\ SameCommitments(f, g) /\ g.state = f.state /\ g.revision = f.revision
  BY EndInterestsAreGood, EndInterestsKeepsState DEF SameCommitments, Good
<1>2. RestoredWorkflow(f) = IF f.state = "CLOSED" /\ LiveVisits(f) = {} THEN ug
                            ELSE IF h.consideration = "DO_NOT_CONTINUE" THEN uh ELSE h
  BY DEF RestoredWorkflow, g, h
<1>3. f.revision \in Nat /\ f \in Workflows /\ f.state \in {"NONE", "OPEN", "CLOSED"}
  BY DEF Good, Workflows
<1>4. CASE f.state = "NONE"
  <2>1. \A r \in Rounds : EndInterest(f.visits[r], {"PENDING", "NOT_REQUESTED"}) = f.visits[r]
    BY <1>4 DEF Fresh, EndInterest
  <2>2. [r \in Rounds |-> EndInterest(f.visits[r], {"PENDING", "NOT_REQUESTED"})] = f.visits
    BY <1>3, <2>1 DEF Workflows
  <2>3. g = f
    BY <1>3, <2>2 DEF EndInterests, Workflows
  <2> HIDE DEF g
  <2>4. h = f
    BY <1>4, <2>3, ClosedState
  <2>5. f.consideration # "DO_NOT_CONTINUE"
    BY <1>4 DEF Fresh
  <2> QED BY <1>2, <1>4, <2>4, <2>5
<1>5. CASE f.state = "CLOSED" /\ LiveVisits(f) = {}
  <2>1. ug.state = g.state /\ ug.revision = g.revision + 1
    BY <1>1 DEF Bump, Good, Workflows
  <2> QED BY <1>1, <1>2, <1>3, <1>5, <2>1
<1>6. CASE f.state # "NONE" /\ ~(f.state = "CLOSED" /\ LiveVisits(f) = {})
  <2>1. f.state = "CLOSED" => LiveVisits(f) = {}
    BY DEF Good, Match, LiveVisits, NoRound, Rounds
  <2>2. f.state = "OPEN"
    BY <1>3, <1>6, <2>1
  <2>3. h = Ended(g, FALSE)
    BY <1>1, <2>2 DEF Close
  <2> HIDE DEF g
  <2>4. Good(h) /\ h.revision = g.revision + 1 /\ h.state # "NONE"
    BY <1>1, <2>2, <2>3, EndedIsGood, ClosedState
  <2> HIDE DEF h
  <2>5. uh.state = h.state /\ uh.revision = h.revision + 1
    BY <2>4 DEF Bump, Good, Workflows
  <2>6. h.revision \in Nat
    BY <2>4 DEF Good, Workflows
  <2> QED BY <1>1, <1>2, <1>3, <1>6, <2>4, <2>5, <2>6
<1> QED BY <1>3, <1>4, <1>5, <1>6

-----------------------------------------------------------------------------
(***************************************************************************)
(* Every step moves the revision on or leaves the workflow as it was, but  *)
(* for a denied interest.                                                  *)
(***************************************************************************)
\* A command or expiry of the calendar is worth one revision.
LEMMA CalendarAdvances ==
  ASSUME IInv, CalendarStep \/ ExpireOffer
  PROVE  wf'.revision = wf.revision + 1 /\ wf'.state # "NONE"
<1>1. Good(wf) /\ wf \in Workflows /\ wf.revision \in Nat /\ clock \in Nat
  BY DEF IInv, TypeOK, Good, Workflows
<1>2. wf.pending # NoRound \/ wf.confirmed # NoRound => wf.state = "OPEN"
  BY <1>1 DEF Good, Match
<1>3. ASSUME NEW resolution \in {"DECLINED", "SUPERSEDED", "WITHDRAWN", "EXPIRED", "CLOSED"}
      PROVE  LET g == ResolvePending(wf, resolution)
             IN  /\ Good(g) /\ g.pending = NoRound /\ g.state = wf.state /\ g.revision = wf.revision
                 /\ Good(Bump(g)) /\ Bump(g).revision = wf.revision + 1
                 /\ Bump(g).pending = NoRound /\ Bump(g).state = wf.state
  <2> DEFINE g == ResolvePending(wf, resolution)
  <2>1. resolution \in Resolutions \ {"NONE", "PENDING", "ACCEPTED"}
    BY DEF Resolutions
  <2>2. Good(g) /\ g.pending = NoRound /\ g.state = wf.state /\ g.revision = wf.revision
    BY <1>1, <2>1, ResolvePendingIsGood
  <2> HIDE DEF g
  <2>3. Bump(g).pending = g.pending /\ Bump(g).state = g.state
    BY <2>2 DEF Good, Workflows, Bump
  <2>4. Good(Bump(g)) /\ Bump(g).revision = wf.revision + 1
    BY <2>2, BumpIsGood
  <2> QED BY <2>2, <2>3, <2>4 DEF g
<1>4. ASSUME NEW g, Good(g), g.state = "OPEN", g.pending = NoRound, g.revision = wf.revision + 1,
             NEW side \in Sides, Offered(g, side, wf')
      PROVE  wf'.revision = wf.revision + 1 /\ wf'.state # "NONE"
  <2>1. g \in Workflows
    BY <1>4 DEF Good
  <2> QED BY <1>1, <1>4, <2>1, OfferedIsGood, OfferedKeepsState
<1>5. CASE Invite
  <2>1. /\ Good(Reopened(wf)) /\ Reopened(wf).state = "OPEN"
        /\ Reopened(wf).pending = wf.pending /\ Reopened(wf).revision = wf.revision + 1
    BY <1>1, ReopenedIsGood
  <2> QED BY <1>4, <1>5, <2>1 DEF Invite, Sides
<1>6. CASE ProposeAlternative
  <2> DEFINE g == Bump(ResolvePending(wf, "SUPERSEDED"))
  <2>1. wf.pending # NoRound /\ Offered(g, "APPLICANT", wf')
    BY <1>6 DEF ProposeAlternative, PendingBy
  <2>2. Good(g) /\ g.state = "OPEN" /\ g.pending = NoRound /\ g.revision = wf.revision + 1
    BY <1>2, <1>3, <2>1
  <2> HIDE DEF g
  <2> QED BY <1>4, <2>1, <2>2 DEF Sides
<1>7. CASE Counterpropose
  <2> DEFINE resolution == IF PendingBy("APPLICANT") THEN "DECLINED" ELSE "SUPERSEDED"
             g == Bump(ResolvePending(wf, resolution))
  <2>1. wf.pending # NoRound /\ Offered(g, "PROVIDER", wf')
    BY <1>7 DEF Counterpropose
  <2>2. resolution \in {"DECLINED", "SUPERSEDED"}
    OBVIOUS
  <2> HIDE DEF resolution
  <2>3. Good(g) /\ g.state = "OPEN" /\ g.pending = NoRound /\ g.revision = wf.revision + 1
    BY <1>2, <1>3, <2>1, <2>2
  <2> HIDE DEF g
  <2> QED BY <1>4, <2>1, <2>3 DEF Sides
<1>8. ASSUME NEW side \in Sides, Reschedule(side)
      PROVE  wf'.revision = wf.revision + 1 /\ wf'.state # "NONE"
  <2>1. wf.pending = NoRound /\ wf.state = "OPEN" /\ Offered(Bump(wf), side, wf')
    BY <1>2, <1>8 DEF Reschedule
  <2>2. /\ Good(Bump(wf)) /\ Bump(wf).revision = wf.revision + 1
        /\ Bump(wf).state = wf.state /\ Bump(wf).pending = wf.pending
    <3>1. Good(Bump(wf)) /\ Bump(wf).revision = wf.revision + 1
      BY <1>1, BumpIsGood
    <3>2. Bump(wf).state = wf.state /\ Bump(wf).pending = wf.pending
      BY <1>1 DEF Workflows, Bump
    <3> QED BY <3>1, <3>2
  <2> QED BY <1>4, <2>1, <2>2
<1>9. ASSUME NEW side \in Sides, Accept(side)
      PROVE  wf'.revision = wf.revision + 1 /\ wf'.state # "NONE"
  <2>1. wf.pending # NoRound /\ wf' = Bump(Appointed(wf))
    BY <1>9 DEF Accept
  <2>2. Good(Appointed(wf)) /\ Appointed(wf).revision = wf.revision /\ Appointed(wf).state = "OPEN"
    BY <1>1, <1>2, <2>1, AppointedIsGood, AppointedKeepsState
  <2>3. Bump(Appointed(wf)).state = "OPEN"
    BY <2>2, BumpKeepsState DEF Good
  <2> QED BY <2>1, <2>2, <2>3, BumpIsGood
<1>10. ASSUME NEW side \in Sides, Decline(side)
       PROVE  wf'.revision = wf.revision + 1 /\ wf'.state # "NONE"
  <2>1. wf.pending # NoRound /\ wf' = Bump(ResolvePending(wf, "DECLINED"))
    BY <1>10 DEF Decline
  <2> QED BY <1>2, <1>3, <2>1
<1>11. CASE WithdrawOffer
  <2>1. wf.pending # NoRound /\ wf' = Bump(ResolvePending(wf, "WITHDRAWN"))
    BY <1>11 DEF WithdrawOffer, PendingBy
  <2> QED BY <1>2, <1>3, <2>1
<1>12. CASE CancelAppointment \/ CloseCalendar
  <2> DEFINE g == Cancelled(ResolvePending(wf, "CLOSED"))
             b == Bump(g)
             h == [b EXCEPT !.state = "CLOSED", !.reason = "PROVIDER_CLOSED"]
  <2>1. (wf' = b \/ wf' = h) /\ wf.state = "OPEN"
    BY <1>2, <1>12 DEF CancelAppointment, CloseCalendar
  <2>2. Good(g) /\ g.revision = wf.revision /\ g.state = "OPEN"
    BY <1>3, <2>1, CancelledIsGood
  <2> HIDE DEF g
  <2>3. b \in Workflows /\ b.revision = wf.revision + 1 /\ b.state = "OPEN"
    BY <2>2, BumpIsGood, BumpKeepsState DEF Good
  <2> HIDE DEF b
  <2>4. h.revision = wf.revision + 1 /\ h.state = "CLOSED"
    BY <2>3 DEF Workflows
  <2> HIDE DEF h
  <2> QED BY <2>1, <2>3, <2>4
<1>13. CASE ExpireOffer
  <2>1. wf' = Bump(ResolvePending(wf, "EXPIRED")) /\ wf.state = "OPEN"
    BY <1>13 DEF ExpireOffer, OfferOverdue
  <2> QED BY <1>3, <2>1
<1> QED
  BY <1>5, <1>6, <1>7, <1>8, <1>9, <1>10, <1>11, <1>12, <1>13 DEF CalendarStep

\* What a step may do with the workflow.
Advances ==
  /\ wf.state # "NONE" => wf'.state # "NONE"
  /\ \/ wf' = wf
     \/ wf'.revision > wf.revision /\ wf'.state # "NONE"
     \/ SameButDenied(wf, wf') /\ wf'.state # "NONE"

\* The recording of an outcome leaves the state of the workflow alone.
LEMMA RecordedState ==
  ASSUME IInv, NEW v \in Rounds, NEW outcome \in Outcomes, RecordOutcome(v, outcome)
  PROVE  wf'.state = wf.state
<1> DEFINE others == IF IsLatest(wf, v) THEN EndInterests(wf, {"PENDING"}) ELSE wf
           resolved == ResolvePending(others, "CLOSED")
           owned == IF wf.confirmed # v THEN others ELSE [resolved EXCEPT !.confirmed = NoRound]
           w == WithOutcome(v, outcome)
           h == [owned EXCEPT !.visits[v] = w]
<1>1. wf' = Bump(h)
  BY DEF RecordOutcome
<1>2. Good(wf) /\ wf \in Workflows
  BY DEF IInv, Good
<1>3. Good(others) /\ others.state = wf.state
  BY <1>2, EndInterestsAreGood, EndInterestsKeepsState
<1> HIDE DEF others
<1>4. Good(resolved) /\ resolved.state = others.state
  BY <1>3, ResolvePendingIsGood DEF Resolutions
<1> HIDE DEF resolved
<1>5. owned \in Workflows /\ owned.state = wf.state
  <2>1. [resolved EXCEPT !.confirmed = NoRound] \in Workflows
    BY <1>4 DEF Good, Workflows
  <2>2. [resolved EXCEPT !.confirmed = NoRound].state = resolved.state
    BY <1>4 DEF Good, Workflows
  <2> QED BY <1>3, <1>4, <2>1, <2>2 DEF Good
<1> HIDE DEF owned, w
<1>6. h.state = owned.state
  BY <1>5 DEF Workflows
<1> HIDE DEF h
<1>7. Bump(h).state = h.state
  BY DEF Bump
<1> QED BY <1>1, <1>5, <1>6, <1>7

\* A closure moves the revision on or finds nothing to end.
LEMMA ClosureAdvances ==
  ASSUME IInv, NEW dnc \in BOOLEAN, wf' = Close(wf, dnc)
  PROVE  Advances
<1>1. Good(wf) /\ wf.revision \in Nat
  BY DEF IInv, Good, Workflows
<1>2. Close(wf, dnc) = wf \/ Close(wf, dnc).revision = wf.revision + 1
  BY <1>1, CloseIsGood
<1> QED BY <1>1, <1>2, ClosedState DEF Advances

LEMMA DecisionAdvances ==
  ASSUME IInv, Fresh(wf), DecisionStep \/ \E v \in Rounds : ExpireInterest(v)
  PROVE  Advances
<1>1. Good(wf) /\ wf \in Workflows /\ wf.revision \in Nat
  BY DEF IInv, Good, Workflows
<1>2. ASSUME NEW v \in Rounds, NEW outcome \in Outcomes, RecordOutcome(v, outcome) PROVE Advances
  <2>1. wf'.revision = wf.revision + 1
    BY <1>2, RecordOutcomeIsGood
  <2>2. wf.visits[v].status # "NONE"
    BY <1>2 DEF RecordOutcome
  <2>3. wf.state # "NONE"
    BY <2>2 DEF Fresh
  <2> QED BY <1>1, <1>2, <2>1, <2>3, RecordedState DEF Advances
<1>3. ASSUME NEW v \in Rounds, NEW reply \in Answers, Answer(v, reply) PROVE Advances
  <2> DEFINE w == WithInterest(wf.visits[v], reply)
             answered == [wf EXCEPT !.visits[v] = w]
  <2>1. [wf EXCEPT !.visits[v] = WithInterest(@, reply)] = answered
    BY <1>1 DEF Workflows
  <2>2. Good(answered) /\ answered.revision = wf.revision
    <3>1. /\ Good([wf EXCEPT !.visits[v] = WithInterest(@, reply)])
          /\ SameCommitments(wf, [wf EXCEPT !.visits[v] = WithInterest(@, reply)])
      BY <1>1, AnsweredIsGood
    <3> QED BY <2>1, <3>1 DEF SameCommitments
  <2>3. wf.state # "NONE" /\ wf.visits[v].interest = "PENDING"
    BY <1>3 DEF Answer, PostViewingOpen
  <2>4. \/ wf' = Bump(answered)
        \/ wf' = Close(answered, FALSE) /\ reply = "NOT_INTERESTED"
    BY <1>3, <2>1 DEF Answer
  <2>5. /\ answered.state = wf.state
        /\ answered = [wf EXCEPT !.visits = answered.visits]
        /\ answered.visits[v] = w
        /\ \A r \in Rounds : r # v => answered.visits[r] = wf.visits[r]
    <3> HIDE DEF w
    <3> QED BY <1>1 DEF Workflows
  <2>6. reply = "NOT_INTERESTED" => SameButDenied(wf, answered)
    <3>1. reply = "NOT_INTERESTED" => answered.visits[v] = WithInterest(wf.visits[v], "NOT_INTERESTED")
      BY <2>5
    <3> HIDE DEF answered
    <3> QED BY <2>3, <2>5, <3>1 DEF SameButDenied
  <2> HIDE DEF answered, w
  <2>7. CASE wf' = Bump(answered)
    <3>1. Bump(answered).revision = answered.revision + 1 /\ Bump(answered).state = answered.state
      BY <2>2, BumpIsGood, BumpKeepsState DEF Good
    <3> QED BY <1>1, <2>2, <2>3, <2>5, <2>7, <3>1 DEF Advances
  <2>8. CASE wf' = Close(answered, FALSE) /\ reply = "NOT_INTERESTED"
    <3>1. \/ Close(answered, FALSE) = answered
          \/ Close(answered, FALSE).revision = answered.revision + 1
      BY <2>2, CloseIsGood
    <3>2. Close(answered, FALSE).state # "NONE"
      BY <2>2, <2>3, <2>5, ClosedState
    <3>3. wf'.state # "NONE"
      BY <2>8, <3>2
    <3>4. CASE Close(answered, FALSE) = answered
      <4>1. SameButDenied(wf, answered)
        BY <2>6, <2>8
      <4>2. wf' = answered
        BY <2>8, <3>4
      <4>3. SameButDenied(wf, wf')
        BY <4>1, <4>2 DEF SameButDenied
      <4> QED BY <3>3, <4>3 DEF Advances
    <3>5. CASE Close(answered, FALSE).revision = answered.revision + 1
      <4>1. wf'.revision > wf.revision
        <5>1. wf' = Close(answered, FALSE)
          BY <2>8
        <5>2. wf'.revision = answered.revision + 1
          BY <3>5, <5>1
        <5> QED BY <1>1, <2>2, <5>2
      <4> QED BY <3>3, <4>1 DEF Advances
    <3> QED BY <3>1, <3>4, <3>5
  <2> QED BY <2>4, <2>7, <2>8
<1>4. ASSUME NEW v \in Rounds, NEW consideration \in Considerations, Consider(v, consideration)
      PROVE  Advances
  <2> DEFINE k == [wf EXCEPT !.consideration = consideration]
  <2>1. wf' = Bump(k) /\ wf.state # "NONE"
    BY <1>4 DEF Consider, MayConsider, PostViewingOpen
  <2>2. k \in Workflows /\ k.state = wf.state /\ k.revision = wf.revision
    BY <1>1 DEF Workflows
  <2> HIDE DEF k
  <2>3. Bump(k).state = k.state /\ Bump(k).revision = k.revision + 1
    BY <2>2 DEF Bump, Workflows
  <2> QED BY <1>1, <2>1, <2>2, <2>3 DEF Advances
<1>5. ASSUME NEW v \in Rounds, DoNotContinue(v) PROVE Advances
  BY <1>5, ClosureAdvances DEF DoNotContinue
<1>6. ASSUME NEW v \in Rounds, ExpireInterest(v) PROVE Advances
  <2> DEFINE expired == [wf EXCEPT !.visits[v] = WithInterest(@, "EXPIRED")]
             closed == Close(expired, FALSE)
  <2>1. Good(expired) /\ expired.revision = wf.revision
    BY <1>1, AnsweredIsGood DEF SameCommitments
  <2>2. expired.state = wf.state /\ wf.state # "NONE"
    BY <1>1, <1>6 DEF ExpireInterest, InterestOverdue, PostViewingOpen, Workflows
  <2>3. wf' = IF closed.revision = wf.revision THEN Bump(closed) ELSE closed
    BY <1>6 DEF ExpireInterest
  <2> HIDE DEF expired
  <2>4. /\ Good(closed) /\ closed.state # "NONE"
        /\ closed.revision = wf.revision \/ closed.revision = wf.revision + 1
    BY <2>1, <2>2, CloseIsGood, ClosedState
  <2> HIDE DEF closed
  <2>5. Bump(closed).state = closed.state /\ Bump(closed).revision = closed.revision + 1
    BY <2>4, BumpIsGood, BumpKeepsState DEF Good
  <2>6. wf'.state # "NONE" /\ wf'.revision = wf.revision + 1
    BY <1>1, <2>3, <2>4, <2>5
  <2> QED BY <1>1, <2>6 DEF Advances
<1> QED BY <1>2, <1>3, <1>4, <1>5, <1>6 DEF DecisionStep

LEMMA StepAdvances ==
  ASSUME IInv, Fresh(wf), [Next]_vars
  PROVE  Advances
<1>1. Good(wf) /\ wf.revision \in Nat
  BY DEF IInv, Good, Workflows
<1>2. CASE CalendarStep \/ ExpireOffer
  BY <1>1, <1>2, CalendarAdvances DEF Advances
<1>3. CASE DecisionStep \/ \E v \in Rounds : ExpireInterest(v)
  BY <1>3, DecisionAdvances
<1>4. CASE Withdraw \/ Reject \/ Revalidate \/ MoveToDraft \/ Archive \/ Rent
  <2>1. wf' = Close(wf, FALSE)
    BY <1>4 DEF Withdraw, Reject, Revalidate, MoveToDraft, Archive, Rent
  <2> QED BY <2>1, ClosureAdvances
<1>5. CASE Restore
  <2>1. wf' = RestoredWorkflow(wf)
    BY <1>5 DEF Restore
  <2> QED BY <1>1, <2>1, RestoredState DEF Advances
<1>6. CASE Promote
  BY <1>6 DEF Promote, Advances
<1>7. CASE \/ SetListing("DRAFT", "PUBLISHED") \/ SetListing("PUBLISHED", "PAUSED")
           \/ SetListing("PAUSED", "PUBLISHED")
  BY <1>7 DEF SetListing, Advances
<1>8. CASE Tick \/ UNCHANGED vars
  BY <1>8 DEF Tick, vars, Advances
<1> QED BY <1>2, <1>3, <1>4, <1>5, <1>6, <1>7, <1>8 DEF Next, LifecycleStep

\* A workflow that has not begun stays fresh.
LEMMA FreshStays == IInv /\ Fresh(wf) /\ [Next]_vars => Fresh(wf')
<1> SUFFICES ASSUME IInv, Fresh(wf), [Next]_vars PROVE Fresh(wf')
  OBVIOUS
<1>1. Advances
  BY StepAdvances
<1> QED BY <1>1 DEF Advances, Fresh

LEMMA InitIsFresh == Init => Fresh(wf)
  BY DEF Init, Fresh, NoVisit

-----------------------------------------------------------------------------
(***************************************************************************)
(* Commands.  The invariant of SpecCommands relates the command under way  *)
(* to what its client was shown: at the revision it names the workflow is  *)
(* still that one, but for a denied interest.                              *)
(***************************************************************************)
RequestFits ==
  /\ request.action \in CalendarActions \cup DecisionActions \cup {"none"}
  /\ request.action = "none" => request = NoRequest
  /\ request.side \in Sides
  /\ request.action \in DecisionActions => request.target \in Rounds
  /\ request.revision \in Nat
  /\ request = [action |-> request.action, side |-> request.side,
                target |-> request.target, revision |-> request.revision]

Outstanding ==
  /\ request = NoRequest => receipt = NoReceipt
  /\ request # NoRequest /\ receipt = NoReceipt =>
       \E f \in seen : /\ f \in Workflows
                       /\ f.revision = request.revision /\ f.revision <= wf.revision
                       /\ f.revision = wf.revision => SameButDenied(f, wf)

AnswerFits ==
  answer # NoAnswer => /\ receipt # NoReceipt /\ receipt.request = request
                       /\ answer = receipt.answer

CommandsInv == IInv /\ Fresh(wf) /\ RequestFits /\ Outstanding /\ AnswerFits

LEMMA DeniedTwice ==
  ASSUME NEW f \in Workflows, NEW g, NEW h, SameButDenied(f, g), SameButDenied(g, h)
  PROVE  SameButDenied(f, h)
<1>1. h = [f EXCEPT !.visits = h.visits]
  BY DEF SameButDenied, Workflows
<1>2. ASSUME NEW r \in Rounds
      PROVE  \/ h.visits[r] = f.visits[r]
             \/ /\ f.visits[r].interest = "PENDING"
                /\ h.visits[r] = WithInterest(f.visits[r], "NOT_INTERESTED")
  <2>1. WithInterest(f.visits[r], "NOT_INTERESTED").interest # "PENDING"
    BY DEF WithInterest, Workflows, Visits
  <2> QED BY <2>1 DEF SameButDenied
<1> QED BY <1>1, <1>2 DEF SameButDenied

LEMMA DeniedKeepsRevision ==
  ASSUME NEW f \in Workflows, NEW g, SameButDenied(f, g)
  PROVE  g.revision = f.revision
BY DEF SameButDenied, Workflows

\* A command that is executed takes a step of the workflow.
LEMMA AppliedIsAStep ==
  ASSUME RequestFits, Apply(request)
  PROVE  /\ Next
         /\ request.action \in CalendarActions => CalendarStep
<1>1. CASE request.action \in CalendarActions
  <2>1. request.action \notin DecisionActions
    BY <1>1 DEF CalendarActions, DecisionActions
  <2>2. CalendarStep
    BY <1>1, <2>1 DEF Apply, CalendarStep, RequestFits, DecisionActions, Sides
  <2> QED BY <2>2 DEF Next
<1>2. CASE request.action \in DecisionActions
  <2>1. request.target \in Rounds /\ request.action \notin CalendarActions
    BY <1>2 DEF RequestFits, CalendarActions, DecisionActions
  <2>2. \/ \E o \in Outcomes : RecordOutcome(request.target, o)
        \/ \E a \in Answers : Answer(request.target, a)
        \/ \E c \in Considerations : Consider(request.target, c)
        \/ DoNotContinue(request.target)
    BY <1>2, <2>1 DEF Apply, CalendarActions, DecisionActions
  <2>3. DecisionStep
    BY <2>1, <2>2 DEF DecisionStep
  <2> QED BY <2>1, <2>3 DEF Next
<1>3. request.action # "none"
  BY DEF Apply
<1> QED BY <1>1, <1>2, <1>3 DEF RequestFits

\* What the first delivery of a command does.
LEMMA PerformedIsAStep ==
  ASSUME IInv, RequestFits, Perform(request)
  PROVE  /\ Next
         /\ \E kind \in {"OK", "FAILED"} : Receipted(request, kind, wf'.revision)
<1>1. CASE FailedByInterest(request)
  BY <1>1 DEF FailedByInterest, Next
<1>2. CASE FailedByOffer(request)
  <2>1. ExpireOffer /\ Receipted(request, "FAILED", wf.revision + 1)
    BY <1>2 DEF FailedByOffer
  <2>2. wf'.revision = wf.revision + 1
    BY <2>1, CalendarAdvances
  <2> QED BY <2>1, <2>2 DEF Next
<1>3. CASE Succeeded(request)
  <2>1. Apply(request) /\ Receipted(request, "OK", ResultRevision(request))
    BY <1>3 DEF Succeeded
  <2>2. Next /\ (request.action \in CalendarActions => CalendarStep)
    BY <2>1, AppliedIsAStep
  <2>3. ResultRevision(request) = wf'.revision
    BY <2>2, CalendarAdvances DEF ResultRevision
  <2> QED BY <2>1, <2>2, <2>3
<1> QED BY <1>1, <1>2, <1>3 DEF Perform

\* Every step beside the commands, or of one, is a step of the workflow or none.
LEMMA CommandIsAStep ==
  ASSUME IInv, RequestFits, [NextCommands]_commandVars
  PROVE  [Next]_vars
<1>1. CASE Send \/ Reuse \/ UNCHANGED commandVars
  BY <1>1 DEF Send, Reuse, commandVars
<1>2. CASE Execute(request)
  <2>1. CASE Replay(request)
    BY <2>1 DEF Replay
  <2>2. CASE Perform(request)
    BY <2>2, PerformedIsAStep
  <2> QED BY <1>2, <2>1, <2>2 DEF Execute
<1> QED BY <1>1, <1>2 DEF NextCommands

LEMMA InitCommandsFit == InitCommands => CommandsInv
<1> SUFFICES ASSUME InitCommands PROVE CommandsInv
  OBVIOUS
<1>1. IInv /\ Fresh(wf)
  BY InitIsGood, InitIsFresh DEF InitCommands
<1>2. RequestFits
  BY DEF InitCommands, RequestFits, NoRequest, NoRound, Sides, DecisionActions
<1>3. Outstanding /\ AnswerFits
  BY DEF InitCommands, Outstanding, AnswerFits
<1> QED BY <1>1, <1>2, <1>3 DEF CommandsInv

\* What remains true of the command under way while others change the workflow.
LEMMA OutstandingStays ==
  ASSUME CommandsInv, [Next]_vars, UNCHANGED delivery
  PROVE  Outstanding'
<1>1. UNCHANGED <<request, seen, receipt>>
  BY DEF delivery
<1>2. request = NoRequest => receipt = NoReceipt
  BY DEF CommandsInv, Outstanding
<1>3. ASSUME request # NoRequest, receipt = NoReceipt
      PROVE  \E f \in seen : /\ f \in Workflows
                             /\ f.revision = request.revision /\ f.revision <= wf'.revision
                             /\ f.revision = wf'.revision => SameButDenied(f, wf')
  <2>1. PICK f \in seen : /\ f \in Workflows
                          /\ f.revision = request.revision /\ f.revision <= wf.revision
                          /\ f.revision = wf.revision => SameButDenied(f, wf)
    BY <1>3 DEF CommandsInv, Outstanding
  <2>2. wf \in Workflows /\ wf.revision \in Nat /\ f.revision \in Nat
    BY <2>1 DEF CommandsInv, IInv, Good, Workflows
  <2>3. Advances
    BY StepAdvances DEF CommandsInv
  <2>4. CASE wf' = wf
    BY <2>1, <2>4
  <2>5. CASE wf'.revision > wf.revision
    <3>1. wf' \in Workflows
      BY EveryStepKeeps DEF CommandsInv, IInv, Good
    <3>2. wf'.revision \in Nat
      BY <3>1 DEF Workflows
    <3>3. f.revision <= wf'.revision /\ f.revision # wf'.revision
      BY <2>1, <2>2, <2>5, <3>2
    <3> QED BY <2>1, <3>3
  <2>6. CASE SameButDenied(wf, wf')
    <3>1. wf'.revision = wf.revision
      BY <2>2, <2>6, DeniedKeepsRevision
    <3>2. ASSUME f.revision = wf'.revision PROVE SameButDenied(f, wf')
      <4>1. SameButDenied(f, wf)
        BY <2>1, <3>1, <3>2
      <4> QED BY <2>1, <2>6, <4>1, DeniedTwice
    <3> QED BY <2>1, <3>1, <3>2
  <2> QED BY <2>3, <2>4, <2>5, <2>6 DEF Advances
<1> QED BY <1>1, <1>2, <1>3 DEF Outstanding

LEMMA SentFits ==
  ASSUME CommandsInv, Send
  PROVE  RequestFits' /\ Outstanding' /\ AnswerFits'
<1>1. PICK action \in CalendarActions \cup DecisionActions, side \in Sides, r \in Rounds \cup {NoRound} :
        /\ Target(action, r)
        /\ request' = [action |-> action, side |-> side, target |-> r, revision |-> wf.revision]
  BY DEF Send
<1>2. /\ request = NoRequest /\ seen' = {wf} /\ wf' = wf /\ receipt' = receipt /\ answer' = answer
      /\ receipt = NoReceipt /\ wf \in Workflows /\ wf.revision \in Nat
  BY DEF Send, vars, CommandsInv, Outstanding, IInv, Good, Workflows
<1>3. action # "none" /\ (action \in DecisionActions => r \in Rounds)
  BY <1>1 DEF Target, CalendarActions, DecisionActions
<1>4. RequestFits'
  BY <1>1, <1>2, <1>3 DEF RequestFits
<1>5. SameButDenied(wf, wf)
  BY <1>2 DEF SameButDenied, Workflows
<1>6. request' # NoRequest /\ request'.revision = wf.revision
  BY <1>1, <1>3 DEF NoRequest
<1>7. Outstanding'
  <2>1. /\ wf \in seen' /\ wf \in Workflows /\ wf.revision = request'.revision
        /\ wf.revision <= wf'.revision /\ SameButDenied(wf, wf')
    <3>1. SameButDenied(wf, wf')
      BY <1>2, <1>5 DEF SameButDenied
    <3> QED BY <1>2, <1>6, <3>1
  <2> QED BY <1>6, <2>1 DEF Outstanding
<1>8. AnswerFits'
  BY <1>2 DEF CommandsInv, AnswerFits
<1> QED BY <1>4, <1>7, <1>8

LEMMA ReusedFits ==
  ASSUME CommandsInv, Reuse
  PROVE  RequestFits' /\ Outstanding' /\ AnswerFits'
<1>1. /\ request # NoRequest /\ receipt.request = request
      /\ request' = [request EXCEPT !.revision = @ + 1]
      /\ answer' = NoAnswer /\ wf' = wf /\ receipt' = receipt /\ seen' = seen
  BY DEF Reuse, vars
<1>2. receipt # NoReceipt
  BY <1>1 DEF NoReceipt
<1>3. /\ request'.action = request.action /\ request'.side = request.side
      /\ request'.target = request.target /\ request'.revision = request.revision + 1
      /\ request' = [action |-> request.action, side |-> request.side,
                     target |-> request.target, revision |-> request.revision + 1]
  BY <1>1 DEF CommandsInv, RequestFits
<1>4. request.action # "none"
  BY <1>1 DEF CommandsInv, RequestFits
<1>5. RequestFits'
  BY <1>3, <1>4 DEF CommandsInv, RequestFits
<1>6. request' # NoRequest
  BY <1>3, <1>4 DEF NoRequest
<1> QED BY <1>1, <1>2, <1>5, <1>6 DEF Outstanding, AnswerFits

\* The answer that is kept belongs to the command it was given to.
LEMMA ReceiptedFits ==
  ASSUME CommandsInv, request # NoRequest, NEW kind \in {"OK", "FAILED"}, NEW revision,
         Receipted(request, kind, revision)
  PROVE  /\ Outstanding' /\ AnswerFits'
         /\ receipt'.answer.revision = revision /\ receipt'.request = request
<1>1. /\ request' = request /\ answer' = receipt'.answer
      /\ receipt' = [request |-> request, answer |-> [kind |-> kind, revision |-> revision]]
  BY DEF Receipted
<1>2. receipt'.request = request /\ receipt'.answer.revision = revision
  BY <1>1
<1>3. receipt' # NoReceipt
  BY <1>2 DEF NoReceipt
<1> QED BY <1>1, <1>2, <1>3 DEF Outstanding, AnswerFits

LEMMA CommandsStep == CommandsInv /\ [NextCommands]_commandVars => CommandsInv'
<1> SUFFICES ASSUME CommandsInv, [NextCommands]_commandVars PROVE CommandsInv'
  OBVIOUS
<1>1. [Next]_vars
  BY CommandIsAStep DEF CommandsInv
<1>2. IInv' /\ Fresh(wf')
  BY <1>1, EveryStepKeeps, FreshStays DEF CommandsInv
<1>3. ASSUME UNCHANGED delivery PROVE RequestFits' /\ Outstanding' /\ AnswerFits'
  <2>1. Outstanding'
    BY <1>1, <1>3, OutstandingStays
  <2>2. RequestFits' /\ AnswerFits'
    BY <1>3 DEF delivery, CommandsInv, RequestFits, AnswerFits
  <2> QED BY <2>1, <2>2
<1>4. RequestFits' /\ Outstanding' /\ AnswerFits'
  <2>1. CASE receipt # NoReceipt /\ Replay(request)
    <3>1. /\ UNCHANGED <<wf, request, seen, receipt>>
          /\ answer' = IF receipt.request = request THEN receipt.answer ELSE NoAnswer
      BY <2>1 DEF Replay, vars, ReceiptOutcome
    <3>2. RequestFits'
      BY <3>1 DEF CommandsInv, RequestFits
    <3>3. Outstanding'
      BY <2>1, <3>1 DEF CommandsInv, Outstanding
    <3>4. AnswerFits'
      BY <2>1, <3>1 DEF AnswerFits
    <3> QED BY <3>2, <3>3, <3>4
  <2>2. CASE Execute(request) /\ receipt = NoReceipt /\ Perform(request)
    <3>1. PICK kind \in {"OK", "FAILED"} : Receipted(request, kind, wf'.revision)
      BY <2>2, PerformedIsAStep DEF CommandsInv
    <3>2. request # NoRequest /\ request' = request
      BY <2>2, <3>1 DEF Execute, Receipted
    <3>3. RequestFits'
      BY <3>2 DEF CommandsInv, RequestFits
    <3> QED BY <3>1, <3>2, <3>3, ReceiptedFits
  <2>3. CASE Send
    BY <2>3, SentFits
  <2>4. CASE Reuse
    BY <2>4, ReusedFits
  <2>5. CASE Next /\ UNCHANGED delivery
    BY <1>3, <2>5
  <2>6. CASE UNCHANGED commandVars
    BY <1>3, <2>6 DEF commandVars
  <2> QED BY <2>1, <2>2, <2>3, <2>4, <2>5, <2>6 DEF NextCommands, Execute
<1> QED BY <1>2, <1>4 DEF CommandsInv

\* The commands' invariant: at the revision a command names the workflow is still the one
\* its client was shown, and an answer is the one that is kept.
THEOREM CommandsInvariance == SpecCommands => []CommandsInv
<1> QED BY InitCommandsFit, CommandsStep, PTL DEF SpecCommands

\* execute() takes no step but those of ViewingWorkflow, whose theorems hold under late
\* and repeated commands as well.
THEOREM CommandsImplementWorkflow == SpecCommands => Spec
<1>1. CommandsInv /\ [NextCommands]_commandVars => [Next]_vars
  BY CommandIsAStep DEF CommandsInv
<1>2. InitCommands => Init
  BY DEF InitCommands
<1> QED BY <1>1, <1>2, CommandsInvariance, PTL DEF SpecCommands, Spec

\* However late a command arrives and whatever was done and undone meanwhile, what it is
\* applied to is what its client was shown, and only once under its key.
THEOREM SeenIsMet == SpecCommands => AppliedToWhatWasSeen
<1>1. ASSUME CommandsInv, [NextCommands]_commandVars, receipt' # receipt
      PROVE  receipt = NoReceipt /\ \E f \in seen : SameButDenied(f, wf)
  <2>1. Execute(request)
    BY <1>1 DEF NextCommands, Send, Reuse, delivery, commandVars
  <2>2. receipt = NoReceipt /\ request # NoRequest /\ Perform(request)
    BY <1>1, <2>1 DEF Execute, Replay
  <2>3. request.revision = wf.revision
    BY <2>2 DEF Perform, Passes
  <2> QED BY <1>1, <2>2, <2>3 DEF CommandsInv, Outstanding
<1>2. CommandsInv /\ [NextCommands]_commandVars =>
        [receipt' # receipt => receipt = NoReceipt /\ \E f \in seen : SameButDenied(f, wf)]_commandVars
  BY <1>1
<1> QED BY <1>2, CommandsInvariance, PTL DEF SpecCommands, AppliedToWhatWasSeen

\* The answer to a command names the revision it left, is the same at every later
\* delivery, and never belongs to another command.
THEOREM AnswersHold == SpecCommands => AnswersAreTrue
<1>1. ASSUME CommandsInv, [NextCommands]_commandVars, receipt' # receipt
      PROVE  receipt'.answer.revision = wf'.revision
  <2>1. Execute(request)
    BY <1>1 DEF NextCommands, Send, Reuse, delivery, commandVars
  <2>2. receipt = NoReceipt /\ request # NoRequest /\ Perform(request)
    BY <1>1, <2>1 DEF Execute, Replay
  <2>3. PICK kind \in {"OK", "FAILED"} : Receipted(request, kind, wf'.revision)
    BY <1>1, <2>2, PerformedIsAStep DEF CommandsInv
  <2> QED BY <1>1, <2>2, <2>3, ReceiptedFits
<1>2. ASSUME CommandsInv, [NextCommands]_commandVars, answer # NoAnswer, request' = request
      PROVE  answer' = answer
  <2>1. receipt # NoReceipt /\ receipt.request = request /\ answer = receipt.answer
    BY <1>2 DEF CommandsInv, AnswerFits
  <2>2. request # NoRequest
    BY <2>1, <1>2 DEF CommandsInv, Outstanding
  <2>3. ~Send /\ ~Reuse
    <3>1. ~Send
      BY <2>2 DEF Send
    <3>2. ~Reuse
      BY <1>2 DEF Reuse, CommandsInv, RequestFits
    <3> QED BY <3>1, <3>2
  <2>4. CASE Execute(request)
    BY <2>1, <2>4 DEF Execute, Replay, ReceiptOutcome
  <2>5. CASE UNCHANGED delivery \/ UNCHANGED commandVars
    BY <2>5 DEF delivery, commandVars
  <2> QED BY <1>2, <2>3, <2>4, <2>5 DEF NextCommands
<1>3. CommandsInv /\ [NextCommands]_commandVars =>
        (answer' # NoAnswer => receipt'.request = request')
  BY CommandsStep DEF CommandsInv, AnswerFits
<1>4. CommandsInv /\ [NextCommands]_commandVars =>
        [/\ receipt' # receipt => receipt'.answer.revision = wf'.revision
         /\ answer # NoAnswer /\ request' = request => answer' = answer
         /\ answer' # NoAnswer => receipt'.request = request']_commandVars
  BY <1>1, <1>2, <1>3
<1> QED BY <1>4, CommandsInvariance, PTL DEF SpecCommands, AnswersAreTrue

-----------------------------------------------------------------------------
(***************************************************************************)
(* The projection.  Rounds come in turn: the pending offer is the last one *)
(* made, the appointment the last one accepted, and after a visit whose    *)
(* applicant is asked there is none that took place.                       *)
(***************************************************************************)
\* Last() is the greatest round of a set of them.
LEMMA LastIsGreatest ==
  ASSUME NEW S \in SUBSET Rounds, S # {}
  PROVE  Last(S) \in S /\ \A q \in S : q <= Last(S)
<1> DEFINE R == OpToRel(<, Nat)
           T == {n \in Nat : \A q \in S : q <= n}
<1>1. T \subseteq Nat /\ MaxRounds \in T
  BY DEF Rounds, BoundsAssumption
<1>2. \A m, n \in Nat : m < n => <<m, n>> \in R
  BY DEF OpToRel
<1> HIDE DEF R
<1>3. IsWellFoundedOn(R, Nat)
  BY NatLessThanWellFounded DEF R
<1>4. PICK n \in T : \A m \in T : ~ (<<m, n>> \in R)
  BY <1>1, <1>3, WFMin
<1>5. n \in Nat /\ \A q \in S : q <= n
  OBVIOUS
<1>6. n \in S
  <2>1. SUFFICES ASSUME n \notin S PROVE FALSE
    OBVIOUS
  <2>2. PICK q \in S : TRUE
    OBVIOUS
  <2>3. q \in Nat /\ q # 0 /\ q <= n
    BY <1>5 DEF Rounds
  <2>4. n - 1 \in Nat /\ n - 1 < n
    BY <1>5, <2>3
  <2>5. \A p \in S : p <= n - 1
    <3>1. ASSUME NEW p \in S PROVE p <= n - 1
      <4>1. p \in Nat /\ p <= n /\ p # n
        BY <1>5, <2>1 DEF Rounds
      <4> QED BY <1>5, <4>1
    <3> QED BY <3>1
  <2>6. n - 1 \in T
    BY <2>4, <2>5
  <2> HIDE DEF T
  <2> QED BY <1>2, <1>4, <1>5, <2>4, <2>6
<1>7. \E r \in S : \A q \in S : q <= r
  BY <1>5, <1>6
<1> QED BY <1>7 DEF Last

\* Round r took place, and no later one has.
LastSeen(f, r) ==
  /\ f.visits[r].status = "COMPLETED"
  /\ \A q \in Rounds : q > r => f.visits[q].status \in {"NONE", "ACCEPTED", "SUPERSEDED", "CANCELLED"}

InTurn(f) ==
  /\ f.pending # NoRound => \A q \in Rounds : q > f.pending => f.offers[q].resolution = "NONE"
  /\ f.confirmed # NoRound => IsLatest(f, f.confirmed)
  /\ \A r \in Rounds : f.visits[r].interest = "PENDING" => PostViewingOpen(f) /\ LastSeen(f, r)

LEMMA QuietInTurn ==
  ASSUME NEW f, Good(f), Quiet(f)
  PROVE  InTurn(f)
BY DEF Good, Match, Quiet, InTurn

\* What takes commitments back, or leaves them, disturbs no turn.
LEMMA SameTurn ==
  ASSUME NEW f, InTurn(f), NEW g,
         g.pending = NoRound \/ (g.pending = f.pending /\ g.offers = f.offers),
         g.confirmed = NoRound \/ g.confirmed = f.confirmed,
         \A r \in Rounds : g.visits[r].status = f.visits[r].status,
         \A r \in Rounds : g.visits[r].interest = "PENDING" => f.visits[r].interest = "PENDING",
         PostViewingOpen(f) => PostViewingOpen(g)
  PROVE  InTurn(g)
<1>1. g.pending # NoRound => \A q \in Rounds : q > g.pending => g.offers[q].resolution = "NONE"
  BY DEF InTurn
<1>2. g.confirmed # NoRound => IsLatest(g, g.confirmed)
  BY DEF InTurn, IsLatest
<1>3. ASSUME NEW r \in Rounds, g.visits[r].interest = "PENDING"
      PROVE  PostViewingOpen(g) /\ LastSeen(g, r)
  BY <1>3 DEF InTurn, LastSeen
<1> QED BY <1>1, <1>2, <1>3 DEF InTurn

LEMMA BumpInTurn ==
  ASSUME NEW f, Good(f), InTurn(f)
  PROVE  InTurn(Bump(f)) /\ PostViewingOpen(Bump(f)) = PostViewingOpen(f)
<1> DEFINE g == Bump(f)
<1>1. /\ g.state = f.state /\ g.reason = f.reason /\ g.pending = f.pending /\ g.confirmed = f.confirmed
      /\ g.offers = f.offers /\ g.visits = f.visits
  BY DEF Good, Workflows, Bump
<1> HIDE DEF g
<1>2. PostViewingOpen(g) = PostViewingOpen(f)
  BY <1>1 DEF PostViewingOpen
<1>3. InTurn(g)
  BY <1>1, <1>2, SameTurn
<1> QED BY <1>2, <1>3 DEF g

LEMMA ResolvedInTurn ==
  ASSUME NEW f, Good(f), InTurn(f), NEW resolution \in Resolutions \ {"NONE", "PENDING", "ACCEPTED"}
  PROVE  LET g == ResolvePending(f, resolution)
         IN  /\ Good(g) /\ InTurn(g) /\ g.pending = NoRound /\ g.state = f.state
             /\ Good(Bump(g)) /\ InTurn(Bump(g)) /\ Bump(g).pending = NoRound /\ Bump(g).state = f.state
<1> DEFINE g == ResolvePending(f, resolution)
<1>1. /\ Good(g) /\ g.pending = NoRound
      /\ \A field \in {"state", "reason", "revision", "confirmed", "consideration", "visits"} :
           g[field] = f[field]
  BY ResolvePendingIsGood
<1> HIDE DEF g
<1>2. /\ g.state = f.state /\ g.reason = f.reason /\ g.confirmed = f.confirmed /\ g.visits = f.visits
  BY <1>1
<1>3. PostViewingOpen(g) = PostViewingOpen(f)
  BY <1>2 DEF PostViewingOpen
<1>4. InTurn(g)
  BY <1>1, <1>2, <1>3, SameTurn
<1>5. Bump(g).pending = g.pending /\ Bump(g).state = g.state
  BY <1>1 DEF Good, Workflows, Bump
<1> QED BY <1>1, <1>2, <1>4, <1>5, BumpInTurn, BumpIsGood DEF g

LEMMA ReopenedInTurn ==
  ASSUME NEW f, Good(f), InTurn(f), f.pending = NoRound
  PROVE  InTurn(Reopened(f))
<1> DEFINE g == IF f.state = "CLOSED" THEN EndInterests(f, {"PENDING", "NOT_REQUESTED"}) ELSE f
           h == [g EXCEPT !.state = "OPEN", !.reason = "NONE"]
<1>1. /\ Good(g) /\ g.pending = f.pending /\ g.confirmed = f.confirmed
      /\ \A r \in Rounds : g.visits[r].status = f.visits[r].status
      /\ \A r \in Rounds : g.visits[r].interest = "PENDING" => f.visits[r].interest = "PENDING"
  BY EndInterestsAreGood DEF SameCommitments
<1>2. Reopened(f) = Bump(h)
  BY DEF Reopened
<1> HIDE DEF g
<1>3. /\ h.state = "OPEN" /\ h.pending = g.pending /\ h.confirmed = g.confirmed
      /\ h.visits = g.visits /\ h \in Workflows
  BY <1>1 DEF Good, Workflows
<1> HIDE DEF h
<1>4. /\ Bump(h).state = "OPEN" /\ Bump(h).pending = h.pending /\ Bump(h).confirmed = h.confirmed
      /\ Bump(h).visits = h.visits
  BY <1>3 DEF Workflows, Bump
<1> DEFINE k == Bump(h)
<1>5. PostViewingOpen(k)
  BY <1>4 DEF PostViewingOpen
<1>6. /\ k.pending = NoRound /\ k.confirmed = f.confirmed
      /\ \A r \in Rounds : k.visits[r].status = f.visits[r].status
      /\ \A r \in Rounds : k.visits[r].interest = "PENDING" => f.visits[r].interest = "PENDING"
  BY <1>1, <1>3, <1>4
<1> HIDE DEF k
<1>7. InTurn(k)
  BY <1>5, <1>6, SameTurn
<1> QED BY <1>2, <1>7 DEF k

\* A further offer is the last one.
LEMMA OfferedInTurn ==
  ASSUME NEW f, Good(f), InTurn(f), f.pending = NoRound, NEW side, NEW g, Offered(f, side, g)
  PROVE  InTurn(g)
<1>1. PICK r \in Rounds, start \in (clock + 1)..MaxClock :
        /\ \A q \in Rounds : f.offers[q].resolution # "NONE" <=> q < r
        /\ g = [f EXCEPT !.pending = r,
                         !.offers[r] = [by |-> side, start |-> start, resolution |-> "PENDING",
                                        deadline |-> Deadline(f, start)]]
  BY DEF Offered
<1> DEFINE offer == [by |-> side, start |-> start, resolution |-> "PENDING",
                     deadline |-> Deadline(f, start)]
<1>2. g = [f EXCEPT !.pending = r, !.offers[r] = offer]
  BY <1>1
<1> HIDE DEF offer
<1>3. /\ g.state = f.state /\ g.reason = f.reason /\ g.pending = r /\ g.confirmed = f.confirmed
      /\ g.visits = f.visits /\ \A q \in Rounds \ {r} : g.offers[q] = f.offers[q]
  BY <1>2 DEF Good, Workflows
<1>4. ASSUME NEW q \in Rounds, q > r PROVE g.offers[q].resolution = "NONE"
  <2>1. q # r /\ ~ (q < r)
    BY <1>4 DEF Rounds
  <2> QED BY <1>1, <1>3, <2>1
<1>5. g.confirmed # NoRound => IsLatest(g, g.confirmed)
  BY <1>3 DEF InTurn, IsLatest
<1>6. \A q \in Rounds : g.visits[q].interest = "PENDING" => PostViewingOpen(g) /\ LastSeen(g, q)
  BY <1>3 DEF InTurn, LastSeen, PostViewingOpen
<1> QED BY <1>3, <1>4, <1>5, <1>6 DEF InTurn

\* The appointment an offer becomes is the last one.
LEMMA AppointedInTurn ==
  ASSUME NEW f, Good(f), InTurn(f), f.pending # NoRound
  PROVE  InTurn(Appointed(f))
<1> DEFINE p == f.pending
           k == Resolve(f, p, "ACCEPTED")
           appointment == [NoVisit EXCEPT !.status = "ACCEPTED"]
           visits == [r \in Rounds |->
                        CASE r = f.pending -> appointment
                          [] r = f.confirmed /\ r # f.pending -> [f.visits[r] EXCEPT !.status = "SUPERSEDED"]
                          [] OTHER -> f.visits[r]]
           h == [k EXCEPT !.visits = visits, !.confirmed = p, !.pending = NoRound]
<1>1. p \in Rounds /\ f \in Workflows /\ f.state = "OPEN"
  BY DEF Good, Match, Workflows
<1>2. appointment.status = "ACCEPTED" /\ appointment.interest = "NOT_REQUESTED"
  BY DEF NoVisit
<1> HIDE DEF appointment
<1>3. ASSUME NEW r \in Rounds
      PROVE  /\ r = p => visits[r].status = "ACCEPTED" /\ visits[r].interest = "NOT_REQUESTED"
             /\ r # p /\ r = f.confirmed => visits[r].status = "SUPERSEDED"
             /\ r # p => visits[r].interest = f.visits[r].interest
             /\ r # p /\ r # f.confirmed => visits[r].status = f.visits[r].status
  <2>1. f.visits[r] \in Visits
    BY <1>1 DEF Workflows
  <2>2. CASE r = p
    BY <1>2, <2>2
  <2>3. CASE r # p /\ r = f.confirmed
    <3>1. visits[r] = [f.visits[r] EXCEPT !.status = "SUPERSEDED"]
      BY <2>3
    <3> HIDE DEF visits
    <3> QED BY <2>1, <2>3, <3>1 DEF Visits
  <2>4. CASE r # p /\ r # f.confirmed
    BY <2>4
  <2> QED BY <2>2, <2>3, <2>4
<1>4. Appointed(f) = h
  BY DEF Appointed, appointment
<1>5. k \in Workflows /\ k.state = f.state
  <2>1. "ACCEPTED" \in Resolutions
    BY DEF Resolutions
  <2>2. k \in Workflows
    BY <1>1, <2>1, ResolveIsTyped
  <2>3. k.state = f.state
    BY <1>1 DEF Resolve, Workflows
  <2> QED BY <2>2, <2>3
<1> HIDE DEF k, visits, p
<1>6. h.state = "OPEN" /\ h.pending = NoRound /\ h.confirmed = p /\ h.visits = visits
  BY <1>1, <1>5 DEF Workflows
<1> HIDE DEF h
<1>7. ASSUME NEW r \in Rounds, r > p PROVE f.visits[r].status = "NONE" /\ r # f.confirmed /\ r # p
  <2>1. f.offers[r].resolution = "NONE"
    BY <1>1, <1>7 DEF InTurn, p, NoRound, Rounds
  <2>2. f.visits[r].status = "NONE"
    BY <2>1 DEF Good, Match
  <2>3. f.visits[r].status = "ACCEPTED" <=> r = f.confirmed
    BY DEF Good, Match
  <2> QED BY <1>1, <1>7, <2>2, <2>3 DEF Rounds
<1>8. IsLatest(h, h.confirmed)
  <2>1. \A r \in Rounds : r > p => visits[r].status = "NONE"
    BY <1>3, <1>7
  <2> QED BY <1>6, <2>1 DEF IsLatest
<1>9. ASSUME NEW r \in Rounds, h.visits[r].interest = "PENDING" PROVE PostViewingOpen(h) /\ LastSeen(h, r)
  <2>1. r # p /\ f.visits[r].interest = "PENDING"
    BY <1>3, <1>6, <1>9
  <2>2. LastSeen(f, r)
    BY <2>1 DEF InTurn
  <2>3. r # f.confirmed
    BY <2>2 DEF LastSeen, Good, Match
  <2>4. h.visits[r].status = "COMPLETED"
    BY <1>3, <1>6, <2>1, <2>2, <2>3 DEF LastSeen
  <2>5. ASSUME NEW q \in Rounds, q > r
        PROVE  h.visits[q].status \in {"NONE", "ACCEPTED", "SUPERSEDED", "CANCELLED"}
    <3>1. f.visits[q].status \in {"NONE", "ACCEPTED", "SUPERSEDED", "CANCELLED"}
      BY <2>2, <2>5 DEF LastSeen
    <3> QED BY <1>3, <1>6, <3>1
  <2> QED BY <1>6, <2>4, <2>5 DEF PostViewingOpen, LastSeen
<1> QED BY <1>4, <1>6, <1>8, <1>9 DEF InTurn

\* An appointment that is called off leaves the turn to those before it.
LEMMA CancelledInTurn ==
  ASSUME NEW f, Good(f), InTurn(f), f.pending = NoRound
  PROVE  InTurn(Cancelled(f))
<1> DEFINE c == f.confirmed
           w == [f.visits[c] EXCEPT !.status = "CANCELLED"]
           h == [f EXCEPT !.visits[c] = w, !.confirmed = NoRound]
<1>1. CASE c = NoRound
  BY <1>1 DEF Cancelled
<1>2. CASE c # NoRound
  <2>1. c \in Rounds /\ f \in Workflows
    BY <1>2 DEF Good, Workflows
  <2>2. Cancelled(f) = h
    BY <1>2, <2>1 DEF Cancelled, Workflows
  <2>3. w.status = "CANCELLED" /\ w.interest = f.visits[c].interest
    BY <2>1 DEF Workflows, Visits
  <2> HIDE DEF w
  <2>4. /\ h.state = f.state /\ h.reason = f.reason /\ h.pending = NoRound /\ h.confirmed = NoRound
        /\ h.visits[c] = w /\ \A r \in Rounds \ {c} : h.visits[r] = f.visits[r]
    BY <2>1 DEF Workflows
  <2> HIDE DEF h
  <2>5. ASSUME NEW r \in Rounds, h.visits[r].interest = "PENDING" PROVE PostViewingOpen(h) /\ LastSeen(h, r)
    <3>1. f.visits[r].interest = "PENDING"
      BY <2>3, <2>4, <2>5
    <3>2. PostViewingOpen(f) /\ LastSeen(f, r)
      BY <3>1 DEF InTurn
    <3>3. r # c
      BY <3>2 DEF LastSeen, Good, Match
    <3>4. \A q \in Rounds : q > r => h.visits[q].status \in {"NONE", "ACCEPTED", "SUPERSEDED", "CANCELLED"}
      BY <2>3, <2>4, <3>2 DEF LastSeen
    <3>5. h.visits[r].status = "COMPLETED"
      BY <2>4, <3>2, <3>3 DEF LastSeen
    <3>6. PostViewingOpen(h)
      BY <2>4, <3>2 DEF PostViewingOpen
    <3> QED BY <3>4, <3>5, <3>6 DEF LastSeen
  <2> QED BY <2>2, <2>4, <2>5 DEF InTurn
<1> QED BY <1>1, <1>2

LEMMA CalendarInTurn ==
  ASSUME IInv, InTurn(wf), CalendarStep \/ ExpireOffer
  PROVE  InTurn(wf')
<1>1. Good(wf) /\ clock \in Nat
  BY DEF IInv, TypeOK
<1>2. wf.pending # NoRound \/ wf.confirmed # NoRound => wf.state = "OPEN"
  BY <1>1 DEF Good, Match
<1>3. ASSUME NEW resolution \in {"DECLINED", "SUPERSEDED", "WITHDRAWN", "EXPIRED", "CLOSED"}
      PROVE  LET g == ResolvePending(wf, resolution)
             IN  /\ Good(g) /\ InTurn(g) /\ g.pending = NoRound /\ g.state = wf.state
                 /\ Good(Bump(g)) /\ InTurn(Bump(g)) /\ Bump(g).pending = NoRound /\ Bump(g).state = wf.state
  <2>1. resolution \in Resolutions \ {"NONE", "PENDING", "ACCEPTED"}
    BY DEF Resolutions
  <2> QED BY <1>1, <2>1, ResolvedInTurn
<1>4. CASE Invite
  <2>1. Good(Reopened(wf)) /\ Reopened(wf).pending = wf.pending /\ wf.pending = NoRound
    BY <1>1, <1>4, ReopenedIsGood DEF Invite
  <2>2. InTurn(Reopened(wf))
    BY <1>1, <2>1, ReopenedInTurn
  <2>3. Offered(Reopened(wf), "PROVIDER", wf')
    BY <1>4 DEF Invite
  <2> QED BY <2>1, <2>2, <2>3, OfferedInTurn
<1>5. CASE ProposeAlternative
  <2>1. Offered(Bump(ResolvePending(wf, "SUPERSEDED")), "APPLICANT", wf')
    BY <1>5 DEF ProposeAlternative
  <2> QED BY <1>3, <2>1, OfferedInTurn
<1>6. CASE Counterpropose
  <2> DEFINE resolution == IF PendingBy("APPLICANT") THEN "DECLINED" ELSE "SUPERSEDED"
             g == Bump(ResolvePending(wf, resolution))
  <2>1. Offered(g, "PROVIDER", wf')
    BY <1>6 DEF Counterpropose
  <2>2. resolution \in {"DECLINED", "SUPERSEDED"}
    OBVIOUS
  <2> HIDE DEF resolution
  <2>3. Good(g) /\ InTurn(g) /\ g.pending = NoRound
    BY <1>3, <2>2
  <2> HIDE DEF g
  <2> QED BY <2>1, <2>3, OfferedInTurn
<1>7. ASSUME NEW side \in Sides, Reschedule(side) PROVE InTurn(wf')
  <2>1. wf.pending = NoRound /\ Offered(Bump(wf), side, wf')
    BY <1>7 DEF Reschedule
  <2>2. Good(Bump(wf)) /\ InTurn(Bump(wf))
    BY <1>1, BumpIsGood, BumpInTurn
  <2>3. Bump(wf).pending = wf.pending
    BY <1>1 DEF Good, Workflows, Bump
  <2> QED BY <2>1, <2>2, <2>3, OfferedInTurn
<1>8. ASSUME NEW side \in Sides, Accept(side) PROVE InTurn(wf')
  <2>1. wf.pending # NoRound /\ wf' = Bump(Appointed(wf))
    BY <1>8 DEF Accept
  <2>2. Good(Appointed(wf)) /\ InTurn(Appointed(wf))
    BY <1>1, <2>1, AppointedIsGood, AppointedInTurn
  <2> QED BY <2>1, <2>2, BumpInTurn
<1>9. ASSUME NEW side \in Sides, Decline(side) PROVE InTurn(wf')
  BY <1>3, <1>9 DEF Decline
<1>10. CASE WithdrawOffer
  BY <1>3, <1>10 DEF WithdrawOffer
<1>11. CASE CancelAppointment \/ CloseCalendar
  <2> DEFINE g == Cancelled(ResolvePending(wf, "CLOSED"))
             b == Bump(g)
             h == [b EXCEPT !.state = "CLOSED", !.reason = "PROVIDER_CLOSED"]
  <2>1. wf' = b \/ wf' = h
    BY <1>11 DEF CancelAppointment, CloseCalendar
  <2>2. Good(g) /\ InTurn(g) /\ g.pending = NoRound /\ g.confirmed = NoRound
    BY <1>3, CancelledIsGood, CancelledInTurn
  <2> HIDE DEF g
  <2>3. /\ InTurn(b) /\ b \in Workflows /\ b.pending = NoRound /\ b.confirmed = NoRound
    <3>1. b.pending = g.pending /\ b.confirmed = g.confirmed
      BY <2>2 DEF Good, Workflows, Bump
    <3> QED BY <2>2, <3>1, BumpInTurn, BumpIsGood DEF Good
  <2> HIDE DEF b
  <2>4. /\ h.state = "CLOSED" /\ h.reason = "PROVIDER_CLOSED" /\ h.pending = NoRound
        /\ h.confirmed = NoRound /\ h.visits = b.visits
    BY <2>3 DEF Workflows
  <2>5. PostViewingOpen(h)
    BY <2>4 DEF PostViewingOpen
  <2> HIDE DEF h
  <2>6. InTurn(h)
    BY <2>3, <2>4, <2>5, SameTurn
  <2> QED BY <2>1, <2>3, <2>6
<1>12. CASE ExpireOffer
  BY <1>3, <1>12 DEF ExpireOffer
<1> QED
  BY <1>4, <1>5, <1>6, <1>7, <1>8, <1>9, <1>10, <1>11, <1>12 DEF CalendarStep

\* What an outcome leaves of the workflow beside its visit.
LEMMA OutcomeLeaves ==
  ASSUME IInv, NEW v \in Rounds, NEW outcome \in Outcomes, RecordOutcome(v, outcome)
  PROVE  /\ wf'.pending = NoRound \/ (wf'.pending = wf.pending /\ wf'.offers = wf.offers)
         /\ wf'.confirmed = (IF wf.confirmed = v THEN NoRound ELSE wf.confirmed)
         /\ wf'.state = wf.state /\ wf'.reason = wf.reason
         /\ wf'.visits[v] = WithOutcome(v, outcome)
         /\ \A r \in Rounds : r # v =>
              /\ wf'.visits[r].status = wf.visits[r].status
              /\ wf'.visits[r].outcomes = wf.visits[r].outcomes
              /\ wf'.visits[r].interest = "PENDING" => wf.visits[r].interest = "PENDING" /\ ~IsLatest(wf, v)
<1> DEFINE w == WithOutcome(v, outcome)
           others == IF IsLatest(wf, v) THEN EndInterests(wf, {"PENDING"}) ELSE wf
           resolved == ResolvePending(others, "CLOSED")
           owned == IF wf.confirmed # v THEN others ELSE [resolved EXCEPT !.confirmed = NoRound]
           h == [owned EXCEPT !.visits[v] = w]
<1>1. wf' = Bump(h)
  BY DEF RecordOutcome
<1>2. Good(wf)
  BY DEF IInv
<1>3. /\ Good(others) /\ SameCommitments(wf, others)
      /\ \A r \in Rounds : others.visits[r].interest = "PENDING" =>
           wf.visits[r].interest = "PENDING" /\ ~IsLatest(wf, v)
  BY <1>2, EndInterestsAreGood DEF SameCommitments
<1> HIDE DEF w, others
<1>4. /\ Good(resolved) /\ resolved.pending = NoRound
      /\ resolved.state = others.state /\ resolved.reason = others.reason /\ resolved.visits = others.visits
  <2>1. "CLOSED" \in Resolutions \ {"NONE", "PENDING", "ACCEPTED"}
    BY DEF Resolutions
  <2>2. /\ Good(resolved) /\ resolved.pending = NoRound
        /\ \A field \in {"state", "reason", "revision", "confirmed", "consideration", "visits"} :
             resolved[field] = others[field]
    BY <1>3, <2>1, ResolvePendingIsGood
  <2> QED BY <2>2
<1> HIDE DEF resolved
<1>5. /\ owned \in Workflows /\ owned.visits = others.visits
      /\ owned.state = wf.state /\ owned.reason = wf.reason
      /\ owned.confirmed = (IF wf.confirmed = v THEN NoRound ELSE wf.confirmed)
      /\ owned.pending = NoRound \/ (owned.pending = wf.pending /\ owned.offers = wf.offers)
  <2>1. CASE wf.confirmed = v
    <3> DEFINE k == [resolved EXCEPT !.confirmed = NoRound]
    <3>1. /\ k \in Workflows /\ k.visits = resolved.visits /\ k.state = resolved.state
          /\ k.reason = resolved.reason /\ k.confirmed = NoRound /\ k.pending = NoRound
      BY <1>4 DEF Good, Workflows
    <3>2. owned = k
      BY <2>1
    <3> HIDE DEF k, owned
    <3> QED BY <1>3, <1>4, <2>1, <3>1, <3>2 DEF SameCommitments
  <2>2. CASE wf.confirmed # v
    BY <1>3, <2>2 DEF Good, SameCommitments
  <2> QED BY <2>1, <2>2
<1> HIDE DEF owned
<1>6. /\ h.pending = owned.pending /\ h.offers = owned.offers /\ h.confirmed = owned.confirmed
      /\ h.state = owned.state /\ h.reason = owned.reason
      /\ \A r \in Rounds : r # v => h.visits[r] = others.visits[r]
  BY <1>5 DEF Workflows
<1>7. {"pending", "offers", "confirmed", "state", "reason", "visits", "revision"} \subseteq DOMAIN h
  BY <1>5 DEF Workflows
<1> HIDE DEF h
<1>8. /\ Bump(h).pending = h.pending /\ Bump(h).offers = h.offers /\ Bump(h).confirmed = h.confirmed
      /\ Bump(h).state = h.state /\ Bump(h).reason = h.reason /\ Bump(h).visits = h.visits
  BY <1>7 DEF Bump
<1>9. ASSUME NEW r \in Rounds, r # v
      PROVE  /\ wf'.visits[r].status = wf.visits[r].status
             /\ wf'.visits[r].outcomes = wf.visits[r].outcomes
             /\ wf'.visits[r].interest = "PENDING" => wf.visits[r].interest = "PENDING" /\ ~IsLatest(wf, v)
  <2>1. wf'.visits[r] = others.visits[r]
    BY <1>1, <1>6, <1>8, <1>9
  <2>2. VisitGoesOn(wf.visits[r], wf'.visits[r]) /\ wf'.visits[r].status = wf.visits[r].status
    BY <1>9, OutcomeRows
  <2> QED BY <1>3, <2>1, <2>2 DEF VisitGoesOn, SameLedger
<1>10. wf'.visits[v] = WithOutcome(v, outcome)
  BY OutcomeRows
<1> QED BY <1>1, <1>5, <1>6, <1>8, <1>9, <1>10

\* Only the last visit is recorded or corrected while an applicant is asked, and only the
\* last one asks.
LEMMA OutcomeInTurn ==
  ASSUME IInv, InTurn(wf), NEW v \in Rounds, NEW outcome \in Outcomes, RecordOutcome(v, outcome)
  PROVE  InTurn(wf')
<1>1. /\ wf'.pending = NoRound \/ (wf'.pending = wf.pending /\ wf'.offers = wf.offers)
      /\ wf'.confirmed = (IF wf.confirmed = v THEN NoRound ELSE wf.confirmed)
      /\ wf'.state = wf.state /\ wf'.reason = wf.reason
      /\ wf'.visits[v] = WithOutcome(v, outcome)
      /\ \A r \in Rounds : r # v =>
           /\ wf'.visits[r].status = wf.visits[r].status
           /\ wf'.visits[r].interest = "PENDING" => wf.visits[r].interest = "PENDING" /\ ~IsLatest(wf, v)
  BY OutcomeLeaves
<1>2. Good(wf) /\ wf.visits[v].status # "NONE"
  BY DEF IInv, RecordOutcome
<1>3. \/ wf.visits[v].status \in {"ACCEPTED", "OUTCOME_PENDING"}
      \/ IsLatest(wf, v)
  BY DEF RecordOutcome, MayRecord, MayCorrect
<1>4. wf'.pending # NoRound => \A q \in Rounds : q > wf'.pending => wf'.offers[q].resolution = "NONE"
  BY <1>1 DEF InTurn
<1>5. ASSUME wf'.confirmed # NoRound PROVE IsLatest(wf', wf'.confirmed)
  <2>1. wf'.confirmed = wf.confirmed /\ wf.confirmed # v /\ IsLatest(wf, wf.confirmed)
    BY <1>1, <1>5 DEF InTurn
  <2>2. ASSUME NEW r \in Rounds, r > wf.confirmed PROVE wf'.visits[r].status = "NONE"
    <3>1. wf.visits[r].status = "NONE"
      BY <2>1, <2>2 DEF IsLatest
    <3> QED BY <1>1, <1>2, <3>1
  <2> QED BY <2>1, <2>2 DEF IsLatest
<1>6. ASSUME NEW r \in Rounds, wf'.visits[r].interest = "PENDING"
      PROVE  PostViewingOpen(wf') /\ LastSeen(wf', r)
  <2>1. CASE r = v
    <3> DEFINE y == WithOutcome(v, outcome)
               x == wf.visits[v]
    <3>1. y.interest = "PENDING" /\ y.status = outcome
      BY <1>1, <1>6, <2>1, OutcomeWritten
    <3>2. outcome = "COMPLETED"
      <4>1. outcome # "COMPLETED" => y.interest = (IF x.interest = "PENDING" THEN "CLOSED" ELSE x.interest)
        BY OutcomeWritten
      <4> HIDE DEF y
      <4> QED BY <3>1, <4>1
    <3>3. Requests(v)
      BY <3>1, <3>2 DEF WithOutcome
    <3> HIDE DEF y
    <3>4. PostViewingOpen(wf) /\ IsLatest(wf, v)
      BY <3>3 DEF Requests
    <3>5. PostViewingOpen(wf')
      BY <1>1, <3>4 DEF PostViewingOpen
    <3>6. ASSUME NEW q \in Rounds, q > v PROVE wf'.visits[q].status = "NONE"
      BY <1>1, <3>4, <3>6 DEF IsLatest, Rounds
    <3>7. wf'.visits[v].status = "COMPLETED"
      BY <1>1, <3>1, <3>2 DEF y
    <3> QED BY <2>1, <3>5, <3>6, <3>7 DEF LastSeen
  <2>2. CASE r # v
    <3>1. wf.visits[r].interest = "PENDING" /\ ~IsLatest(wf, v) /\ wf'.visits[r].status = wf.visits[r].status
      BY <1>1, <1>6, <2>2
    <3>2. PostViewingOpen(wf) /\ LastSeen(wf, r)
      BY <3>1 DEF InTurn
    <3>3. wf.visits[v].status # "ACCEPTED"
      <4>1. wf.visits[v].status = "ACCEPTED" => v = wf.confirmed
        BY <1>2 DEF Good, Match
      <4>2. v # NoRound
        BY DEF NoRound, Rounds
      <4> QED BY <3>1, <4>1, <4>2 DEF InTurn
    <3>4. wf.visits[v].status = "OUTCOME_PENDING"
      BY <1>3, <3>1, <3>3
    <3>5. ~ (v > r)
      BY <3>2, <3>4 DEF LastSeen
    <3>6. ASSUME NEW q \in Rounds, q > r
          PROVE  wf'.visits[q].status \in {"NONE", "ACCEPTED", "SUPERSEDED", "CANCELLED"}
      <4>1. q # v
        BY <3>5, <3>6
      <4>2. wf.visits[q].status \in {"NONE", "ACCEPTED", "SUPERSEDED", "CANCELLED"}
        BY <3>2, <3>6 DEF LastSeen
      <4> QED BY <1>1, <4>1, <4>2
    <3>7. wf'.visits[r].status = "COMPLETED"
      BY <3>1, <3>2 DEF LastSeen
    <3>8. PostViewingOpen(wf')
      BY <1>1, <3>2 DEF PostViewingOpen
    <3> QED BY <3>6, <3>7, <3>8 DEF LastSeen
  <2> QED BY <2>1, <2>2
<1> QED BY <1>4, <1>5, <1>6 DEF InTurn

LEMMA DecisionInTurn ==
  ASSUME IInv, InTurn(wf), DecisionStep \/ \E v \in Rounds : ExpireInterest(v)
  PROVE  InTurn(wf')
<1>1. Good(wf) /\ wf \in Workflows
  BY DEF IInv, Good
<1>2. ASSUME NEW v \in Rounds, NEW reply \in Answers \cup {"EXPIRED"}
      PROVE  LET k == [wf EXCEPT !.visits[v] = WithInterest(@, reply)]
             IN  /\ Good(k) /\ InTurn(k)
                 /\ Good(Close(k, FALSE)) /\ Quiet(Close(k, FALSE)) /\ InTurn(Close(k, FALSE))
  <2> DEFINE k == [wf EXCEPT !.visits[v] = WithInterest(@, reply)]
             w == WithInterest(wf.visits[v], reply)
  <2>1. Good(k) /\ SameCommitments(wf, k)
    BY <1>1, AnsweredIsGood
  <2>2. k.visits[v] = w /\ \A r \in Rounds : r # v => k.visits[r] = wf.visits[r]
    BY <1>1 DEF Workflows
  <2>3. w.interest # "PENDING"
    BY <1>1 DEF WithInterest, Workflows, Visits, Answers
  <2> HIDE DEF k, w
  <2>4. PostViewingOpen(wf) => PostViewingOpen(k)
    BY <2>1 DEF SameCommitments, PostViewingOpen
  <2>5. \A r \in Rounds : k.visits[r].interest = "PENDING" => wf.visits[r].interest = "PENDING"
    BY <2>2, <2>3
  <2>6. /\ k.pending = wf.pending /\ k.offers = wf.offers /\ k.confirmed = wf.confirmed
        /\ \A r \in Rounds : k.visits[r].status = wf.visits[r].status
    BY <2>1 DEF SameCommitments
  <2>7. InTurn(k)
    BY <2>4, <2>5, <2>6, SameTurn
  <2>8. Good(Close(k, FALSE)) /\ Quiet(Close(k, FALSE))
    BY <2>1, CloseIsGood
  <2>9. InTurn(Close(k, FALSE))
    BY <2>8, QuietInTurn
  <2> QED BY <2>1, <2>7, <2>8, <2>9 DEF k
<1>3. ASSUME NEW v \in Rounds, NEW outcome \in Outcomes, RecordOutcome(v, outcome) PROVE InTurn(wf')
  BY <1>3, OutcomeInTurn
<1>4. ASSUME NEW v \in Rounds, NEW reply \in Answers, Answer(v, reply) PROVE InTurn(wf')
  <2> DEFINE k == [wf EXCEPT !.visits[v] = WithInterest(@, reply)]
  <2>1. wf' = Bump(k) \/ wf' = Close(k, FALSE)
    BY <1>4 DEF Answer
  <2>2. Good(k) /\ InTurn(k) /\ InTurn(Close(k, FALSE))
    BY <1>2
  <2> HIDE DEF k
  <2> QED BY <2>1, <2>2, BumpInTurn
<1>5. ASSUME NEW v \in Rounds, NEW consideration \in Considerations, Consider(v, consideration)
      PROVE  InTurn(wf')
  <2> DEFINE k == [wf EXCEPT !.consideration = consideration]
             g == Bump(k)
  <2>1. wf' = g
    BY <1>5 DEF Consider
  <2>2. /\ k \in Workflows /\ k.state = wf.state /\ k.reason = wf.reason /\ k.pending = wf.pending
        /\ k.confirmed = wf.confirmed /\ k.offers = wf.offers /\ k.visits = wf.visits
    BY <1>1 DEF Workflows
  <2> HIDE DEF k
  <2>3. /\ g.state = wf.state /\ g.reason = wf.reason /\ g.pending = wf.pending
        /\ g.confirmed = wf.confirmed /\ g.offers = wf.offers /\ g.visits = wf.visits
    BY <2>2 DEF Bump, Workflows
  <2> HIDE DEF g
  <2>4. PostViewingOpen(wf) => PostViewingOpen(g)
    BY <2>3 DEF PostViewingOpen
  <2>5. InTurn(g)
    BY <2>3, <2>4, SameTurn
  <2> QED BY <2>1, <2>5
<1>6. ASSUME NEW v \in Rounds, DoNotContinue(v) PROVE InTurn(wf')
  <2>1. wf' = Close(wf, TRUE)
    BY <1>6 DEF DoNotContinue
  <2> QED BY <1>1, <2>1, CloseIsGood, QuietInTurn
<1>7. ASSUME NEW v \in Rounds, ExpireInterest(v) PROVE InTurn(wf')
  <2> DEFINE k == [wf EXCEPT !.visits[v] = WithInterest(@, "EXPIRED")]
             c == Close(k, FALSE)
  <2>1. wf' = Bump(c) \/ wf' = c
    BY <1>7 DEF ExpireInterest
  <2>2. Good(c) /\ InTurn(c)
    BY <1>2
  <2> HIDE DEF c
  <2> QED BY <2>1, <2>2, BumpInTurn
<1> QED BY <1>3, <1>4, <1>5, <1>6, <1>7 DEF DecisionStep

LEMMA StepInTurn ==
  ASSUME IInv, InTurn(wf), [Next]_vars
  PROVE  InTurn(wf')
<1>1. Good(wf)
  BY DEF IInv
<1>2. CASE CalendarStep \/ ExpireOffer
  BY <1>2, CalendarInTurn
<1>3. CASE DecisionStep \/ \E v \in Rounds : ExpireInterest(v)
  BY <1>3, DecisionInTurn
<1>4. CASE Withdraw \/ Reject \/ Revalidate \/ MoveToDraft \/ Archive \/ Rent
  <2>1. wf' = Close(wf, FALSE)
    BY <1>4 DEF Withdraw, Reject, Revalidate, MoveToDraft, Archive, Rent
  <2> QED BY <1>1, <2>1, CloseIsGood, QuietInTurn
<1>5. CASE Restore
  <2>1. wf' = RestoredWorkflow(wf)
    BY <1>5 DEF Restore
  <2> QED BY <1>1, <2>1, RestoredIsGood, QuietInTurn
<1>6. CASE wf' = wf
  BY <1>6 DEF InTurn, IsLatest, LastSeen, PostViewingOpen
<1>7. CASE \/ Promote \/ Tick \/ UNCHANGED vars
           \/ SetListing("DRAFT", "PUBLISHED") \/ SetListing("PUBLISHED", "PAUSED")
           \/ SetListing("PAUSED", "PUBLISHED")
  <2>1. CASE Promote
    BY <1>6, <2>1 DEF Promote
  <2>2. CASE Tick
    BY <1>6, <2>2 DEF Tick
  <2>3. CASE UNCHANGED vars
    BY <1>6, <2>3 DEF vars
  <2>4. CASE \/ SetListing("DRAFT", "PUBLISHED") \/ SetListing("PUBLISHED", "PAUSED")
             \/ SetListing("PAUSED", "PUBLISHED")
    BY <1>6, <2>4 DEF SetListing
  <2> QED BY <1>7, <2>1, <2>2, <2>3, <2>4
<1> QED BY <1>2, <1>3, <1>4, <1>5, <1>7 DEF Next, LifecycleStep

\* Only a recorded outcome is counted, and only a visit with one has a status of the kind.
Counted(f) == \A r \in Rounds : f.visits[r].status \notin Outcomes => f.visits[r].outcomes = 0

LEMMA CountedStays ==
  ASSUME IInv, Rowed(wf), Counted(wf), [Next]_vars
  PROVE  Counted(wf')
<1>1. CASE ~Records
  <2>1. GoesOn(wf, wf')
    BY <1>1, StepGoesOn
  <2>2. ASSUME NEW r \in Rounds, wf'.visits[r].status \notin Outcomes PROVE wf'.visits[r].outcomes = 0
    <3>1. VisitGoesOn(wf.visits[r], wf'.visits[r])
      BY <2>1 DEF GoesOn
    <3>2. wf.visits[r].status \notin Outcomes
      BY <2>2, <3>1 DEF VisitGoesOn
    <3> QED BY <3>1, <3>2 DEF Counted, VisitGoesOn, SameLedger
  <2> QED BY <2>2 DEF Counted
<1>2. CASE Records
  <2>1. PICK v \in Rounds, outcome \in Outcomes : RecordOutcome(v, outcome)
    BY <1>2 DEF Records
  <2>2. ASSUME NEW r \in Rounds, wf'.visits[r].status \notin Outcomes PROVE wf'.visits[r].outcomes = 0
    <3>1. r # v
      <4>1. wf'.visits[v] = WithOutcome(v, outcome)
        BY <2>1, OutcomeLeaves
      <4>2. WithOutcome(v, outcome).status = outcome
        BY <2>1, OutcomeWritten
      <4> QED BY <2>2, <4>1, <4>2
    <3>2. wf'.visits[r].status = wf.visits[r].status /\ wf'.visits[r].outcomes = wf.visits[r].outcomes
      BY <2>1, <3>1, OutcomeLeaves
    <3> QED BY <2>2, <3>2 DEF Counted
  <2> QED BY <2>2 DEF Counted
<1> QED BY <1>1, <1>2

\* No outcome is recorded of a visit that is not over, and its date stays what it was.
OutcomesAreOver ==
  \A r \in Rounds : wf.visits[r].outcomes # 0 => clock >= wf.offers[r].start + Duration

\* Time does not go back.
LEMMA ClockGoesOn ==
  ASSUME IInv, [Next]_vars
  PROVE  clock' \in Nat /\ clock \in Nat /\ clock' >= clock
<1>1. clock \in Nat
  BY DEF IInv, TypeOK
<1>2. CASE CalendarStep
  BY <1>1, <1>2 DEF CalendarStep, Invite, ProposeAlternative, Counterpropose, WithdrawOffer,
       CancelAppointment, CloseCalendar, Accept, Decline, Reschedule, Calendar
<1>3. ASSUME NEW v \in Rounds,
             \/ \E outcome \in Outcomes : RecordOutcome(v, outcome)
             \/ \E reply \in Answers : Answer(v, reply)
             \/ \E consideration \in Considerations : Consider(v, consideration)
             \/ DoNotContinue(v) \/ ExpireInterest(v)
      PROVE  clock' = clock
  <2>1. ASSUME NEW outcome \in Outcomes, RecordOutcome(v, outcome) PROVE clock' = clock
    BY <2>1 DEF RecordOutcome
  <2>2. ASSUME NEW reply \in Answers, Answer(v, reply) PROVE clock' = clock
    BY <2>2 DEF Answer
  <2>3. ASSUME NEW consideration \in Considerations, Consider(v, consideration) PROVE clock' = clock
    BY <2>3 DEF Consider
  <2>4. CASE DoNotContinue(v) \/ ExpireInterest(v)
    BY <2>4 DEF DoNotContinue, ExpireInterest
  <2> QED BY <1>3, <2>1, <2>2, <2>3, <2>4
<1>4. CASE LifecycleStep
  <2>1. ASSUME Withdraw PROVE clock' = clock
    BY <2>1, Zenon DEF Withdraw
  <2>2. ASSUME Reject PROVE clock' = clock
    BY <2>2, Zenon DEF Reject
  <2>3. ASSUME Revalidate PROVE clock' = clock
    BY <2>3, Zenon DEF Revalidate
  <2>4. ASSUME MoveToDraft PROVE clock' = clock
    BY <2>4, Zenon DEF MoveToDraft
  <2>5. ASSUME Archive PROVE clock' = clock
    BY <2>5, Zenon DEF Archive
  <2>6. ASSUME Rent PROVE clock' = clock
    BY <2>6, Zenon DEF Rent
  <2>7. CASE Promote \/ Restore
    BY <1>1, <2>7 DEF Promote, Restore
  <2>8. ASSUME NEW from, NEW to, SetListing(from, to) PROVE clock' = clock
    BY <2>8 DEF SetListing
  <2> QED BY <1>1, <1>4, <2>1, <2>2, <2>3, <2>4, <2>5, <2>6, <2>7, <2>8 DEF LifecycleStep
<1>5. CASE ExpireOffer \/ UNCHANGED vars
  BY <1>1, <1>5 DEF ExpireOffer, vars
<1>6. CASE Tick
  BY <1>1, <1>6 DEF Tick
<1> QED BY <1>1, <1>2, <1>3, <1>4, <1>5, <1>6 DEF Next, DecisionStep

LEMMA OutcomesStayOver ==
  ASSUME IInv, Rowed(wf), OutcomesAreOver, [Next]_vars
  PROVE  OutcomesAreOver'
<1>1. Good(wf) /\ wf \in Workflows /\ clock' >= clock /\ clock \in Nat /\ clock' \in Nat
  BY ClockGoesOn DEF IInv, Good
<1>2. \A r \in Rounds : wf.offers[r].start \in Nat
  BY <1>1 DEF Workflows, Offers
<1>3. ASSUME NEW r \in Rounds, wf.visits[r].status # "NONE", OfferGoesOn(wf.offers[r], wf'.offers[r])
      PROVE  wf'.offers[r] = wf.offers[r]
  BY <1>1, <1>3 DEF Good, Match, OfferGoesOn
<1>4. \A r \in Rounds : wf.visits[r].outcomes # 0 => wf.visits[r].status # "NONE"
  BY DEF Rowed, IsRow, NoVisit
<1>5. CASE ~Records
  <2>1. GoesOn(wf, wf')
    BY <1>5, StepGoesOn
  <2>2. ASSUME NEW r \in Rounds, wf'.visits[r].outcomes # 0
        PROVE  clock' >= wf'.offers[r].start + Duration
    <3>1. wf.visits[r].outcomes # 0 /\ OfferGoesOn(wf.offers[r], wf'.offers[r])
      BY <2>1, <2>2 DEF GoesOn, VisitGoesOn, SameLedger
    <3>2. wf'.offers[r] = wf.offers[r]
      BY <1>3, <1>4, <3>1
    <3>3. clock >= wf.offers[r].start + Duration
      BY <3>1 DEF OutcomesAreOver
    <3> QED BY <1>1, <1>2, <3>2, <3>3
  <2> QED BY <2>2 DEF OutcomesAreOver
<1>6. CASE Records
  <2>1. PICK v \in Rounds, outcome \in Outcomes : RecordOutcome(v, outcome)
    BY <1>6 DEF Records
  <2>2. \A r \in Rounds : OfferGoesOn(wf.offers[r], wf'.offers[r])
    BY <2>1, OutcomeRows
  <2>3. /\ wf.visits[v].status # "NONE" /\ clock >= wf.offers[v].start + Duration
        /\ clock' = clock
    BY <2>1 DEF RecordOutcome
  <2>4. ASSUME NEW r \in Rounds, wf'.visits[r].outcomes # 0
        PROVE  clock' >= wf'.offers[r].start + Duration
    <3>1. r # v => wf.visits[r].outcomes # 0
      BY <2>1, <2>4, OutcomeLeaves
    <3>2. wf.visits[r].status # "NONE"
      BY <1>4, <2>3, <3>1
    <3>3. wf'.offers[r] = wf.offers[r]
      BY <1>3, <2>2, <3>2
    <3>4. clock >= wf.offers[r].start + Duration
      BY <2>3, <3>1 DEF OutcomesAreOver
    <3> QED BY <2>3, <3>3, <3>4
  <2> QED BY <2>4 DEF OutcomesAreOver
<1> QED BY <1>5, <1>6

\* What the projection relies on.
ShownInv == LedgerInv /\ Fresh(wf) /\ InTurn(wf) /\ Counted(wf) /\ OutcomesAreOver

LEMMA InitIsShown == Init => ShownInv
<1> SUFFICES ASSUME Init PROVE ShownInv
  OBVIOUS
<1>1. LedgerInv /\ Fresh(wf)
  BY InitIsRowed, InitIsFresh
<1>2. wf.pending = NoRound /\ wf.confirmed = NoRound /\ \A r \in Rounds : wf.visits[r] = NoVisit
  BY DEF Init
<1>3. InTurn(wf) /\ Counted(wf) /\ OutcomesAreOver
  BY <1>2 DEF InTurn, Counted, OutcomesAreOver, NoVisit
<1> QED BY <1>1, <1>3 DEF ShownInv

LEMMA ShownStays == ShownInv /\ [Next]_vars => ShownInv'
<1> SUFFICES ASSUME ShownInv, [Next]_vars PROVE ShownInv'
  OBVIOUS
<1>1. LedgerInv'
  BY LedgerIsKept DEF ShownInv
<1>2. Fresh(wf') /\ InTurn(wf') /\ Counted(wf')
  BY FreshStays, StepInTurn, CountedStays DEF ShownInv, LedgerInv
<1>3. OutcomesAreOver'
  BY OutcomesStayOver DEF ShownInv, LedgerInv
<1> QED BY <1>1, <1>2, <1>3 DEF ShownInv

\* The rounds come in turn, whatever is closed, reopened, corrected or restored: the
\* pending offer is the last made, the appointment the last accepted, and no visit took
\* place after the one an applicant is asked about.
THEOREM RoundsComeInTurn == Spec => []ShownInv
<1> QED BY InitIsShown, ShownStays, PTL DEF Spec

\* What dates a decision takes no step but those of ViewingWorkflow.
THEOREM ProjectionImplementsWorkflow == SpecProjection => Spec
<1>1. InitProjection => Init
  BY DEF InitProjection
<1>2. [NextProjection]_allVars => [Next]_vars
  <2> SUFFICES ASSUME [NextProjection]_allVars PROVE [Next]_vars
    OBVIOUS
  <2>1. ASSUME NEW v \in Rounds, DecideNot(v) \/ \E consideration \in Considerations : Decide(v, consideration)
        PROVE  Next
    BY <2>1 DEF DecideNot, Decide, Next, DecisionStep
  <2>2. CASE RestoreUndecided
    BY <2>2 DEF RestoreUndecided, Next, LifecycleStep
  <2>3. CASE OtherSteps
    <3>1. ASSUME NEW v \in Rounds,
                 \/ \E outcome \in Outcomes : RecordOutcome(v, outcome)
                 \/ \E reply \in Answers : Answer(v, reply)
                 \/ ExpireInterest(v)
          PROVE  Next
      BY <3>1 DEF Next, DecisionStep
    <3>2. CASE \/ Withdraw \/ Reject \/ Revalidate \/ Promote
               \/ SetListing("DRAFT", "PUBLISHED") \/ SetListing("PUBLISHED", "PAUSED")
               \/ SetListing("PAUSED", "PUBLISHED")
               \/ MoveToDraft \/ Archive \/ Rent
      BY <3>2 DEF Next, LifecycleStep
    <3>3. CASE CalendarStep \/ ExpireOffer \/ Tick
      BY <3>3 DEF Next
    <3> QED BY <2>3, <3>1, <3>2, <3>3 DEF OtherSteps
  <2>4. CASE UNCHANGED allVars
    BY <2>4 DEF allVars
  <2> QED BY <2>1, <2>2, <2>3, <2>4 DEF NextProjection
<1> QED BY <1>1, <1>2, PTL DEF SpecProjection, Spec

LEMMA LedgerIsOfRounds ==
  ASSUME ShownInv
  PROVE  Ledger \in SUBSET Rounds
<1>1. \A S \in SUBSET Rounds : Last(S) # NoRound => Last(S) \in Rounds
  <2>1. ASSUME NEW S \in SUBSET Rounds, Last(S) # NoRound PROVE Last(S) \in Rounds
    <3>1. S # {}
      BY <2>1 DEF Last
    <3> QED BY <3>1, LastIsGreatest
  <2> QED BY <2>1
<1>2. \A T \in SUBSET VisitStatus : WithStatus(T) \in SUBSET Rounds
  BY DEF WithStatus
<1>3. Appointments \in SUBSET Rounds
  BY DEF Appointments
<1>4. /\ WithStatus({"COMPLETED"}) \in SUBSET Rounds
      /\ WithStatus({"APPLICANT_ABSENT", "PROVIDER_ABSENT"}) \in SUBSET Rounds
      /\ WithStatus({"ACCEPTED", "OUTCOME_PENDING"}) \in SUBSET Rounds
  BY DEF WithStatus
<1>5. ({Last(Appointments), Last(WithStatus({"COMPLETED"})),
        Last(WithStatus({"APPLICANT_ABSENT", "PROVIDER_ABSENT"}))} \ {NoRound}) \in SUBSET Rounds
  BY <1>1, <1>3, <1>4
<1>6. {r \in WithStatus({"COMPLETED"}) : wf.visits[r].interest \notin Answers} \in SUBSET Rounds
  BY <1>4
<1> QED BY <1>4, <1>5, <1>6 DEF Ledger

\* The completed visit that is shown is the last one that was completed, although only a
\* part of the ledger is read.
LEMMA CompletedIsLatest ==
  ASSUME ShownInv
  PROVE  /\ Completed # NoRound => Completed \in Rounds /\ IsLatestCompleted(wf, Completed)
         /\ \A r \in Rounds : wf.visits[r].status = "COMPLETED" => Completed # NoRound
<1> DEFINE S == WithStatus({"COMPLETED"})
           T == {r \in Ledger : wf.visits[r].status = "COMPLETED"}
<1>1. S \in SUBSET Rounds /\ T \in SUBSET Rounds /\ T \subseteq S
  BY LedgerIsOfRounds DEF WithStatus
<1>2. \A r \in Rounds : r \in S <=> wf.visits[r].status = "COMPLETED"
  BY DEF WithStatus
<1>3. Completed = Last(T)
  BY DEF Completed
<1>4. ASSUME S # {} PROVE Last(S) \in T
  <2>1. Last(S) \in S
    BY <1>1, <1>4, LastIsGreatest
  <2>2. Last(S) # NoRound
    BY <1>1, <2>1 DEF Rounds, NoRound
  <2>3. Last(S) \in Ledger
    BY <2>2 DEF Ledger
  <2> QED BY <1>1, <1>2, <2>1, <2>3
<1> HIDE DEF S, T
<1>5. ASSUME Completed # NoRound PROVE Completed \in Rounds /\ IsLatestCompleted(wf, Completed)
  <2>1. T # {}
    BY <1>3, <1>5 DEF Last
  <2>2. Completed \in T /\ \A q \in T : q <= Completed
    BY <1>1, <1>3, <2>1, LastIsGreatest
  <2>3. S # {} /\ Completed \in S /\ Completed \in Rounds
    BY <1>1, <2>2
  <2>4. Last(S) \in T /\ \A q \in S : q <= Last(S)
    BY <1>1, <1>4, <2>3, LastIsGreatest
  <2>5. ASSUME NEW r \in Rounds, r > Completed PROVE r \notin S
    <3>1. Last(S) \in Rounds /\ Last(S) <= Completed
      BY <1>1, <2>2, <2>4
    <3> QED BY <2>3, <2>4, <2>5, <3>1 DEF Rounds
  <2> QED BY <1>2, <2>3, <2>5 DEF IsLatestCompleted
<1>6. ASSUME NEW r \in Rounds, wf.visits[r].status = "COMPLETED" PROVE Completed # NoRound
  <2>1. T # {}
    BY <1>2, <1>4, <1>6
  <2>2. Completed \in Rounds
    BY <1>1, <1>3, <2>1, LastIsGreatest
  <2> QED BY <2>2 DEF Rounds, NoRound
<1> QED BY <1>5, <1>6

\* Whoever is asked is asked about the visit that is shown.
LEMMA AskedIsCompleted ==
  ASSUME ShownInv, NEW r \in Rounds, wf.visits[r].interest = "PENDING"
  PROVE  Completed = r
<1>1. LastSeen(wf, r)
  BY DEF ShownInv, InTurn
<1>2. Completed \in Rounds /\ IsLatestCompleted(wf, Completed)
  BY <1>1, CompletedIsLatest DEF LastSeen
<1>3. ~ (r > Completed)
  BY <1>1, <1>2 DEF IsLatestCompleted, LastSeen
<1>4. ~ (Completed > r)
  BY <1>1, <1>2 DEF IsLatestCompleted, LastSeen
<1> QED BY <1>2, <1>3, <1>4 DEF Rounds

\* While nothing is overdue, the interest that is shown has not run out.
LEMMA TimelyInterest ==
  ASSUME ShownInv, CanMutate, Timely(wf)
  PROVE  ~InterestExpired
<1> SUFFICES ASSUME InterestExpired PROVE FALSE
  OBVIOUS
<1>1. Completed \in Rounds /\ IsLatestCompleted(wf, Completed)
  BY CompletedIsLatest DEF InterestExpired
<1>2. wf.visits[Completed].interest = "PENDING" /\ clock >= wf.visits[Completed].due
  BY DEF InterestExpired
<1>3. PostViewingOpen(wf)
  BY <1>1, <1>2 DEF ShownInv, InTurn
<1> QED BY <1>1, <1>2, <1>3 DEF Timely, InterestOverdue

\* Whoever has something to do is asked to, and whoever is asked may do it: the pending
\* offer, the visit without an outcome and the open question of interest are in the part
\* of the ledger that is read, however many rounds came since.
LEMMA NothingIsMissed == ShownInv => NobodyIsForgotten
<1> SUFFICES ASSUME ShownInv PROVE NobodyIsForgotten
  OBVIOUS
<1>1. Good(wf) /\ wf \in Workflows
  BY DEF ShownInv, LedgerInv, IInv, Good
<1>2. ASSUME NEW name \in ObligationNames, Obligation(name)
      PROVE  Allowed(Discharges[name], Responsible(name))
  <2>1. CASE name = "RESPOND"
    <3>1. Discharges[name] = "REJECT_PROPOSAL" /\ Responsible(name) = Responder
      BY <2>1 DEF Discharges, Responsible
    <3>2. OpenNow /\ PendingLive
      BY <1>2, <2>1 DEF Obligation
    <3>3. Allowed("REJECT_PROPOSAL", Responder)
      BY <3>2 DEF Allowed, MayDecideProposal
    <3> QED BY <3>1, <3>3
  <2>2. CASE name = "RECORD_OUTCOME"
    <3>1. Discharges[name] = "RECORD_OUTCOME" /\ Responsible(name) = "PROVIDER"
      BY <2>2 DEF Discharges, Responsible
    <3>2. Allowed("RECORD_OUTCOME", "PROVIDER")
      BY <1>2, <2>2 DEF Obligation, Allowed
    <3> QED BY <3>1, <3>2
  <2>3. CASE name = "CONFIRM_INTEREST"
    <3>1. Discharges[name] = "SUBMIT_INTEREST" /\ Responsible(name) = "APPLICANT"
      BY <2>3 DEF Discharges, Responsible
    <3>2. Allowed("SUBMIT_INTEREST", "APPLICANT")
      BY <1>2, <2>3 DEF Obligation, Allowed
    <3> QED BY <3>1, <3>2
  <2>4. CASE name = "DECIDE_CONSIDERATION"
    <3>1. Discharges[name] = "SET_CONSIDERATION" /\ Responsible(name) = "PROVIDER"
      BY <2>4 DEF Discharges, Responsible
    <3>2. Allowed("SET_CONSIDERATION", "PROVIDER")
      BY <1>2, <2>4 DEF Obligation, Allowed
    <3> QED BY <3>1, <3>2
  <2> QED BY <2>1, <2>2, <2>3, <2>4 DEF ObligationNames
<1>3. ASSUME CanMutate, Timely(wf), PendingLive
      PROVE  Obligation("RESPOND") /\ ~PendingBy(Responder)
  <2>1. wf.state = "OPEN"
    BY <1>1, <1>3 DEF PendingLive, Good, Match
  <2>2. OpenNow
    BY <1>3, <2>1, TimelyInterest DEF OpenNow, Active, Current
  <2>3. ~PendingBy(Responder)
    BY DEF Responder, PendingBy
  <2> QED BY <1>3, <2>2, <2>3 DEF Obligation
<1>4. ASSUME NEW r \in Rounds, wf.visits[r].status \in {"ACCEPTED", "OUTCOME_PENDING"}, clock >= EndsAt(r)
      PROVE  Obligation("RECORD_OUTCOME")
  <2> DEFINE S == {q \in Ledger :
                     /\ wf.visits[q].status \in {"ACCEPTED", "OUTCOME_PENDING"}
                     /\ wf.visits[q].outcomes = 0
                     /\ clock >= EndsAt(q)
                     /\ q = wf.confirmed \/ wf.visits[q].status = "OUTCOME_PENDING"}
  <2>1. r \in Ledger
    BY <1>4 DEF Ledger, WithStatus
  <2>2. wf.visits[r].outcomes = 0
    BY <1>4 DEF ShownInv, Counted, Outcomes
  <2>3. wf.visits[r].status = "ACCEPTED" => r = wf.confirmed
    BY <1>1 DEF Good, Match
  <2>4. r \in S
    BY <1>4, <2>1, <2>2, <2>3
  <2>5. S \in SUBSET Rounds
    BY LedgerIsOfRounds
  <2>6. Attendance = Last(S)
    BY DEF Attendance
  <2> HIDE DEF S
  <2>7. Attendance \in Rounds
    BY <2>4, <2>5, <2>6, LastIsGreatest
  <2>8. Current
    BY <1>4 DEF ShownInv, Fresh, Current
  <2> QED BY <2>7, <2>8 DEF Obligation, Rounds, NoRound
<1>5. ASSUME CanMutate, Timely(wf), NEW r \in Rounds, wf.visits[r].interest = "PENDING"
      PROVE  Obligation("CONFIRM_INTEREST")
  <2>1. PostViewingOpen(wf) /\ LastSeen(wf, r)
    BY <1>5 DEF ShownInv, InTurn
  <2>3. Completed = r
    BY <1>5, AskedIsCompleted
  <2>4. ~InterestExpired
    BY <1>5, TimelyInterest
  <2>5. ApplicantInterest = "PENDING"
    BY <1>5, <2>3, <2>4 DEF ApplicantInterest, NoRound, Rounds
  <2>6. Current
    BY <2>1 DEF PostViewingOpen, Current
  <2>7. InterestAvailable
    BY <1>5, <2>1, <2>4, <2>5, <2>6 DEF InterestAvailable, PostViewing, Active
  <2> QED BY <2>7 DEF Obligation
<1> QED BY <1>2, <1>3, <1>4, <1>5 DEF NobodyIsForgotten

\* Nothing open falls out of what batch() reads, and nobody is asked for something that
\* is not offered: for any number of rounds.
THEOREM NobodyForgotten == SpecProjection => []NobodyIsForgotten
<1> QED BY NothingIsMissed, RoundsComeInTurn, ProjectionImplementsWorkflow, PTL

-----------------------------------------------------------------------------
(***************************************************************************)
(* Offers and commands: the projection derives what it offers from the     *)
(* part of the ledger it reads, the commands decide on the whole of it.    *)
(***************************************************************************)
\* The part that is read tells of the appointment and of the interest that has run out
\* what the commands find.
LEMMA WhatIsRead ==
  ASSUME ShownInv
  PROVE  /\ Confirmed = wf.confirmed
         /\ wf.pending # NoRound \/ wf.confirmed # NoRound => wf.state = "OPEN"
         /\ Started <=> ~NotStarted(wf)
         /\ CutoffPassed <=> ~BeforeCutoff
         /\ Started => CutoffPassed
         /\ Unblocked <=> CanMutate /\ \A v \in Rounds : ~InterestOverdue(wf, v)
<1>1. Good(wf) /\ wf \in Workflows /\ clock \in Nat
  BY DEF ShownInv, LedgerInv, IInv, Good, TypeOK
<1>2. wf.confirmed \in Rounds \cup {NoRound}
  BY <1>1 DEF Workflows
<1>3. Confirmed = wf.confirmed
  <2>1. wf.confirmed # NoRound => wf.confirmed \in Ledger
    BY <1>1, <1>2 DEF Good, Match, Ledger, WithStatus
  <2> QED BY <2>1 DEF Confirmed
<1>4. wf.pending # NoRound \/ wf.confirmed # NoRound => wf.state = "OPEN"
  BY <1>1 DEF Good, Match
<1>5. wf.confirmed # NoRound => wf.offers[wf.confirmed].start \in Nat
  BY <1>1, <1>2 DEF Workflows, Offers
<1>6. ChangeCutoff \in Nat
  OBVIOUS
<1>7. /\ Started <=> ~NotStarted(wf)
      /\ CutoffPassed <=> ~BeforeCutoff
      /\ Started => CutoffPassed
  BY <1>1, <1>3, <1>5, <1>6 DEF Started, NotStarted, CutoffPassed, BeforeCutoff
<1>8. Unblocked <=> CanMutate /\ \A v \in Rounds : ~InterestOverdue(wf, v)
  <2>1. ASSUME NEW v \in Rounds, InterestOverdue(wf, v) PROVE InterestExpired
    <3>1. wf.visits[v].interest = "PENDING" /\ clock >= wf.visits[v].due
      BY <2>1 DEF InterestOverdue
    <3>2. Completed = v
      BY <3>1, AskedIsCompleted
    <3> QED BY <3>1, <3>2 DEF InterestExpired, Rounds, NoRound
  <2>2. ASSUME CanMutate, InterestExpired PROVE \E v \in Rounds : InterestOverdue(wf, v)
    <3>1. Completed \in Rounds /\ IsLatestCompleted(wf, Completed)
      BY <2>2, CompletedIsLatest DEF InterestExpired
    <3>2. wf.visits[Completed].interest = "PENDING" /\ clock >= wf.visits[Completed].due
      BY <2>2 DEF InterestExpired
    <3>3. PostViewingOpen(wf)
      BY <3>1, <3>2 DEF ShownInv, InTurn
    <3> QED BY <2>2, <3>1, <3>2, <3>3 DEF InterestOverdue
  <2> QED BY <2>1, <2>2 DEF Unblocked
<1> QED BY <1>3, <1>4, <1>7, <1>8

\* While an offer is on the table that has not run out, what stands open is what is timely.
LEMMA WhatIsTimely ==
  ASSUME ShownInv
  PROVE  /\ PendingLive /\ OpenNow <=> wf.pending # NoRound /\ CanMutate /\ Timely(wf)
         /\ ~OfferOverdue(wf) => (Unblocked <=> CanMutate /\ Timely(wf))
         /\ wf.pending = NoRound => ~OfferOverdue(wf)
         /\ \A side \in Sides : wf.pending # NoRound => (Responder = side <=> ~PendingBy(side))
<1>1. wf \in Workflows
  BY DEF ShownInv, LedgerInv, IInv, TypeOK
<1>2. ~OfferOverdue(wf) => (Unblocked <=> CanMutate /\ Timely(wf))
  BY WhatIsRead DEF Timely
<1>3. wf.pending = NoRound => ~OfferOverdue(wf)
  BY DEF OfferOverdue
<1>4. wf.pending # NoRound => wf.state = "OPEN"
  BY WhatIsRead
<1>5. PendingLive <=> wf.pending # NoRound /\ ~OfferOverdue(wf)
  BY <1>4 DEF PendingLive, PendingExpired, OfferOverdue
<1>6. wf.pending # NoRound => (OpenNow <=> Unblocked)
  BY <1>4 DEF OpenNow, Active, Current, Unblocked
<1>7. PendingLive /\ OpenNow <=> wf.pending # NoRound /\ CanMutate /\ Timely(wf)
  <2>1. Timely(wf) => ~OfferOverdue(wf)
    BY DEF Timely
  <2> QED BY <1>2, <1>5, <1>6, <2>1
<1>8. ASSUME NEW side \in Sides, wf.pending # NoRound PROVE Responder = side <=> ~PendingBy(side)
  <2>1. wf.offers[wf.pending].by \in Sides
    BY <1>1, <1>8 DEF Workflows, Offers
  <2> QED BY <1>8, <2>1 DEF Responder, PendingBy, Sides
<1> QED BY <1>2, <1>3, <1>7, <1>8

LEMMA CalendarOffers ==
  ASSUME ShownInv, NEW side \in Sides,
         NEW action \in {"INVITE", "ACCEPT_PROPOSAL", "REJECT_PROPOSAL", "COUNTERPROPOSE",
                         "PROPOSE_REPLACEMENT", "WITHDRAW_ALTERNATIVE", "CANCEL_APPOINTMENT",
                         "CLOSE_FLOW"},
         ~ExpiresAnotherFirst(action)
  PROVE  Allowed(action, side) <=> CanMutate /\ Timely(wf) /\ CalendarAccepts(action, side)
<1> DEFINE timely == CanMutate /\ Timely(wf)
<1>1. /\ Confirmed = wf.confirmed
      /\ wf.pending # NoRound \/ wf.confirmed # NoRound => wf.state = "OPEN"
      /\ Started <=> ~NotStarted(wf)
      /\ CutoffPassed <=> ~BeforeCutoff
      /\ Started => CutoffPassed
  BY WhatIsRead
<1>2. /\ PendingLive /\ OpenNow <=> wf.pending # NoRound /\ timely
      /\ ~OfferOverdue(wf) => (Unblocked <=> timely)
      /\ wf.pending = NoRound => ~OfferOverdue(wf)
      /\ wf.pending # NoRound => (Responder = side <=> ~PendingBy(side))
  BY WhatIsTimely
<1>3. \A s : PendingBy(s) => wf.pending # NoRound
  BY DEF PendingBy
<1> HIDE DEF timely
<1>4. CASE action = "INVITE"
  BY <1>1, <1>2, <1>4 DEF Allowed, CalendarAccepts, timely
<1>5. CASE action = "ACCEPT_PROPOSAL"
  BY <1>1, <1>2, <1>5 DEF Allowed, CalendarAccepts, MayDecideProposal, timely
<1>6. CASE action = "REJECT_PROPOSAL"
  BY <1>1, <1>2, <1>6 DEF Allowed, CalendarAccepts, MayDecideProposal, timely
<1>7. CASE action = "COUNTERPROPOSE"
  BY <1>1, <1>2, <1>3, <1>7 DEF Allowed, CalendarAccepts, Sides, timely
<1>8. CASE action = "PROPOSE_REPLACEMENT"
  BY <1>1, <1>2, <1>8 DEF Allowed, CalendarAccepts, HasFutureAppointment, timely
<1>9. CASE action = "WITHDRAW_ALTERNATIVE"
  BY <1>2, <1>3, <1>9 DEF Allowed, CalendarAccepts, timely
<1>10. CASE action = "CANCEL_APPOINTMENT"
  <2>1. Unblocked <=> timely
    BY <1>2, <1>10 DEF ExpiresAnotherFirst
  <2> QED BY <1>1, <1>10, <2>1 DEF Allowed, CalendarAccepts, HasFutureAppointment, timely
<1>11. CASE action = "CLOSE_FLOW"
  <2>1. Unblocked <=> timely
    BY <1>2, <1>11 DEF ExpiresAnotherFirst
  <2> QED BY <1>1, <1>11, <2>1 DEF Allowed, CalendarAccepts, timely
<1> QED BY <1>4, <1>5, <1>6, <1>7, <1>8, <1>9, <1>10, <1>11

\* The visit without an outcome that is shown is one the command takes an outcome of.
LEMMA AttendanceIsGiven ==
  ASSUME ShownInv, Attendance # NoRound
  PROVE  /\ Attendance \in Rounds /\ MayRecord(Attendance)
         /\ wf.visits[Attendance].status # "NONE"
         /\ clock >= wf.offers[Attendance].start + Duration
<1> DEFINE S == {r \in Ledger :
                   /\ wf.visits[r].status \in {"ACCEPTED", "OUTCOME_PENDING"}
                   /\ wf.visits[r].outcomes = 0
                   /\ clock >= EndsAt(r)
                   /\ r = wf.confirmed \/ wf.visits[r].status = "OUTCOME_PENDING"}
<1>1. Attendance = Last(S)
  BY DEF Attendance
<1>2. S \in SUBSET Rounds
  BY LedgerIsOfRounds
<1>3. \A r \in S : /\ wf.visits[r].status \in {"ACCEPTED", "OUTCOME_PENDING"}
                   /\ wf.visits[r].outcomes = 0
                   /\ clock >= EndsAt(r)
  OBVIOUS
<1> HIDE DEF S
<1>4. S # {}
  BY <1>1 DEF Last
<1>5. Attendance \in S /\ Attendance \in Rounds
  BY <1>1, <1>2, <1>4, LastIsGreatest
<1> QED BY <1>3, <1>5 DEF MayRecord, EndsAt

\* The outcome that may be corrected is that of the last appointment, which is read.
LEMMA CorrectableIs ==
  ASSUME ShownInv
  PROVE  Correctable <=>
           \E v \in Rounds :
             /\ wf.visits[v].status # "NONE" /\ IsLatest(wf, v) /\ IsCorrection(v)
             /\ wf.visits[v].interest \notin Answers
             /\ clock < wf.visits[v].recorded + CorrectionWindow
<1> DEFINE S == {r \in Ledger : wf.visits[r].outcomes > 0}
           last == Last(Appointments)
<1>1. OutcomeAppointment = Last(S)
  BY DEF OutcomeAppointment
<1>2. \A r \in Rounds : /\ wf.visits[r].outcomes \in 0..2
                        /\ wf.visits[r].outcomes # 0 => wf.visits[r].status # "NONE"
  <2>1. \A r \in Rounds : wf.visits[r].outcomes \in 0..2
    BY DEF ShownInv, LedgerInv, IInv, TypeOK, Workflows, Visits
  <2> QED BY <2>1 DEF ShownInv, LedgerInv, Rowed, IsRow, NoVisit
<1>3. S \in SUBSET Rounds /\ S \subseteq Appointments /\ Appointments \in SUBSET Rounds
  BY <1>2, LedgerIsOfRounds DEF Appointments
<1>4. \A r \in Ledger : wf.visits[r].outcomes > 0 <=> r \in S
  OBVIOUS
<1>5. \A r \in Rounds : r \in Appointments <=> wf.visits[r].status # "NONE"
  BY DEF Appointments
<1>6. Appointments # {} => last \in Ledger
  <2>1. ASSUME Appointments # {} PROVE last # NoRound
    BY <1>3, <2>1, LastIsGreatest DEF Rounds, NoRound
  <2> QED BY <2>1 DEF Ledger
<1> HIDE DEF S, last, Appointments
<1>7. ASSUME Correctable
      PROVE  \E v \in Rounds :
               /\ wf.visits[v].status # "NONE" /\ IsLatest(wf, v) /\ IsCorrection(v)
               /\ wf.visits[v].interest \notin Answers
               /\ clock < wf.visits[v].recorded + CorrectionWindow
  <2> DEFINE v == OutcomeAppointment
  <2>1. v # NoRound /\ v = last
    BY <1>7 DEF Correctable, last
  <2>2. S # {}
    BY <1>1, <2>1 DEF Last
  <2>3. v \in S /\ v \in Rounds /\ v \in Appointments
    BY <1>1, <1>3, <2>2, LastIsGreatest
  <2>4. \A q \in Appointments : q <= v
    BY <1>3, <2>1, <2>3, LastIsGreatest DEF last
  <2>5. IsLatest(wf, v)
    <3>1. ASSUME NEW r \in Rounds, r > v PROVE r \notin Appointments
      BY <2>3, <2>4, <3>1 DEF Rounds
    <3> QED BY <1>5, <3>1 DEF IsLatest
  <2>6. /\ IsCorrection(v) /\ wf.visits[v].interest \notin Answers
        /\ clock < wf.visits[v].recorded + CorrectionWindow
    BY <1>7 DEF Correctable, IsCorrection, CorrectionCutoff
  <2> HIDE DEF v
  <2> QED BY <1>5, <2>3, <2>5, <2>6
<1>8. ASSUME NEW v \in Rounds,
             wf.visits[v].status # "NONE", IsLatest(wf, v), IsCorrection(v),
             wf.visits[v].interest \notin Answers,
             clock < wf.visits[v].recorded + CorrectionWindow
      PROVE  Correctable
  <2>1. v \in Appointments /\ \A q \in Appointments : q <= v
    <3>1. ASSUME NEW q \in Appointments PROVE q <= v
      <4>1. q \in Rounds /\ ~(q > v)
        BY <1>3, <1>5, <1>8 DEF IsLatest
      <4> QED BY <4>1 DEF Rounds
    <3> QED BY <1>5, <1>8, <3>1
  <2>2. last \in Appointments /\ \A q \in Appointments : q <= last
    BY <1>3, <2>1, LastIsGreatest DEF last
  <2>3. last = v
    BY <1>3, <2>1, <2>2 DEF Rounds
  <2>4. v \in S
    BY <1>4, <1>6, <1>8, <2>1, <2>3 DEF IsCorrection
  <2>5. OutcomeAppointment \in S /\ \A q \in S : q <= OutcomeAppointment
    BY <1>1, <1>3, <2>4, LastIsGreatest
  <2>6. OutcomeAppointment = v
    BY <1>3, <2>1, <2>4, <2>5 DEF Rounds
  <2>7. v # NoRound
    BY DEF Rounds, NoRound
  <2> QED BY <1>8, <2>3, <2>6, <2>7 DEF Correctable, IsCorrection, CorrectionCutoff, last
<1> QED BY <1>7, <1>8

LEMMA OutcomeOffers ==
  ASSUME ShownInv, NEW action \in {"RECORD_OUTCOME", "CORRECT_OUTCOME"},
         ~ExpiresAnotherFirst(action), ProviderVisible
  PROVE  Allowed(action, "PROVIDER") <=> DecisionAccepts(action, "PROVIDER")
<1>1. \A u \in Rounds : ~InterestOverdue(wf, u)
  BY DEF ExpiresAnotherFirst
<1>2. CASE action = "RECORD_OUTCOME"
  <2>1. ASSUME Attendance # NoRound
        PROVE  \E v \in Rounds : \E o \in Outcomes : MayRecord(v) /\ MayGiveOutcome(v, o)
    <3>1. \A o : MayGiveOutcome(Attendance, o)
      BY <1>1, <2>1, AttendanceIsGiven
    <3>2. "COMPLETED" \in Outcomes
      BY DEF Outcomes
    <3> HIDE DEF MayGiveOutcome
    <3> QED BY <2>1, <3>1, <3>2, AttendanceIsGiven
  <2>2. ASSUME NEW v \in Rounds, NEW o \in Outcomes, MayRecord(v) /\ MayGiveOutcome(v, o)
        PROVE  Current /\ Attendance # NoRound
    <3>1. wf.visits[v].status \in {"ACCEPTED", "OUTCOME_PENDING"} /\ clock >= EndsAt(v)
      BY <2>2 DEF MayRecord, EndsAt
    <3> QED BY <3>1, NothingIsMissed DEF NobodyIsForgotten, Obligation
  <2>3. Attendance # NoRound => Current
    BY AttendanceIsGiven DEF ShownInv, Fresh, Current
  <2> HIDE DEF MayGiveOutcome
  <2> QED BY <1>2, <2>1, <2>2, <2>3 DEF Allowed, DecisionAccepts
<1>3. CASE action = "CORRECT_OUTCOME"
  <2>1. ASSUME Correctable
        PROVE  \E v \in Rounds : \E o \in Outcomes : MayCorrect(v, o) /\ MayGiveOutcome(v, o)
    <3>1. PICK v \in Rounds :
            /\ wf.visits[v].status # "NONE" /\ IsLatest(wf, v) /\ IsCorrection(v)
            /\ wf.visits[v].interest \notin Answers
            /\ clock < wf.visits[v].recorded + CorrectionWindow
      BY <2>1, CorrectableIs
    <3>2. clock >= wf.offers[v].start + Duration
      BY <3>1 DEF ShownInv, OutcomesAreOver, IsCorrection
    <3>3. PICK o \in Outcomes : o # wf.visits[v].status
      BY DEF Outcomes
    <3>4. MayCorrect(v, o)
      BY <3>1, <3>3 DEF MayCorrect
    <3>5. MayGiveOutcome(v, o)
      BY <1>1, <3>1, <3>2, <3>4
    <3> HIDE DEF MayGiveOutcome
    <3> QED BY <3>3, <3>4, <3>5
  <2>2. ASSUME NEW v \in Rounds, NEW o \in Outcomes, MayCorrect(v, o) /\ MayGiveOutcome(v, o)
        PROVE  Correctable
    BY <2>2, CorrectableIs DEF MayCorrect
  <2> HIDE DEF MayGiveOutcome
  <2> QED BY <1>3, <2>1, <2>2 DEF Allowed, DecisionAccepts
<1> QED BY <1>2, <1>3

\* The question of interest and the decision that are shown are the ones the commands know.
LEMMA AnswerOffers ==
  ASSUME ShownInv
  PROVE  /\ InterestAvailable <=> \E v \in Rounds : MayAnswer(v)
         /\ DecisionEligible <=> \E v \in Rounds : MayConsider(v)
<1>1. clock \in Nat /\ \A v \in Rounds : wf.visits[v].due \in Nat
  BY DEF ShownInv, LedgerInv, IInv, TypeOK, Workflows, Visits
<1>2. PostViewingOpen(wf) => Current
  BY DEF PostViewingOpen, Current
<1>3. Completed # NoRound => Completed \in Rounds /\ IsLatestCompleted(wf, Completed)
  BY CompletedIsLatest
<1>4. \A v \in Rounds : IsLatestCompleted(wf, v) => Completed = v /\ v # NoRound
  <2>1. ASSUME NEW v \in Rounds, IsLatestCompleted(wf, v) PROVE Completed = v /\ v # NoRound
    <3>1. Completed \in Rounds /\ IsLatestCompleted(wf, Completed)
      BY <2>1, CompletedIsLatest DEF IsLatestCompleted
    <3>2. ~(v > Completed) /\ ~(Completed > v)
      BY <2>1, <3>1 DEF IsLatestCompleted
    <3> QED BY <3>1, <3>2 DEF Rounds, NoRound
  <2> QED BY <2>1
<1>5. ASSUME CanMutate, PostViewingOpen(wf), Completed # NoRound
      PROVE  InterestExpired <=> InterestOverdue(wf, Completed)
  BY <1>3, <1>5 DEF InterestExpired, InterestOverdue
<1>6. ASSUME InterestAvailable PROVE \E v \in Rounds : MayAnswer(v)
  <2>1. CanMutate /\ PostViewingOpen(wf) /\ ~InterestExpired /\ ApplicantInterest = "PENDING"
    BY <1>6 DEF InterestAvailable, PostViewing, Active
  <2>2. Completed # NoRound /\ wf.visits[Completed].interest = "PENDING"
    BY <2>1 DEF ApplicantInterest
  <2>3. clock < wf.visits[Completed].due
    BY <1>1, <1>3, <2>1, <2>2 DEF InterestExpired
  <2>4. MayAnswer(Completed)
    BY <1>3, <2>1, <2>2, <2>3
  <2> HIDE DEF MayAnswer
  <2> QED BY <1>3, <2>2, <2>4
<1>7. ASSUME NEW v \in Rounds, MayAnswer(v) PROVE InterestAvailable
  <2>1. Completed = v /\ v # NoRound
    BY <1>4, <1>7
  <2>2. ~InterestExpired
    BY <1>1, <1>7, <2>1 DEF InterestExpired
  <2> QED BY <1>2, <1>7, <2>1, <2>2 DEF InterestAvailable, PostViewing, Active, ApplicantInterest
<1>8. ASSUME DecisionEligible PROVE \E v \in Rounds : MayConsider(v)
  <2>1. /\ CanMutate /\ PostViewingOpen(wf) /\ ~InterestExpired
        /\ Completed # NoRound /\ ApplicantInterest # "CLOSED"
    BY <1>8 DEF DecisionEligible, PostViewing, Active
  <2>2. wf.visits[Completed].interest # "CLOSED"
    BY <2>1 DEF ApplicantInterest
  <2>3. MayConsider(Completed)
    BY <1>3, <1>5, <2>1, <2>2 DEF MayConsider
  <2> QED BY <1>3, <2>1, <2>3
<1>9. ASSUME NEW v \in Rounds, MayConsider(v) PROVE DecisionEligible
  <2>1. Completed = v /\ v # NoRound
    BY <1>4, <1>9 DEF MayConsider
  <2>2. ~InterestExpired
    BY <1>5, <1>9, <2>1 DEF MayConsider
  <2> QED BY <1>2, <1>9, <2>1, <2>2 DEF MayConsider, DecisionEligible, PostViewing, Active, ApplicantInterest
<1> HIDE DEF MayAnswer
<1> QED BY <1>6, <1>7, <1>8, <1>9

LEMMA OffersHonoured == ShownInv => OffersAreHonoured
<1> SUFFICES ASSUME ShownInv, NEW side \in Sides, NEW action \in Capabilities,
                    ~ExpiresAnotherFirst(action),
                    side = "PROVIDER" => ProviderVisible
             PROVE  Allowed(action, side) <=> Accepted(action, side)
  BY DEF OffersAreHonoured
<1>1. CASE action \in {"INVITE", "ACCEPT_PROPOSAL", "REJECT_PROPOSAL", "COUNTERPROPOSE",
                       "PROPOSE_REPLACEMENT", "WITHDRAW_ALTERNATIVE", "CANCEL_APPOINTMENT",
                       "CLOSE_FLOW"}
  <2>1. Allowed(action, side) <=> CanMutate /\ Timely(wf) /\ CalendarAccepts(action, side)
    BY <1>1, CalendarOffers
  <2>2. ~DecisionAccepts(action, side)
    BY <1>1 DEF DecisionAccepts
  <2> QED BY <2>1, <2>2 DEF Accepted
<1>2. CASE action \notin {"INVITE", "ACCEPT_PROPOSAL", "REJECT_PROPOSAL", "COUNTERPROPOSE",
                          "PROPOSE_REPLACEMENT", "WITHDRAW_ALTERNATIVE", "CANCEL_APPOINTMENT",
                          "CLOSE_FLOW"}
  <2>1. ~CalendarAccepts(action, side)
    BY <1>2 DEF CalendarAccepts
  <2>2. Accepted(action, side) <=> DecisionAccepts(action, side)
    BY <2>1 DEF Accepted
  <2>3. CASE action \in {"RECORD_OUTCOME", "CORRECT_OUTCOME"}
    <3>1. CASE side = "PROVIDER"
      BY <2>2, <2>3, <3>1, OutcomeOffers
    <3>2. CASE side # "PROVIDER"
      BY <2>2, <2>3, <3>2 DEF Allowed, DecisionAccepts
    <3> QED BY <3>1, <3>2
  <2>4. CASE action = "SUBMIT_INTEREST"
    <3> HIDE DEF MayAnswer
    <3> QED BY <2>2, <2>4, AnswerOffers DEF Allowed, DecisionAccepts
  <2>5. CASE action = "SET_CONSIDERATION"
    BY <2>2, <2>5, AnswerOffers DEF Allowed, DecisionAccepts
  <2> QED BY <1>2, <2>3, <2>4, <2>5 DEF Capabilities
<1> QED BY <1>1, <1>2

\* Each side is offered exactly what the commands accept from it, for any number of rounds
\* and any windows.
THEOREM OffersAccepted == SpecProjection => []OffersAreHonoured
<1> QED BY OffersHonoured, RoundsComeInTurn, ProjectionImplementsWorkflow, PTL

-----------------------------------------------------------------------------
(***************************************************************************)
(* The attention an application calls for: what the overviews skip, and    *)
(* the instants at which what is shown changes.                            *)
(***************************************************************************)
\* What the overviews skip owes nothing and waits for nothing.
LEMMA SkippedIsQuiet ==
  ASSUME ShownInv, ~Scanned(FALSE)
  PROVE  /\ ~CanMutate
         /\ Item("PROVIDER", 1, 1) = [viewing |-> {}, documents |-> 0, unread |-> 0, next |-> Never]
<1>1. ~CanMutate /\ \A r \in Rounds : wf.visits[r].status \notin {"ACCEPTED", "OUTCOME_PENDING"} \cup Outcomes
  BY DEF Scanned, WithStatus, CanMutate
<1>2. Good(wf) /\ clock \in Nat
  BY DEF ShownInv, LedgerInv, IInv, TypeOK
<1>3. Last({}) = NoRound
  BY DEF Last
<1>4. Confirmed = NoRound
  <2>1. wf.confirmed \in Rounds \cup {NoRound}
    BY <1>2 DEF Good, Workflows
  <2>2. wf.confirmed = NoRound
    BY <1>1, <1>2, <2>1 DEF Good, Match
  <2> QED BY <2>2 DEF Confirmed
<1>5. Completed = NoRound
  <2>1. {r \in Ledger : wf.visits[r].status = "COMPLETED"} = {}
    BY <1>1, LedgerIsOfRounds DEF Outcomes
  <2> QED BY <1>3, <2>1 DEF Completed
<1>6. Attendance = NoRound
  <2>1. {r \in Ledger : /\ wf.visits[r].status \in {"ACCEPTED", "OUTCOME_PENDING"}
                        /\ wf.visits[r].outcomes = 0
                        /\ clock >= EndsAt(r)
                        /\ r = wf.confirmed \/ wf.visits[r].status = "OUTCOME_PENDING"} = {}
    BY <1>1, LedgerIsOfRounds
  <2> QED BY <1>3, <2>1 DEF Attendance
<1>7. OutcomeAppointment = NoRound
  <2>1. \A r \in Rounds : wf.visits[r].outcomes = 0
    BY <1>1 DEF ShownInv, Counted
  <2>2. {r \in Ledger : wf.visits[r].outcomes > 0} = {}
    BY <2>1, LedgerIsOfRounds
  <2> QED BY <1>3, <2>2 DEF OutcomeAppointment
<1>8. ~Active /\ ApplicantInterest = "NONE"
  BY <1>1, <1>5 DEF Active, ApplicantInterest
<1>9. Boundaries("PROVIDER") = {}
  <2>1. {EndsAt(r) : r \in {q \in Ledger : wf.visits[q].status = "OUTCOME_PENDING"}} = {}
    BY <1>1, LedgerIsOfRounds
  <2> QED BY <1>4, <1>7, <1>8, <2>1 DEF Boundaries
<1>10. NextRevalidateAt("PROVIDER") = Never
  BY <1>9 DEF NextRevalidateAt
<1>11. \A name \in ObligationNames : ~Obligation(name)
  BY <1>5, <1>6, <1>8
     DEF ObligationNames, Obligation, OpenNow, InterestAvailable, PostViewing, DecisionEligible
<1>12. Facts("PROVIDER") = {[action |-> "NONE", revalidatesAt |-> Never]}
  BY <1>10, <1>11 DEF Facts
<1>13. AttentionRevalidateAt("PROVIDER") = Never
  <2>1. {fact.revalidatesAt : fact \in Facts("PROVIDER")} \ (0..clock) = {}
    BY <1>2, <1>12 DEF Never
  <2> QED BY <2>1 DEF AttentionRevalidateAt
<1>14. PendingViewing("PROVIDER") = {}
  BY <1>12 DEF PendingViewing, PendingActions
<1> QED BY <1>1, <1>13, <1>14 DEF Item

LEMMA OverviewsMatch == ShownInv => OverviewsMatchMenu
<1> SUFFICES ASSUME ShownInv, ~Scanned(FALSE) PROVE OverviewsMatchMenu
  BY DEF OverviewsMatchMenu
<1> DEFINE item == Item("PROVIDER", 1, 1)
           items == Detail("PROVIDER", 1, 1)
           listed == ListingOverview(items)
<1>1. item.viewing = {} /\ item.documents = 0 /\ item.unread = 0 /\ item.next = Never /\ ~CanMutate
  BY SkippedIsQuiet
<1>2. items \in SUBSET {item} /\ (Visible("PROVIDER") => items = {item})
  BY DEF Detail
<1>3. Count(item) = 0
  BY <1>1, FS_EmptySet DEF Count
<1>4. Total(item) = NoTotals /\ ~Actionable(item)
  BY <1>1, <1>3, FS_EmptySet DEF Total, NoTotals, Actionable
<1> HIDE DEF item
<1>5. \A S \in SUBSET {item} : Totals(S) = NoTotals
  BY <1>4 DEF Totals
<1> HIDE DEF items
<1>6. Menu(items) = NoTotals
  <2>1. Totals(items) = NoTotals /\ ~ \E x \in items : Actionable(x)
    BY <1>2, <1>4, <1>5
  <2>2. [NoTotals EXCEPT !.next = NoTotals.next] = NoTotals
    BY DEF NoTotals
  <2> QED BY <2>1, <2>2 DEF Menu
<1>7. Overview(items).totals = NoTotals /\ listed.totals = NoTotals
  BY <1>2, <1>5 DEF Overview, ListingOverview, Summaries
<1>8. application = "ACTIVE" => listed.cards # {}
  <2>1. application = "ACTIVE" => items = {item} /\ Scanned(application = "ACTIVE")
    BY <1>2 DEF Visible, ProviderVisible, Scanned
  <2> QED BY <2>1 DEF ListingOverview, Summaries
<1> QED BY <1>6, <1>7, <1>8 DEF OverviewsMatchMenu, items

\* The overviews of a provider, which skip what has no part in the process any more, count
\* what the menu counts and look again when it does, and miss no card: for any number of
\* rounds (the filter of provider-overview-query.service.ts).
THEOREM OverviewsMatchTheMenu == SpecProjection => []OverviewsMatchMenu
<1> QED BY OverviewsMatch, RoundsComeInTurn, ProjectionImplementsWorkflow, PTL

\* Time passes, and nothing else happens.
ClockPasses ==
  /\ clock' = clock + 1
  /\ UNCHANGED <<application, activeAt, listing, wf, place, decidedFor>>

LEMMA OnlyTimePasses ==
  ASSUME ShownInv, [NextProjection]_allVars, clock' # clock
  PROVE  ClockPasses
<1>1. ASSUME NEW v \in Rounds, DecideNot(v) \/ \E consideration \in Considerations : Decide(v, consideration)
      PROVE  clock' = clock
  BY <1>1 DEF DecideNot, Decide, DoNotContinue, Consider
<1>2. CASE RestoreUndecided
  BY <1>2 DEF RestoreUndecided, Restore
<1>3. CASE OtherSteps /\ UNCHANGED decidedFor
  <2>1. ASSUME NEW v \in Rounds,
               \/ \E outcome \in Outcomes : RecordOutcome(v, outcome)
               \/ \E reply \in Answers : Answer(v, reply)
               \/ ExpireInterest(v)
        PROVE  clock' = clock
    BY <2>1 DEF RecordOutcome, Answer, ExpireInterest
  <2>2. CASE \/ Withdraw \/ Reject \/ Revalidate \/ Promote
             \/ SetListing("DRAFT", "PUBLISHED") \/ SetListing("PUBLISHED", "PAUSED")
             \/ SetListing("PAUSED", "PUBLISHED")
             \/ MoveToDraft \/ Archive \/ Rent
    BY <2>2 DEF Withdraw, Reject, Revalidate, Promote, SetListing, MoveToDraft, Archive, Rent
  <2>3. CASE CalendarStep \/ ExpireOffer
    BY <2>3, CalendarAdvances DEF ExpireOffer, CalendarStep, Calendar, Invite, Counterpropose, ProposeAlternative,
       Reschedule, Accept, Decline, WithdrawOffer, CancelAppointment, CloseCalendar
  <2>4. CASE Tick
    BY <1>3, <2>4 DEF Tick, ClockPasses
  <2> QED BY <1>3, <2>1, <2>2, <2>3, <2>4 DEF OtherSteps
<1> QED BY <1>1, <1>2, <1>3 DEF NextProjection, allVars, vars

\* What does not look at the clock.
LEMMA RowsReadStay ==
  ASSUME ClockPasses
  PROVE  /\ UNCHANGED <<Ledger, Completed, Confirmed, OutcomeAppointment, CorrectionCutoff, Responder>>
         /\ UNCHANGED Last(Appointments)
         /\ CanMutate' <=> CanMutate
         /\ Current' <=> Current
         /\ ConsiderationCurrent' <=> ConsiderationCurrent
         /\ PostViewingOpen(wf)' <=> PostViewingOpen(wf)
         /\ \A r \in Rounds : EndsAt(r)' = EndsAt(r)
<1>1. wf' = wf /\ application' = application /\ listing' = listing /\ decidedFor' = decidedFor
  BY DEF ClockPasses
<1>2. \A S : WithStatus(S)' = WithStatus(S)
  BY <1>1 DEF WithStatus
<1>3. Appointments' = Appointments
  BY <1>1 DEF Appointments
<1>4. \A S : Last(S)' = Last(S)
  BY DEF Last
<1>5. Ledger' = Ledger
  BY <1>1, <1>2, <1>3 DEF Ledger
<1>6. Completed' = Completed
  BY <1>1, <1>5 DEF Completed
<1>7. Confirmed' = Confirmed
  BY <1>1, <1>5 DEF Confirmed
<1>8. OutcomeAppointment' = OutcomeAppointment
  BY <1>1, <1>5 DEF OutcomeAppointment
<1>9. CorrectionCutoff' = CorrectionCutoff
  BY <1>1, <1>8 DEF CorrectionCutoff
<1>10. Responder' = Responder
  BY <1>1 DEF Responder, PendingBy
<1>11. /\ CanMutate' <=> CanMutate
       /\ Current' <=> Current
       /\ PostViewingOpen(wf)' <=> PostViewingOpen(wf)
       /\ \A r \in Rounds : EndsAt(r)' = EndsAt(r)
  BY <1>1 DEF CanMutate, Current, PostViewingOpen, EndsAt
<1>12. ConsiderationCurrent' <=> ConsiderationCurrent
  BY <1>1, <1>6 DEF ConsiderationCurrent
<1>13. UNCHANGED Last(Appointments)
  BY <1>3
<1> QED BY <1>5, <1>6, <1>7, <1>8, <1>9, <1>10, <1>11, <1>12, <1>13

\* Of what looks at the clock, nothing changes at an instant that is not a boundary.
LEMMA BetweenBoundaries ==
  ASSUME ShownInv, ClockPasses, NEW side \in Sides, clock' \notin Boundaries(side)
  PROVE  /\ InterestExpired' <=> InterestExpired
         /\ ApplicantInterest' = ApplicantInterest
         /\ Active => (PendingLive' <=> PendingLive)
         /\ Started' <=> Started
         /\ CutoffPassed' <=> CutoffPassed
         /\ Attendance' = Attendance
         /\ side = "PROVIDER" => (Correctable' <=> Correctable)
<1>1. Good(wf) /\ wf \in Workflows /\ clock \in Nat
  BY DEF ShownInv, LedgerInv, IInv, TypeOK, Good
<1>2. wf' = wf /\ clock' = clock + 1
  BY DEF ClockPasses
<1>15. Duration \in Nat /\ ChangeCutoff \in Nat /\ CorrectionWindow \in Nat
  BY DEF WindowsAssumption
<1>3. \A t \in Int : clock' # t => (clock' >= t <=> clock >= t)
  BY <1>1, <1>2
<1>4. /\ UNCHANGED <<Ledger, Completed, Confirmed, OutcomeAppointment, CorrectionCutoff>>
      /\ UNCHANGED Last(Appointments)
      /\ \A r \in Rounds : EndsAt(r)' = EndsAt(r)
  BY RowsReadStay
<1>5. \A r \in Rounds : /\ wf.offers[r].start \in Nat /\ wf.offers[r].deadline \in Nat
                        /\ wf.visits[r].due \in Nat /\ wf.visits[r].recorded \in Nat
                        /\ EndsAt(r) \in Int
  <2>1. \A r \in Rounds : wf.offers[r] \in Offers /\ wf.visits[r] \in Visits
    BY <1>1 DEF Workflows
  <2>2. \A r \in Rounds : /\ wf.offers[r].start \in Nat /\ wf.offers[r].deadline \in Nat
                          /\ wf.visits[r].due \in Nat /\ wf.visits[r].recorded \in Nat
    BY <2>1 DEF Offers, Visits
  <2> QED BY <1>15, <2>2 DEF EndsAt
<1>6. Completed # NoRound => Completed \in Rounds
  BY CompletedIsLatest
<1>7. InterestExpired' <=> InterestExpired
  <2>1. CASE Completed # NoRound /\ wf.visits[Completed].interest = "PENDING"
    <3>1. CASE InterestExpired
      <4>1. clock >= wf.visits[Completed].due
        BY <3>1 DEF InterestExpired
      <4>2. clock' >= wf.visits[Completed].due
        BY <1>1, <1>2, <1>5, <1>6, <2>1, <4>1
      <4> QED BY <1>2, <1>4, <2>1, <3>1, <4>2 DEF InterestExpired
    <3>2. CASE ~InterestExpired
      <4>1. ApplicantInterest = "PENDING"
        BY <2>1, <3>2 DEF ApplicantInterest
      <4>2. wf.visits[Completed].due \in Boundaries(side)
        BY <4>1 DEF Boundaries
      <4>3. clock' >= wf.visits[Completed].due <=> clock >= wf.visits[Completed].due
        BY <1>3, <1>5, <1>6, <2>1, <4>2
      <4> QED BY <1>2, <1>4, <4>3 DEF InterestExpired
    <3> QED BY <3>1, <3>2
  <2>2. CASE ~ (Completed # NoRound /\ wf.visits[Completed].interest = "PENDING")
    BY <1>2, <1>4, <2>2 DEF InterestExpired
  <2> QED BY <2>1, <2>2
<1>8. ApplicantInterest' = ApplicantInterest
  BY <1>2, <1>4, <1>7 DEF ApplicantInterest
<1>9. ASSUME Active PROVE PendingLive' <=> PendingLive
  <2>1. CASE PendingLive
    <3>1. wf.pending \in Rounds /\ wf.offers[wf.pending].deadline \in Boundaries(side)
      BY <1>1, <1>9, <2>1 DEF Boundaries, PendingLive, Workflows
    <3>2. clock' >= wf.offers[wf.pending].deadline <=> clock >= wf.offers[wf.pending].deadline
      BY <1>3, <1>5, <3>1
    <3> QED BY <1>2, <3>2 DEF PendingLive, PendingExpired
  <2>2. CASE ~PendingLive
    <3>1. CASE wf.pending = NoRound
      BY <1>2, <3>1 DEF PendingLive
    <3>2. CASE wf.pending # NoRound
      <4>1. wf.pending \in Rounds /\ clock >= wf.offers[wf.pending].deadline
        BY <1>1, <2>2, <3>2 DEF PendingLive, PendingExpired, Workflows
      <4>2. clock' >= wf.offers[wf.pending].deadline
        BY <1>1, <1>2, <1>5, <4>1
      <4> QED BY <1>2, <2>2, <3>2, <4>2 DEF PendingLive, PendingExpired
    <3> QED BY <3>1, <3>2
  <2> QED BY <2>1, <2>2
<1>10. Confirmed # NoRound => Confirmed \in Rounds
  BY <1>1 DEF Confirmed, Workflows
<1>11. Started' <=> Started
  <2>1. CASE Confirmed # NoRound
    <3>1. wf.offers[Confirmed].start \in Boundaries(side)
      BY <2>1 DEF Boundaries
    <3>2. clock' >= wf.offers[Confirmed].start <=> clock >= wf.offers[Confirmed].start
      BY <1>3, <1>5, <1>10, <2>1, <3>1
    <3> QED BY <1>2, <1>4, <3>2 DEF Started
  <2>2. CASE Confirmed = NoRound
    BY <1>4, <2>2 DEF Started
  <2> QED BY <2>1, <2>2
<1>12. CutoffPassed' <=> CutoffPassed
  <2>1. CASE Confirmed # NoRound
    <3>1. wf.offers[Confirmed].start - ChangeCutoff \in Boundaries(side)
      BY <2>1 DEF Boundaries
    <3>2. wf.offers[Confirmed].start - ChangeCutoff \in Int
      BY <1>5, <1>10, <1>15, <2>1
    <3>3. clock' >= wf.offers[Confirmed].start - ChangeCutoff <=> clock >= wf.offers[Confirmed].start - ChangeCutoff
      BY <1>3, <3>1, <3>2
    <3> QED BY <1>2, <1>4, <3>3 DEF CutoffPassed
  <2>2. CASE Confirmed = NoRound
    BY <1>4, <2>2 DEF CutoffPassed
  <2> QED BY <2>1, <2>2
<1>13. Attendance' = Attendance
  <2> DEFINE S(t) == {r \in Ledger : /\ wf.visits[r].status \in {"ACCEPTED", "OUTCOME_PENDING"}
                                     /\ wf.visits[r].outcomes = 0
                                     /\ t >= EndsAt(r)
                                     /\ r = wf.confirmed \/ wf.visits[r].status = "OUTCOME_PENDING"}
  <2>1. ASSUME NEW r \in Ledger, r = wf.confirmed \/ wf.visits[r].status = "OUTCOME_PENDING"
        PROVE  clock' >= EndsAt(r) <=> clock >= EndsAt(r)
    <3>1. r \in Rounds
      BY <2>1, LedgerIsOfRounds
    <3>2. EndsAt(r) \in Boundaries(side)
      <4>1. CASE r = wf.confirmed
        <5>1. Confirmed = r /\ r # NoRound
          BY <2>1, <3>1, <4>1 DEF Confirmed, Rounds, NoRound
        <5> QED BY <5>1 DEF Boundaries
      <4>2. CASE wf.visits[r].status = "OUTCOME_PENDING"
        BY <2>1, <4>2 DEF Boundaries
      <4> QED BY <2>1, <4>1, <4>2
    <3> QED BY <1>3, <1>5, <3>1, <3>2
  <2>2. S(clock') = S(clock)
    BY <2>1
  <2>3. Attendance = Last(S(clock))
    BY DEF Attendance
  <2>4. Attendance' = Last(S(clock'))
    <3>1. Attendance' = Last({r \in Ledger : /\ wf.visits[r].status \in {"ACCEPTED", "OUTCOME_PENDING"}
                                             /\ wf.visits[r].outcomes = 0
                                             /\ clock' >= EndsAt(r)'
                                             /\ r = wf.confirmed \/ wf.visits[r].status = "OUTCOME_PENDING"})
      BY <1>2, <1>4 DEF Attendance, Last
    <3>2. \A r \in Ledger : EndsAt(r)' = EndsAt(r)
      BY <1>4, LedgerIsOfRounds
    <3> QED BY <3>1, <3>2
  <2> QED BY <2>2, <2>3, <2>4
<1>14. ASSUME side = "PROVIDER" PROVE Correctable' <=> Correctable
  <2>1. CASE /\ OutcomeAppointment # NoRound
             /\ wf.visits[OutcomeAppointment].outcomes = 1
             /\ wf.visits[OutcomeAppointment].interest \notin Answers
    <3>1. CorrectionCutoff \in Boundaries(side)
      BY <1>14, <2>1 DEF Boundaries
    <3>2. OutcomeAppointment \in Rounds
      <4>1. {r \in Ledger : wf.visits[r].outcomes > 0} \in SUBSET Rounds
        BY LedgerIsOfRounds
      <4>2. {r \in Ledger : wf.visits[r].outcomes > 0} # {}
        BY <2>1 DEF OutcomeAppointment, Last
      <4> QED BY <4>1, <4>2, LastIsGreatest DEF OutcomeAppointment
    <3>3. CorrectionCutoff \in Int
      BY <1>5, <1>15, <3>2 DEF CorrectionCutoff
    <3>4. clock' < CorrectionCutoff <=> clock < CorrectionCutoff
      BY <1>1, <1>2, <3>1, <3>3
    <3> QED BY <1>2, <1>4, <3>4 DEF Correctable
  <2>2. CASE ~ (/\ OutcomeAppointment # NoRound
                /\ wf.visits[OutcomeAppointment].outcomes = 1
                /\ wf.visits[OutcomeAppointment].interest \notin Answers)
    BY <1>2, <1>4, <2>2 DEF Correctable
  <2> QED BY <2>1, <2>2
<1> QED BY <1>7, <1>8, <1>9, <1>11, <1>12, <1>13, <1>14

\* An offer on the table that nobody can act on stands beside an interest that ran out.
LEMMA DeadOffers ==
  ASSUME ShownInv, wf.pending # NoRound, ~Active
  PROVE  InterestExpired
<1>1. wf.state = "OPEN"
  BY DEF ShownInv, LedgerInv, IInv, Good, Match
<1>2. CanMutate
  BY <1>1 DEF ShownInv, LedgerInv, IInv, Quiet
<1> QED BY <1>1, <1>2 DEF Active, Current

LEMMA OffersStay ==
  ASSUME ShownInv, ClockPasses, NEW side \in Sides, clock' \notin Boundaries(side)
  PROVE  /\ Offer(side)' = Offer(side)
         /\ \A name \in ObligationNames : Obligation(name)' <=> Obligation(name)
<1>1. wf' = wf
  BY DEF ClockPasses
<1>2. /\ Completed' = Completed /\ Confirmed' = Confirmed /\ Responder' = Responder
      /\ CanMutate' <=> CanMutate
      /\ Current' <=> Current
      /\ ConsiderationCurrent' <=> ConsiderationCurrent
      /\ PostViewingOpen(wf)' <=> PostViewingOpen(wf)
  BY RowsReadStay
<1>3. /\ InterestExpired' <=> InterestExpired
      /\ ApplicantInterest' = ApplicantInterest
      /\ Active => (PendingLive' <=> PendingLive)
      /\ Started' <=> Started
      /\ CutoffPassed' <=> CutoffPassed
      /\ Attendance' = Attendance
      /\ side = "PROVIDER" => (Correctable' <=> Correctable)
  BY BetweenBoundaries
<1>4. Active' <=> Active
  BY <1>2, <1>3 DEF Active
<1>5. OpenNow' <=> OpenNow
  BY <1>1, <1>4 DEF OpenNow
<1>6. OpenNow => (PendingLive' <=> PendingLive)
  BY <1>3 DEF OpenNow
<1>7. PostViewing' <=> PostViewing
  BY <1>2, <1>4 DEF PostViewing
<1>8. InterestAvailable' <=> InterestAvailable
  BY <1>3, <1>7 DEF InterestAvailable
<1>9. DecisionEligible' <=> DecisionEligible
  BY <1>2, <1>3, <1>7 DEF DecisionEligible
<1>10. Unblocked' <=> Unblocked
  BY <1>2, <1>3 DEF Unblocked
<1>11. MayDecideProposal(side)' <=> MayDecideProposal(side)
  BY <1>2, <1>5, <1>6 DEF MayDecideProposal
<1>12. HasFutureAppointment' <=> HasFutureAppointment
  BY <1>2, <1>3, <1>10 DEF HasFutureAppointment
<1>13. \A s : PendingBy(s)' <=> PendingBy(s)
  BY <1>1 DEF PendingBy
<1>14. ASSUME NEW action \in Capabilities PROVE Allowed(action, side)' <=> Allowed(action, side)
  <2>1. CASE action = "INVITE"
    BY <1>1, <1>2, <1>10, <2>1 DEF Allowed
  <2>2. CASE action = "ACCEPT_PROPOSAL"
    BY <1>3, <1>11, <2>2 DEF Allowed
  <2>3. CASE action = "REJECT_PROPOSAL"
    BY <1>11, <2>3 DEF Allowed
  <2>4. CASE action = "COUNTERPROPOSE"
    BY <1>3, <1>5, <1>6, <1>13, <2>4 DEF Allowed
  <2>5. CASE action = "PROPOSE_REPLACEMENT"
    BY <1>1, <1>3, <1>12, <2>5 DEF Allowed
  <2>6. CASE action = "WITHDRAW_ALTERNATIVE"
    BY <1>5, <1>6, <1>13, <2>6 DEF Allowed
  <2>7. CASE action = "CANCEL_APPOINTMENT"
    BY <1>12, <2>7 DEF Allowed
  <2>8. CASE action = "CLOSE_FLOW"
    BY <1>1, <1>2, <1>3, <1>10, <2>8 DEF Allowed
  <2>9. CASE action = "RECORD_OUTCOME"
    BY <1>2, <1>3, <2>9 DEF Allowed
  <2>10. CASE action = "CORRECT_OUTCOME"
    BY <1>3, <2>10 DEF Allowed
  <2>11. CASE action = "SUBMIT_INTEREST"
    BY <1>8, <2>11 DEF Allowed
  <2>12. CASE action = "SET_CONSIDERATION"
    BY <1>9, <2>12 DEF Allowed
  <2> QED BY <2>1, <2>2, <2>3, <2>4, <2>5, <2>6, <2>7, <2>8, <2>9, <2>10, <2>11, <2>12 DEF Capabilities
<1>15. Offer(side)' = Offer(side)
  BY <1>14 DEF Offer
<1>16. ASSUME NEW name \in ObligationNames PROVE Obligation(name)' <=> Obligation(name)
  <2>1. CASE name = "RESPOND"
    BY <1>5, <1>6, <2>1 DEF Obligation
  <2>2. CASE name = "RECORD_OUTCOME"
    BY <1>2, <1>3, <2>2 DEF Obligation
  <2>3. CASE name = "CONFIRM_INTEREST"
    BY <1>8, <2>3 DEF Obligation
  <2>4. CASE name = "DECIDE_CONSIDERATION"
    BY <1>2, <1>9, <2>4 DEF Obligation
  <2> QED BY <2>1, <2>2, <2>3, <2>4 DEF ObligationNames
<1> QED BY <1>15, <1>16

\* What is shown stays, but for the offer that nobody can act on.
LEMMA ShownBetweenBoundaries ==
  ASSUME ShownInv, ClockPasses, NEW side \in Sides, clock' \notin Boundaries(side)
  PROVE  \/ Shown(side)' = Shown(side)
         \/ InterestExpired /\ Shown(side)' = [Shown(side) EXCEPT !.offers[wf.pending] = "EXPIRED"]
<1>1. Good(wf) /\ wf \in Workflows /\ clock \in Nat /\ wf' = wf /\ clock' = clock + 1
  BY DEF ShownInv, LedgerInv, IInv, TypeOK, Good, ClockPasses
<1> DEFINE offers == [r \in Rounds |-> Resolution(r)]
           history == [r \in Rounds |-> InterestInHistory(r)]
           obligations == {name \in ObligationNames : Obligation(name)}
<1>2. /\ InterestExpired' <=> InterestExpired
      /\ ApplicantInterest' = ApplicantInterest
      /\ Active => (PendingLive' <=> PendingLive)
      /\ Completed' = Completed
  BY BetweenBoundaries, RowsReadStay
<1>3. Offer(side)' = Offer(side) /\ obligations' = obligations
  BY OffersStay
<1>4. ASSUME NEW r \in Rounds PROVE InterestInHistory(r)' = InterestInHistory(r)
  <2>1. CASE wf.visits[r].interest = "PENDING"
    <3>1. Completed = r /\ r # NoRound
      BY <2>1, AskedIsCompleted DEF Rounds, NoRound
    <3>2. /\ InterestExpired <=> clock >= wf.visits[r].due
          /\ InterestExpired' <=> clock' >= wf.visits[r].due
      BY <1>1, <1>2, <2>1, <3>1 DEF InterestExpired
    <3> QED BY <1>1, <1>2, <3>2 DEF InterestInHistory
  <2>2. CASE wf.visits[r].interest # "PENDING"
    BY <1>1, <2>2 DEF InterestInHistory
  <2> QED BY <2>1, <2>2
<1>5. history' = history
  BY <1>4
<1>6. \A r \in Rounds : r # wf.pending => Resolution(r)' = Resolution(r)
  BY <1>1 DEF Resolution, Good, Match
<1>7. /\ Shown(side) = [offers |-> offers, interest |-> ApplicantInterest, history |-> history,
                        offered |-> Offer(side), obligations |-> obligations]
      /\ Shown(side)' = [offers |-> offers', interest |-> ApplicantInterest, history |-> history,
                         offered |-> Offer(side), obligations |-> obligations]
  BY <1>2, <1>3, <1>5 DEF Shown
<1>8. CASE wf.pending = NoRound
  <2>1. \A r \in Rounds : Resolution(r)' = Resolution(r)
    BY <1>6, <1>8 DEF Rounds, NoRound
  <2>2. offers' = offers
    BY <2>1
  <2> QED BY <1>7, <2>2
<1>9. CASE wf.pending # NoRound /\ Active
  <2>1. wf.pending \in Rounds /\ wf.offers[wf.pending].resolution = "PENDING"
    BY <1>1, <1>9 DEF Workflows, Good, Match
  <2>2. /\ PendingLive <=> ~ (clock >= wf.offers[wf.pending].deadline)
        /\ PendingLive' <=> ~ (clock' >= wf.offers[wf.pending].deadline)
    BY <1>1, <1>9 DEF PendingLive, PendingExpired
  <2>3. \A r \in Rounds : r = wf.pending => Resolution(r)' = Resolution(r)
    BY <1>1, <1>2, <1>9, <2>1, <2>2 DEF Resolution
  <2>4. \A r \in Rounds : Resolution(r)' = Resolution(r)
    BY <1>6, <2>3
  <2>5. offers' = offers
    BY <2>4
  <2> QED BY <1>7, <2>5
<1>10. CASE wf.pending # NoRound /\ ~Active
  <2>1. InterestExpired /\ wf.pending \in Rounds /\ wf.offers[wf.pending].resolution = "PENDING"
    BY <1>1, <1>10, DeadOffers DEF Workflows, Good, Match
  <2>2. wf.offers[wf.pending].deadline \in Nat
    BY <1>1, <2>1 DEF Workflows, Offers
  <2>3. CASE clock' >= wf.offers[wf.pending].deadline
    <3>1. \A r \in Rounds : r = wf.pending => Resolution(r)' = "EXPIRED"
      BY <1>1, <2>1, <2>3 DEF Resolution
    <3>2. offers' = [offers EXCEPT ![wf.pending] = "EXPIRED"]
      BY <1>6, <2>1, <3>1
    <3>3. [Shown(side) EXCEPT !.offers[wf.pending] = "EXPIRED"] =
            [offers |-> [offers EXCEPT ![wf.pending] = "EXPIRED"], interest |-> ApplicantInterest,
             history |-> history, offered |-> Offer(side), obligations |-> obligations]
      BY <1>7
    <3> QED BY <1>7, <2>1, <3>2, <3>3
  <2>4. CASE ~ (clock' >= wf.offers[wf.pending].deadline)
    <3>1. ~ (clock >= wf.offers[wf.pending].deadline)
      BY <1>1, <2>2, <2>4
    <3>2. \A r \in Rounds : Resolution(r)' = Resolution(r)
      BY <1>1, <1>6, <2>4, <3>1 DEF Resolution
    <3>3. offers' = offers
      BY <3>2
    <3> QED BY <1>7, <3>3
  <2> QED BY <2>3, <2>4
<1> QED BY <1>8, <1>9, <1>10

LEMMA BoundariesAreInstants ==
  ASSUME ShownInv, NEW side \in Sides
  PROVE  Boundaries(side) \subseteq Int
<1>1. Good(wf) /\ wf \in Workflows
  BY DEF ShownInv, LedgerInv, IInv, Good
<1>2. Duration \in Nat /\ ChangeCutoff \in Nat /\ CorrectionWindow \in Nat
  BY DEF WindowsAssumption
<1>3. \A r \in Rounds : /\ wf.offers[r].start \in Nat /\ wf.offers[r].deadline \in Nat
                        /\ wf.visits[r].due \in Nat /\ wf.visits[r].recorded \in Nat
  <2>1. \A r \in Rounds : wf.offers[r] \in Offers /\ wf.visits[r] \in Visits
    BY <1>1 DEF Workflows
  <2> QED BY <2>1 DEF Offers, Visits
<1>4. \A r \in Rounds : EndsAt(r) \in Int
  BY <1>2, <1>3 DEF EndsAt
<1>5. PendingLive => wf.pending \in Rounds
  BY <1>1 DEF PendingLive, Workflows
<1>6. Confirmed # NoRound => Confirmed \in Rounds
  BY <1>1 DEF Confirmed, Workflows
<1>7. ApplicantInterest = "PENDING" => Completed \in Rounds
  BY CompletedIsLatest DEF ApplicantInterest
<1>8. ASSUME OutcomeAppointment # NoRound PROVE CorrectionCutoff \in Int
  <2>1. {r \in Ledger : wf.visits[r].outcomes > 0} \in SUBSET Rounds
    BY LedgerIsOfRounds
  <2>2. {r \in Ledger : wf.visits[r].outcomes > 0} # {}
    BY <1>8 DEF OutcomeAppointment, Last
  <2>3. OutcomeAppointment \in Rounds
    BY <2>1, <2>2, LastIsGreatest DEF OutcomeAppointment
  <2> QED BY <1>2, <1>3, <2>3 DEF CorrectionCutoff
<1>9. \A t \in Boundaries(side) :
        \/ PendingLive /\ t \in {wf.offers[wf.pending].deadline, wf.offers[wf.pending].start}
        \/ /\ Confirmed # NoRound
           /\ t \in {wf.offers[Confirmed].start, EndsAt(Confirmed), wf.offers[Confirmed].start - ChangeCutoff}
        \/ \E r \in Ledger : t = EndsAt(r)
        \/ ApplicantInterest = "PENDING" /\ t = wf.visits[Completed].due
        \/ OutcomeAppointment # NoRound /\ t = CorrectionCutoff
  BY DEF Boundaries
<1>10. \A r \in Ledger : EndsAt(r) \in Int
  BY <1>4, LedgerIsOfRounds
<1> QED BY <1>2, <1>3, <1>4, <1>5, <1>6, <1>7, <1>8, <1>9, <1>10

\* The next boundary is what the attention of the application announces, a quiet one's too.
LEMMA BoundaryIsAnnounced ==
  ASSUME ShownInv, ClockPasses, NEW side \in Sides, Visible(side), clock' \in Boundaries(side)
  PROVE  clock' = Menu(Detail(side, 0, 0)).next
<1>1. clock \in Nat /\ clock' = clock + 1
  BY DEF ShownInv, LedgerInv, IInv, TypeOK, ClockPasses
<1> DEFINE later == {t \in Boundaries(side) : t > clock}
           item == Item(side, 0, 0)
           items == Detail(side, 0, 0)
<1>2. clock' \in later /\ \A t \in later : t \in Int /\ clock' <= t
  BY <1>1, BoundariesAreInstants
<1>3. \A S : (clock' \in S /\ \A t \in S : t \in Int /\ clock' <= t) => Earliest(S) = clock'
  <2> SUFFICES ASSUME NEW S, clock' \in S, \A t \in S : t \in Int /\ clock' <= t
               PROVE  Earliest(S) = clock'
    OBVIOUS
  <2>1. \A t \in S : (\A u \in S : t <= u) => t = clock'
    OBVIOUS
  <2> QED BY <2>1 DEF Earliest
<1>4. NextRevalidateAt(side) = clock'
  BY <1>2, <1>3 DEF NextRevalidateAt
<1>5. {fact.revalidatesAt : fact \in Facts(side)} = {clock'}
  <2>1. Facts(side) = {[action |-> name, revalidatesAt |-> clock'] :
                         name \in {"NONE"} \cup {n \in ObligationNames : Obligation(n)}}
    BY <1>4 DEF Facts
  <2>2. \A fact \in Facts(side) : fact.revalidatesAt = clock'
    BY <2>1
  <2>3. Facts(side) # {}
    BY <2>1
  <2> HIDE DEF items, item, later
  <2> QED BY <2>2, <2>3
<1>6. {fact.revalidatesAt : fact \in Facts(side)} \ (0..clock) = {clock'}
  BY <1>1, <1>5
<1>7. AttentionRevalidateAt(side) = clock'
  <2>1. Earliest({clock'}) = clock'
    BY <1>1, <1>3
  <2> QED BY <1>6, <2>1 DEF AttentionRevalidateAt
<1>8. item.next = clock'
  BY <1>7 DEF Item
<1> HIDE DEF item
<1>9. items = {item}
  BY DEF Detail, item
<1>10. Totals(items).next = clock'
  BY <1>8, <1>9 DEF Totals, Total
<1> HIDE DEF items
<1>11. [NoTotals EXCEPT !.next = Totals(items).next].next = clock'
  BY <1>10 DEF NoTotals
<1>12. Menu(items).next = clock'
  BY <1>10, <1>11 DEF Menu
<1> QED BY <1>12 DEF items

\* A client that looks again at the announced instants never shows what is past: in any
\* number of rounds and for windows of any length (nextRevalidateAt of projectViewingWorkflow,
\* and the aggregation of application-attention).
THEOREM AnnouncedInTime == SpecProjection => ChangesAreAnnounced
<1>1. ASSUME ShownInv, [NextProjection]_allVars
      PROVE  [clock' # clock =>
                \A side \in Sides :
                  Visible(side) =>
                    \/ Shown(side)' = Shown(side)
                    \/ clock' = Menu(Detail(side, 0, 0)).next
                    \/ InterestExpired /\ Shown(side)' = [Shown(side) EXCEPT !.offers[wf.pending] = "EXPIRED"]]_allVars
  <2>1. ASSUME clock' # clock, NEW side \in Sides, Visible(side)
        PROVE  \/ Shown(side)' = Shown(side)
               \/ clock' = Menu(Detail(side, 0, 0)).next
               \/ InterestExpired /\ Shown(side)' = [Shown(side) EXCEPT !.offers[wf.pending] = "EXPIRED"]
    <3>1. ClockPasses
      BY <1>1, <2>1, OnlyTimePasses
    <3> QED BY <1>1, <2>1, <3>1, ShownBetweenBoundaries, BoundaryIsAnnounced
  <2> QED BY <2>1
<1> QED BY <1>1, RoundsComeInTurn, ProjectionImplementsWorkflow, PTL DEF SpecProjection, ChangesAreAnnounced

-----------------------------------------------------------------------------
(***************************************************************************)
(* The older rows.  The invariant is stated of a ledger l at an instant t: *)
(* the rounds were recorded before the next one was proposed, at most the  *)
(* last is unresolved, and what an end has shut stays shut.                *)
(***************************************************************************)
LegacyRow == [status : LegacyStatus, start : Nat, outcomes : 0..2, recorded : Nat,
              interest : {"NONE"} \cup Answers]

Ledgers == [rows : [Rounds -> LegacyRow], snapshot : Nat \cup {NoSnapshot}, ended : SUBSET Rounds]

\* A row beside a snapshot s at the instant t.
RowFits(x, s, t) ==
  /\ x \in LegacyRow
  /\ x.status = "NONE" => x = NoRow
  /\ x.status \in {"PROPOSED", "ACCEPTED", "OUTCOME_PENDING"} => x.start # 0
  /\ x.outcomes # 0 => x.start # 0 /\ x.start <= x.recorded /\ x.recorded <= t
  /\ x.outcomes # 0 <=> x.status \in {"COMPLETED", "NO_SHOW"}
  /\ x.interest # "NONE" => x.status = "COMPLETED"
  /\ x.status = "OUTCOME_PENDING" => s # NoSnapshot /\ x.start <= s

\* The round with row x comes before the one with row y.
Precedes(x, y) ==
  /\ x.outcomes # 0 /\ y.start # 0 => x.recorded < y.start
  /\ Unresolved(x) => y.status = "NONE"

RowsFit(l, t) ==
  /\ l \in Ledgers /\ l.snapshot <= t
  /\ \A r \in Rounds : RowFits(l.rows[r], l.snapshot, t)
  /\ \A r, q \in Rounds : r < q => Precedes(l.rows[r], l.rows[q])

\* The end of the process has come after the viewing x, or its outcome.
Shut(l, x) == x.outcomes = 0 \/ x.recorded <= l.snapshot \/ x.start <= l.snapshot

\* What was there at a rejection is shut when the application comes back.
EndedFits(l, status) ==
  \A r \in l.ended : /\ l.rows[r].status \notin {"NONE", "PROPOSED", "ACCEPTED"}
                     /\ l.snapshot # NoSnapshot
                     /\ status = "NOT_SELECTED" \/ Shut(l, l.rows[r])

LegacyInv ==
  /\ ShownInv
  /\ RowsFit(ledger, clock)
  /\ LiveRows(Rows) # {} => CanMutate
  /\ HasRows => wf.state = "NONE"
  /\ EndedFits(ledger, application)

LEMMA LatestIs ==
  /\ LatestRow \in 0..MaxRounds
  /\ LatestRow # NoRound => LatestRow \in Rounds /\ Rows[LatestRow].status # "NONE"
  /\ \A q \in Rounds : q > LatestRow => Rows[q].status = "NONE"
<1> DEFINE S == {r \in Rounds : Rows[r].status # "NONE"}
<1>1. \E r \in 0..MaxRounds : /\ r # NoRound => Rows[r].status # "NONE"
                              /\ \A q \in Rounds : q > r => Rows[q].status = "NONE"
  <2>1. CASE S = {}
    <3>1. 0 \in 0..MaxRounds /\ \A q \in Rounds : Rows[q].status = "NONE"
      BY <2>1 DEF BoundsAssumption
    <3> QED BY <3>1 DEF NoRound
  <2>2. CASE S # {}
    <3>1. S \in SUBSET Rounds
      OBVIOUS
    <3>2. Last(S) \in S /\ \A q \in S : q <= Last(S)
      BY <2>2, <3>1, LastIsGreatest
    <3>3. Last(S) \in 0..MaxRounds /\ Rows[Last(S)].status # "NONE"
      BY <3>2 DEF Rounds
    <3>4. ASSUME NEW q \in Rounds, q > Last(S) PROVE Rows[q].status = "NONE"
      BY <3>2, <3>3, <3>4 DEF Rounds
    <3> QED BY <3>3, <3>4
  <2> QED BY <2>1, <2>2
<1>2. /\ LatestRow \in 0..MaxRounds
      /\ LatestRow # NoRound => Rows[LatestRow].status # "NONE"
      /\ \A q \in Rounds : q > LatestRow => Rows[q].status = "NONE"
  BY <1>1 DEF LatestRow
<1>3. LatestRow # NoRound => LatestRow \in Rounds
  BY <1>2 DEF Rounds, NoRound
<1> QED BY <1>2, <1>3

\* A row may be written where the rounds before and after it allow.
LEMMA WroteFits ==
  ASSUME NEW t \in Nat, NEW l, RowsFit(l, t), NEW r \in Rounds, NEW x,
         RowFits(x, l.snapshot, t),
         \A q \in Rounds : q < r => Precedes(l.rows[q], x),
         \A q \in Rounds : q > r => Precedes(x, l.rows[q])
  PROVE  LET g == [l EXCEPT !.rows[r] = x]
         IN  /\ RowsFit(g, t) /\ g.snapshot = l.snapshot /\ g.ended = l.ended
             /\ g.rows[r] = x /\ \A q \in Rounds : q # r => g.rows[q] = l.rows[q]
<1> DEFINE g == [l EXCEPT !.rows[r] = x]
<1>1. l \in Ledgers /\ x \in LegacyRow
  BY DEF RowsFit, RowFits
<1>2. /\ g \in Ledgers /\ g.snapshot = l.snapshot /\ g.ended = l.ended
      /\ g.rows[r] = x /\ \A q \in Rounds : q # r => g.rows[q] = l.rows[q]
  BY <1>1 DEF Ledgers
<1> HIDE DEF g
<1>3. \A q \in Rounds : RowFits(g.rows[q], g.snapshot, t)
  <2>1. ASSUME NEW q \in Rounds PROVE RowFits(g.rows[q], l.snapshot, t)
    <3>1. CASE q = r
      BY <1>2, <3>1
    <3>2. CASE q # r
      BY <1>2, <3>2 DEF RowsFit
    <3> QED BY <3>1, <3>2
  <2> QED BY <1>2, <2>1
<1>4. ASSUME NEW p \in Rounds, NEW q \in Rounds, p < q PROVE Precedes(g.rows[p], g.rows[q])
  <2>1. CASE p = r
    BY <1>2, <1>4, <2>1 DEF Rounds
  <2>2. CASE q = r
    BY <1>2, <1>4, <2>2 DEF Rounds
  <2>3. CASE p # r /\ q # r
    BY <1>2, <1>4, <2>3 DEF RowsFit
  <2> QED BY <2>1, <2>2, <2>3
<1>5. g.snapshot <= t
  BY <1>2 DEF RowsFit
<1>6. RowsFit(g, t)
  BY <1>2, <1>3, <1>4, <1>5 DEF RowsFit
<1> QED BY <1>2, <1>6 DEF g

\* Time leaves the rows as they are.
LEMMA LaterFits ==
  ASSUME NEW t \in Nat, NEW u \in Nat, t <= u, NEW l, RowsFit(l, t)
  PROVE  RowsFit(l, u)
<1>1. l \in Ledgers /\ l.snapshot <= t /\ l.snapshot \in Int
  BY DEF RowsFit, Ledgers, NoSnapshot
<1>2. ASSUME NEW r \in Rounds PROVE RowFits(l.rows[r], l.snapshot, u)
  <2>1. RowFits(l.rows[r], l.snapshot, t)
    BY DEF RowsFit
  <2>2. l.rows[r].recorded \in Nat
    BY <1>1 DEF Ledgers, LegacyRow
  <2>3. l.rows[r].recorded <= t => l.rows[r].recorded <= u
    BY <2>2
  <2> QED BY <2>1, <2>3 DEF RowFits
<1> QED BY <1>1, <1>2 DEF RowsFit

\* A lifecycle end leaves no row unresolved, and only an unresolved row is touched.
LEMMA CloseLedgerFits ==
  ASSUME clock \in Nat, RowsFit(ledger, clock)
  PROVE  /\ RowsFit(CloseLedger, clock)
         /\ LiveRows(CloseLedger.rows) = {}
         /\ CloseLedger.ended = ledger.ended
         /\ CloseLedger.snapshot = ledger.snapshot \/ CloseLedger.snapshot = clock
         /\ HasRows => CloseLedger.snapshot # NoSnapshot
         /\ \A r \in Rounds :
              /\ ~Unresolved(Rows[r]) => CloseLedger.rows[r] = Rows[r]
              /\ CloseLedger.rows[r].status = "NONE" <=> Rows[r].status = "NONE"
              /\ CloseLedger.rows[r].interest = Rows[r].interest
<1>1. ledger \in Ledgers /\ ledger.snapshot <= clock /\ Rows \in [Rounds -> LegacyRow]
  BY DEF RowsFit, Ledgers, Rows
<1>2. \A r \in Rounds : RowFits(Rows[r], ledger.snapshot, clock)
  BY DEF RowsFit, Rows
<1>3. CASE ~HasRows \/ (ledger.snapshot # NoSnapshot /\ LiveRows(Rows) = {})
  <2>1. CloseLedger = ledger
    BY <1>3 DEF CloseLedger
  <2>2. LiveRows(Rows) = {}
    BY <1>3 DEF HasRows, LiveRows, Unresolved
  <2> QED BY <1>3, <2>1, <2>2 DEF Rows
<1>4. CASE HasRows /\ ~(ledger.snapshot # NoSnapshot /\ LiveRows(Rows) = {})
  <2> DEFINE rows == [r \in Rounds |-> EndedRow(Rows[r])]
             g == [ledger EXCEPT !.rows = rows, !.snapshot = clock]
  <2>1. CloseLedger = g
    BY <1>4 DEF CloseLedger
  <2>2. ASSUME NEW r \in Rounds
        PROVE  /\ RowFits(rows[r], clock, clock) /\ ~Unresolved(rows[r])
               /\ ~Unresolved(Rows[r]) => rows[r] = Rows[r]
               /\ rows[r].status = "NONE" <=> Rows[r].status = "NONE"
               /\ rows[r].interest = Rows[r].interest
               /\ rows[r].outcomes # 0 => rows[r] = Rows[r]
               /\ rows[r].start = 0 \/ rows[r].start = Rows[r].start
    <3>1. rows[r] = EndedRow(Rows[r]) /\ Rows[r] \in LegacyRow /\ RowFits(Rows[r], ledger.snapshot, clock)
      BY <1>1, <1>2
    <3> HIDE DEF rows
    <3>2. CASE ~Unresolved(Rows[r])
      <4>1. rows[r] = Rows[r]
        BY <3>1, <3>2 DEF EndedRow
      <4>2. ledger.snapshot # NoSnapshot => ledger.snapshot \in Nat
        BY <1>1 DEF Ledgers
      <4>3. Rows[r].status = "OUTCOME_PENDING" => Rows[r].start <= clock
        BY <1>1, <3>1, <4>2 DEF RowFits, LegacyRow
      <4>4. clock # NoSnapshot
        BY DEF NoSnapshot
      <4>5. RowFits(rows[r], clock, clock)
        BY <3>1, <4>1, <4>3, <4>4 DEF RowFits
      <4> QED BY <3>2, <4>1, <4>5
    <3>3. CASE Rows[r].status = "ACCEPTED" /\ Rows[r].start <= clock
      <4>1. rows[r] = [Rows[r] EXCEPT !.status = "OUTCOME_PENDING"]
        BY <3>1, <3>3 DEF EndedRow, Unresolved
      <4>2. rows[r].status = "OUTCOME_PENDING" /\ rows[r] \in LegacyRow
        BY <3>1, <4>1 DEF LegacyRow, LegacyStatus
      <4>3. /\ rows[r].start = Rows[r].start /\ rows[r].outcomes = Rows[r].outcomes
            /\ rows[r].recorded = Rows[r].recorded /\ rows[r].interest = Rows[r].interest
        BY <3>1, <4>1 DEF LegacyRow
      <4>4. Rows[r].outcomes = 0 /\ Rows[r].interest = "NONE" /\ Rows[r].start # 0
        BY <3>1, <3>3 DEF RowFits
      <4>5. clock # NoSnapshot
        BY DEF NoSnapshot
      <4>6. RowFits(rows[r], clock, clock)
        BY <3>3, <4>2, <4>3, <4>4, <4>5 DEF RowFits
      <4> QED BY <3>3, <4>2, <4>3, <4>4, <4>6 DEF Unresolved
    <3>4. CASE Unresolved(Rows[r]) /\ ~(Rows[r].status = "ACCEPTED" /\ Rows[r].start <= clock)
      <4>1. rows[r] = Dropped("CANCELLED")
        BY <3>1, <3>4 DEF EndedRow
      <4>2. /\ rows[r].status = "CANCELLED" /\ rows[r].start = 0 /\ rows[r].outcomes = 0
            /\ rows[r].recorded = 0 /\ rows[r].interest = "NONE" /\ rows[r] \in LegacyRow
        BY <4>1 DEF Dropped, NoRow, LegacyRow, LegacyStatus
      <4>3. Rows[r].interest = "NONE" /\ Rows[r].status # "NONE"
        BY <3>1, <3>4 DEF RowFits, Unresolved
      <4>4. RowFits(rows[r], clock, clock)
        BY <4>2 DEF RowFits
      <4> QED BY <3>4, <4>2, <4>3, <4>4 DEF Unresolved
    <3> QED BY <3>2, <3>3, <3>4 DEF Unresolved
  <2>3. rows \in [Rounds -> LegacyRow]
    <3>1. \A r \in Rounds : rows[r] \in LegacyRow
      BY <2>2 DEF RowFits
    <3> QED BY <3>1
  <2> HIDE DEF rows
  <2>4. g \in Ledgers /\ g.rows = rows /\ g.snapshot = clock /\ g.ended = ledger.ended
    BY <1>1, <2>3 DEF Ledgers
  <2> HIDE DEF g
  <2>5. ASSUME NEW p \in Rounds, NEW q \in Rounds, p < q PROVE Precedes(g.rows[p], g.rows[q])
    <3>1. Precedes(Rows[p], Rows[q])
      BY <2>5 DEF RowsFit, Rows
    <3> QED BY <2>2, <2>4, <3>1 DEF Precedes
  <2>6. RowsFit(g, clock)
    BY <2>2, <2>4, <2>5 DEF RowsFit
  <2>7. LiveRows(g.rows) = {} /\ g.snapshot # NoSnapshot
    BY <2>2, <2>4 DEF LiveRows, NoSnapshot
  <2> QED BY <2>1, <2>2, <2>4, <2>6, <2>7
<1> QED BY <1>3, <1>4

\* What every step leaves behind, and what it does to an interest that has been shut.
LegacyKept ==
  /\ RowsFit(ledger', clock')
  /\ LiveRows(ledger'.rows) # {} => CanMutate'
  /\ (\E r \in Rounds : ledger'.rows[r].status # "NONE") => wf'.state = "NONE"
  /\ EndedFits(ledger', application')
  /\ \A r \in ledger.ended : ledger'.rows[r].interest = Rows[r].interest

\* The last row may be written over, with its date or without one.
LEMMA LastWritten ==
  ASSUME clock \in Nat, RowsFit(ledger, clock), LatestRow # NoRound,
         NEW x, RowFits(x, ledger.snapshot, clock), x.start = 0 \/ x.start = Rows[LatestRow].start
  PROVE  LET g == [ledger EXCEPT !.rows[LatestRow] = x]
         IN  /\ RowsFit(g, clock) /\ g.snapshot = ledger.snapshot /\ g.ended = ledger.ended
             /\ g.rows[LatestRow] = x /\ \A q \in Rounds : q # LatestRow => g.rows[q] = Rows[q]
<1>1. LatestRow \in Rounds /\ Rows[LatestRow].status # "NONE"
  BY LatestIs
<1>2. ASSUME NEW q \in Rounds, q < LatestRow PROVE Precedes(ledger.rows[q], x)
  <2>1. Precedes(Rows[q], Rows[LatestRow])
    BY <1>1, <1>2 DEF RowsFit, Rows
  <2> QED BY <1>1, <2>1 DEF Precedes, Rows
<1>3. ASSUME NEW q \in Rounds, q > LatestRow PROVE Precedes(x, ledger.rows[q])
  <2>1. Rows[q].status = "NONE"
    BY <1>3, LatestIs
  <2>2. RowFits(Rows[q], ledger.snapshot, clock)
    BY DEF RowsFit, Rows
  <2>3. Rows[q].start = 0
    BY <2>1, <2>2 DEF RowFits, NoRow
  <2> QED BY <2>1, <2>3 DEF Precedes, Rows
<1> QED BY <1>1, <1>2, <1>3, WroteFits DEF Rows

\* A proposal comes after everything that was recorded.
LEMMA ProposalWritten ==
  ASSUME clock \in Nat, NEW l, RowsFit(l, clock), NEW r \in Rounds,
         NEW start \in Nat, start > clock,
         \A q \in Rounds : q < r => ~Unresolved(l.rows[q]),
         \A q \in Rounds : q >= r => l.rows[q].status = "NONE"
  PROVE  LET g == [l EXCEPT !.rows[r] = Proposal(start)]
         IN  /\ RowsFit(g, clock) /\ g.snapshot = l.snapshot /\ g.ended = l.ended
             /\ g.rows[r] = Proposal(start) /\ \A q \in Rounds : q # r => g.rows[q] = l.rows[q]
<1> DEFINE x == Proposal(start)
<1>1. /\ x \in LegacyRow /\ x.status = "PROPOSED" /\ x.start = start /\ x.outcomes = 0 /\ x.interest = "NONE"
  <2>1. x = [status |-> "PROPOSED", start |-> start, outcomes |-> 0, recorded |-> 0, interest |-> "NONE"]
    <3> DEFINE y == [NoRow EXCEPT !.status = "PROPOSED"]
    <3>1. y = [status |-> "PROPOSED", start |-> 0, outcomes |-> 0, recorded |-> 0, interest |-> "NONE"]
      BY DEF NoRow
    <3>2. x = [y EXCEPT !.start = start]
      BY DEF Proposal, NoRow
    <3> HIDE DEF y, x
    <3> QED BY <3>1, <3>2
  <2> HIDE DEF x
  <2>2. x.status = "PROPOSED" /\ x.start = start /\ x.outcomes = 0 /\ x.interest = "NONE"
    BY <2>1
  <2>3. x \in LegacyRow
    BY <2>1 DEF LegacyRow, LegacyStatus
  <2> QED BY <2>2, <2>3
<1> HIDE DEF x
<1>2. RowFits(x, l.snapshot, clock)
  BY <1>1 DEF RowFits
<1>3. ASSUME NEW q \in Rounds, q < r PROVE Precedes(l.rows[q], x)
  <2>1. RowFits(l.rows[q], l.snapshot, clock) /\ l \in Ledgers
    BY DEF RowsFit
  <2>2. l.rows[q].outcomes # 0 => l.rows[q].recorded < start
    BY <2>1 DEF RowFits, LegacyRow
  <2> QED BY <1>1, <1>3, <2>2 DEF Precedes
<1>4. ASSUME NEW q \in Rounds, q > r PROVE Precedes(x, l.rows[q])
  <2>1. l.rows[q].status = "NONE"
    BY <1>4 DEF Rounds
  <2>2. RowFits(l.rows[q], l.snapshot, clock)
    BY DEF RowsFit
  <2>3. l.rows[q].start = 0
    BY <2>1, <2>2 DEF RowFits, NoRow
  <2> QED BY <2>1, <2>3 DEF Precedes
<1>5. LET g == [l EXCEPT !.rows[r] = x]
      IN  /\ RowsFit(g, clock) /\ g.snapshot = l.snapshot /\ g.ended = l.ended
          /\ g.rows[r] = x /\ \A q \in Rounds : q # r => g.rows[q] = l.rows[q]
  BY <1>2, <1>3, <1>4, WroteFits
<1> QED BY <1>5 DEF x

\* A row that is written keeps the rest, if it leaves what has been shut alone.
LEMMA WrittenIsKept ==
  ASSUME LegacyInv, MayWrite, UNCHANGED vars, NEW r \in Rounds, NEW x,
         RowsFit(ledger', clock), ledger'.snapshot = ledger.snapshot, ledger'.ended = ledger.ended,
         ledger'.rows[r] = x, \A q \in Rounds : q # r => ledger'.rows[q] = Rows[q],
         r \in ledger.ended => /\ x.status \notin {"NONE", "PROPOSED", "ACCEPTED"}
                               /\ Shut(ledger, x) /\ x.interest = Rows[r].interest
  PROVE  LegacyKept
<1>1. UNCHANGED <<application, listing, clock, wf>>
  BY DEF vars
<1>2. RowsFit(ledger', clock') /\ CanMutate' /\ wf'.state = "NONE"
  BY <1>1 DEF MayWrite, CanMutate
<1>3. ASSUME NEW q \in ledger'.ended
      PROVE  /\ ledger'.rows[q].status \notin {"NONE", "PROPOSED", "ACCEPTED"}
             /\ ledger'.snapshot # NoSnapshot /\ Shut(ledger', ledger'.rows[q])
             /\ ledger'.rows[q].interest = Rows[q].interest
  <2>1. q \in ledger.ended /\ q \in Rounds
    BY DEF LegacyInv, RowsFit, Ledgers
  <2>2. application # "NOT_SELECTED"
    BY DEF MayWrite, CanMutate
  <2>3. /\ Rows[q].status \notin {"NONE", "PROPOSED", "ACCEPTED"} /\ ledger.snapshot # NoSnapshot
        /\ Shut(ledger, Rows[q])
    BY <2>1, <2>2 DEF LegacyInv, EndedFits, Rows
  <2>4. CASE q = r
    BY <2>1, <2>3, <2>4 DEF Shut
  <2>5. CASE q # r
    BY <2>1, <2>3, <2>5 DEF Shut
  <2> QED BY <2>4, <2>5
<1> QED BY <1>2, <1>3 DEF LegacyKept, EndedFits

LEMMA LatestRowIsKept ==
  ASSUME LegacyInv, MayWrite, LatestRow # NoRound, NEW x, SetRow(LatestRow, x),
         RowFits(x, ledger.snapshot, clock), x.start = 0 \/ x.start = Rows[LatestRow].start,
         LatestRow \in ledger.ended => /\ x.status \notin {"NONE", "PROPOSED", "ACCEPTED"}
                                       /\ Shut(ledger, x) /\ x.interest = Rows[LatestRow].interest
  PROVE  LegacyKept
<1>1. clock \in Nat /\ LatestRow \in Rounds
  BY LatestIs DEF LegacyInv, ShownInv, LedgerInv, IInv, TypeOK
<1>2. ledger' = [ledger EXCEPT !.rows[LatestRow] = x] /\ UNCHANGED vars
  BY DEF SetRow
<1>3. LET g == [ledger EXCEPT !.rows[LatestRow] = x]
      IN  /\ RowsFit(g, clock) /\ g.snapshot = ledger.snapshot /\ g.ended = ledger.ended
          /\ g.rows[LatestRow] = x /\ \A q \in Rounds : q # LatestRow => g.rows[q] = Rows[q]
  BY <1>1, LastWritten DEF LegacyInv
<1>4. PICK r \in Rounds : r = LatestRow
  BY <1>1
<1>5. /\ RowsFit(ledger', clock) /\ ledger'.snapshot = ledger.snapshot /\ ledger'.ended = ledger.ended
      /\ ledger'.rows[r] = x /\ \A q \in Rounds : q # r => ledger'.rows[q] = Rows[q]
  BY <1>2, <1>3, <1>4
<1>6. r \in ledger.ended => /\ x.status \notin {"NONE", "PROPOSED", "ACCEPTED"}
                            /\ Shut(ledger, x) /\ x.interest = Rows[r].interest
  BY <1>4
<1> QED BY <1>2, <1>5, <1>6, WrittenIsKept

\* Each operation on the rows.
LEMMA ProposeKeeps ==
  ASSUME LegacyInv, NEW start \in 1..MaxClock, Propose(start)
  PROVE  LegacyKept
<1> DEFINE r == LatestRow + 1
           x == Proposal(start)
<1>1. /\ MayWrite /\ start > clock /\ LatestRow < MaxRounds
      /\ LatestRow # NoRound => ~Unresolved(Rows[LatestRow])
      /\ ledger' = [ledger EXCEPT !.rows[r] = x] /\ UNCHANGED vars
  BY DEF Propose, MayPropose, SetRow
<1>2. clock \in Nat /\ start \in Nat /\ RowsFit(ledger, clock)
  BY DEF LegacyInv, ShownInv, LedgerInv, IInv, TypeOK
<1>3. LatestRow \in 0..MaxRounds /\ r \in Rounds /\ MaxRounds \in Nat
  BY <1>1, LatestIs DEF Rounds, BoundsAssumption
<1>4. ASSUME NEW q \in Rounds, q < r PROVE ~Unresolved(ledger.rows[q])
  <2>1. CASE q = LatestRow
    <3>1. LatestRow # NoRound
      BY <2>1 DEF Rounds, NoRound
    <3> QED BY <1>1, <2>1, <3>1 DEF Rows
  <2>2. CASE q # LatestRow
    <3>1. q < LatestRow /\ LatestRow \in Rounds /\ Rows[LatestRow].status # "NONE"
      BY <1>3, <1>4, <2>2, LatestIs DEF Rounds, NoRound
    <3>2. Precedes(Rows[q], Rows[LatestRow])
      BY <1>2, <3>1 DEF RowsFit, Rows
    <3> QED BY <3>1, <3>2 DEF Precedes, Rows
  <2> QED BY <2>1, <2>2
<1>5. ASSUME NEW q \in Rounds, q >= r PROVE ledger.rows[q].status = "NONE"
  BY <1>3, <1>5, LatestIs DEF Rows, Rounds
<1>6. LET g == [ledger EXCEPT !.rows[r] = x]
      IN  /\ RowsFit(g, clock) /\ g.snapshot = ledger.snapshot /\ g.ended = ledger.ended
          /\ g.rows[r] = x /\ \A q \in Rounds : q # r => g.rows[q] = ledger.rows[q]
  BY <1>1, <1>2, <1>3, <1>4, <1>5, ProposalWritten
<1>7. r \notin ledger.ended
  <2>1. ledger.rows[r].status = "NONE"
    BY <1>3, <1>5
  <2> QED BY <2>1 DEF LegacyInv, EndedFits
<1> HIDE DEF r, x
<1>8. /\ RowsFit(ledger', clock) /\ ledger'.snapshot = ledger.snapshot /\ ledger'.ended = ledger.ended
      /\ ledger'.rows[r] = x /\ \A q \in Rounds : q # r => ledger'.rows[q] = Rows[q]
  BY <1>1, <1>6 DEF Rows
<1> QED BY <1>1, <1>3, <1>7, <1>8, WrittenIsKept

\* A row that was never to take place.
LEMMA DroppedIs ==
  ASSUME NEW status \in {"SUPERSEDED", "CANCELLED", "DECLINED", "CHANGE_REQUESTED"}, NEW s, NEW t
  PROVE  /\ RowFits(Dropped(status), s, t)
         /\ Dropped(status).start = 0 /\ Dropped(status).status = status
         /\ Dropped(status).interest = "NONE" /\ ~Unresolved(Dropped(status))
<1> DEFINE x == Dropped(status)
<1>1. x = [status |-> status, start |-> 0, outcomes |-> 0, recorded |-> 0, interest |-> "NONE"]
  BY DEF Dropped, NoRow
<1> HIDE DEF x
<1>2. x \in LegacyRow
  BY <1>1 DEF LegacyRow, LegacyStatus
<1>3. x.status = status /\ x.start = 0 /\ x.outcomes = 0 /\ x.interest = "NONE"
  BY <1>1
<1>4. RowFits(x, s, t) /\ ~Unresolved(x)
  BY <1>2, <1>3 DEF RowFits, Unresolved
<1> QED BY <1>3, <1>4 DEF x

\* What has been shut is not unresolved.
LEMMA EndedIsResolved ==
  ASSUME LegacyInv, NEW r \in ledger.ended
  PROVE  ~Unresolved(Rows[r])
BY DEF LegacyInv, EndedFits, Unresolved, Rows

LEMMA RescheduleKeeps ==
  ASSUME LegacyInv, NEW start \in 1..MaxClock, RescheduleRow(start)
  PROVE  LegacyKept
<1> DEFINE p == LatestRow
           r == p + 1
           d == Dropped("SUPERSEDED")
           k == [ledger EXCEPT !.rows[p] = d]
           x == Proposal(start)
<1>1. /\ MayWrite /\ start > clock /\ p < MaxRounds /\ p # NoRound /\ Unresolved(Rows[p])
      /\ ledger' = [ledger EXCEPT !.rows[p] = d, !.rows[r] = x] /\ UNCHANGED vars
  BY DEF RescheduleRow, MayRescheduleRow
<1>2. clock \in Nat /\ start \in Nat /\ RowsFit(ledger, clock)
  BY DEF LegacyInv, ShownInv, LedgerInv, IInv, TypeOK
<1>3. p \in Rounds /\ r \in Rounds /\ r # p
  BY <1>1, LatestIs DEF Rounds, BoundsAssumption
<1>4. RowFits(d, ledger.snapshot, clock) /\ d.start = 0 /\ ~Unresolved(d)
  BY DroppedIs
<1>5. /\ RowsFit(k, clock) /\ k.snapshot = ledger.snapshot /\ k.ended = ledger.ended
      /\ k.rows[p] = d /\ \A q \in Rounds : q # p => k.rows[q] = Rows[q]
  <2> HIDE DEF d
  <2> QED BY <1>1, <1>2, <1>4, LastWritten
<1>6. ledger' = [k EXCEPT !.rows[r] = x]
  BY <1>1, <1>2, <1>3 DEF RowsFit, Ledgers
<1> HIDE DEF k, d
<1>7. ASSUME NEW q \in Rounds, q < r PROVE ~Unresolved(k.rows[q])
  <2>1. CASE q = p
    BY <1>4, <1>5, <2>1
  <2>2. CASE q # p
    <3>1. q < p /\ Rows[p].status # "NONE"
      BY <1>3, <1>7, <2>2, LatestIs DEF Rounds, NoRound
    <3>2. Precedes(Rows[q], Rows[p])
      BY <1>2, <1>3, <3>1 DEF RowsFit, Rows
    <3> QED BY <1>5, <2>2, <3>1, <3>2 DEF Precedes
  <2> QED BY <2>1, <2>2
<1>8. ASSUME NEW q \in Rounds, q >= r PROVE k.rows[q].status = "NONE"
  <2>1. q > p /\ q # p
    BY <1>3, <1>8 DEF Rounds
  <2> QED BY <1>5, <2>1, LatestIs
<1>9. LET g == [k EXCEPT !.rows[r] = x]
      IN  /\ RowsFit(g, clock) /\ g.snapshot = k.snapshot /\ g.ended = k.ended
          /\ g.rows[r] = x /\ \A q \in Rounds : q # r => g.rows[q] = k.rows[q]
  BY <1>1, <1>2, <1>3, <1>5, <1>7, <1>8, ProposalWritten
<1> HIDE DEF x
<1>10. /\ RowsFit(ledger', clock) /\ ledger'.snapshot = ledger.snapshot /\ ledger'.ended = ledger.ended
       /\ \A q \in Rounds : q # r /\ q # p => ledger'.rows[q] = Rows[q]
  BY <1>5, <1>6, <1>9
<1>11. r \notin ledger.ended /\ p \notin ledger.ended
  <2>1. Rows[r].status = "NONE"
    BY <1>3, LatestIs DEF Rounds
  <2> QED BY <1>1, <2>1, EndedIsResolved DEF LegacyInv, EndedFits, Rows
<1>12. UNCHANGED <<application, listing, clock, wf>> /\ application # "NOT_SELECTED"
  BY <1>1 DEF vars, MayWrite, CanMutate
<1>13. ASSUME NEW q \in ledger'.ended
       PROVE  /\ ledger'.rows[q].status \notin {"NONE", "PROPOSED", "ACCEPTED"}
              /\ ledger'.snapshot # NoSnapshot /\ Shut(ledger', ledger'.rows[q])
              /\ ledger'.rows[q].interest = Rows[q].interest
  <2>1. q \in ledger.ended /\ q \in Rounds
    BY <1>10 DEF LegacyInv, RowsFit, Ledgers
  <2>2. ledger'.rows[q] = Rows[q]
    BY <1>10, <1>11, <2>1
  <2> QED BY <1>10, <1>12, <2>1, <2>2 DEF LegacyInv, EndedFits, Rows, Shut
<1>14. CanMutate' /\ wf'.state = "NONE"
  BY <1>1, <1>12 DEF MayWrite, CanMutate
<1> QED BY <1>10, <1>12, <1>13, <1>14 DEF LegacyKept, EndedFits

LEMMA LatestRowFits ==
  ASSUME LegacyInv, LatestRow # NoRound
  PROVE  /\ Rows[LatestRow] \in LegacyRow /\ RowFits(Rows[LatestRow], ledger.snapshot, clock)
         /\ clock \in Nat
BY LatestIs DEF LegacyInv, RowsFit, RowFits, Rows, ShownInv, LedgerInv, IInv, TypeOK

LEMMA AnsweredRowKeeps ==
  ASSUME LegacyInv, \/ AcceptRow \/ CancelRow
                    \/ \E status \in {"DECLINED", "CHANGE_REQUESTED"} : TurnDown(status)
  PROVE  LegacyKept
<1>1. CASE AcceptRow
  <2> DEFINE x == [Rows[LatestRow] EXCEPT !.status = "ACCEPTED"]
  <2>1. /\ MayWrite /\ LatestRow # NoRound /\ Rows[LatestRow].status = "PROPOSED" /\ SetRow(LatestRow, x)
    BY <1>1 DEF AcceptRow, Flags
  <2>2. Rows[LatestRow] \in LegacyRow /\ RowFits(Rows[LatestRow], ledger.snapshot, clock)
    BY <2>1, LatestRowFits
  <2>3. /\ x \in LegacyRow /\ x.status = "ACCEPTED" /\ x.start = Rows[LatestRow].start
        /\ x.outcomes = Rows[LatestRow].outcomes /\ x.interest = Rows[LatestRow].interest
    BY <2>2 DEF LegacyRow, LegacyStatus
  <2> HIDE DEF x
  <2>4. RowFits(x, ledger.snapshot, clock)
    BY <2>1, <2>2, <2>3 DEF RowFits
  <2>5. LatestRow \notin ledger.ended
    BY <2>1, EndedIsResolved DEF Unresolved
  <2> QED BY <2>1, <2>3, <2>4, <2>5, LatestRowIsKept
<1>2. ASSUME NEW status \in {"CANCELLED", "DECLINED", "CHANGE_REQUESTED"}, CancelRow \/ TurnDown(status),
             CancelRow => status = "CANCELLED"
      PROVE  LegacyKept
  <2> DEFINE x == Dropped(status)
  <2>1. MayWrite /\ LatestRow # NoRound /\ Unresolved(Rows[LatestRow]) /\ SetRow(LatestRow, x)
    <3>1. CASE CancelRow
      BY <1>2, <3>1 DEF CancelRow, Flags
    <3>2. CASE TurnDown(status)
      BY <3>2 DEF TurnDown, Flags
    <3> QED BY <1>2, <3>1, <3>2
  <2>2. RowFits(x, ledger.snapshot, clock) /\ x.start = 0
    BY DroppedIs
  <2> HIDE DEF x
  <2>3. LatestRow \notin ledger.ended
    BY <2>1, EndedIsResolved
  <2> QED BY <2>1, <2>2, <2>3, LatestRowIsKept
<1> QED BY <1>1, <1>2

LEMMA RecordedRowKeeps ==
  ASSUME LegacyInv, CorrectRow \/ \E outcome \in {"COMPLETED", "NO_SHOW"} : RecordRow(outcome)
  PROVE  LegacyKept
<1>1. ASSUME NEW outcome \in {"COMPLETED", "NO_SHOW"}, RecordRow(outcome) PROVE LegacyKept
  <2> DEFINE y == Rows[LatestRow]
             k == [y EXCEPT !.status = outcome]
             m == [k EXCEPT !.outcomes = 1]
             x == [y EXCEPT !.status = outcome, !.outcomes = 1, !.recorded = clock]
  <2>1. /\ MayWrite /\ LatestRow # NoRound /\ SetRow(LatestRow, x)
        /\ y.status \in {"ACCEPTED", "OUTCOME_PENDING"} /\ clock >= y.start + Duration
    BY <1>1 DEF RecordRow, Flags, RowEnd
  <2>2. y \in LegacyRow /\ RowFits(y, ledger.snapshot, clock) /\ clock \in Nat
    BY <2>1, LatestRowFits
  <2> HIDE DEF y
  <2>3. /\ k \in LegacyRow /\ k.status = outcome /\ k.start = y.start /\ k.interest = y.interest
    BY <2>2 DEF LegacyRow, LegacyStatus
  <2> HIDE DEF k
  <2>4. m \in LegacyRow /\ m.status = outcome /\ m.start = y.start /\ m.outcomes = 1 /\ m.interest = y.interest
    BY <2>3 DEF LegacyRow
  <2>5. x = [m EXCEPT !.recorded = clock]
    BY <2>2 DEF LegacyRow, k
  <2> HIDE DEF m, x
  <2>6. /\ x \in LegacyRow /\ x.status = outcome /\ x.start = y.start /\ x.outcomes = 1
        /\ x.recorded = clock /\ x.interest = y.interest
    BY <2>2, <2>4, <2>5 DEF LegacyRow
  <2>7. y.start \in Nat /\ y.start # 0 /\ y.interest = "NONE" /\ y.outcomes = 0
    BY <2>1, <2>2 DEF RowFits, LegacyRow
  <2>8. y.start <= clock
    BY <2>1, <2>2, <2>7 DEF WindowsAssumption
  <2>9. RowFits(x, ledger.snapshot, clock)
    BY <2>2, <2>6, <2>7, <2>8 DEF RowFits
  <2>10. ASSUME LatestRow \in ledger.ended
         PROVE  /\ x.status \notin {"NONE", "PROPOSED", "ACCEPTED"}
                /\ Shut(ledger, x) /\ x.interest = y.interest
    <3>1. y.status = "OUTCOME_PENDING"
      BY <2>1, <2>10, EndedIsResolved DEF Unresolved, y
    <3>2. y.start <= ledger.snapshot
      BY <2>2, <3>1 DEF RowFits
    <3> QED BY <2>6, <3>2 DEF Shut
  <2>11. x.start = y.start
    BY <2>6
  <2> QED BY <2>1, <2>9, <2>10, <2>11, LatestRowIsKept DEF y
<1>2. CASE CorrectRow
  <2> DEFINE y == Rows[LatestRow]
             other == IF y.status = "COMPLETED" THEN "NO_SHOW" ELSE "COMPLETED"
             k == [y EXCEPT !.status = other]
             x == [y EXCEPT !.status = IF @ = "COMPLETED" THEN "NO_SHOW" ELSE "COMPLETED", !.outcomes = 2]
  <2>1. MayWrite /\ LatestRow # NoRound /\ SetRow(LatestRow, x) /\ y.outcomes = 1 /\ y.interest = "NONE"
    BY <1>2 DEF CorrectRow, Flags
  <2>2. y \in LegacyRow /\ RowFits(y, ledger.snapshot, clock) /\ clock \in Nat
    BY <2>1, LatestRowFits
  <2>3. other \in {"COMPLETED", "NO_SHOW"}
    OBVIOUS
  <2> HIDE DEF y
  <2>4. x = [k EXCEPT !.outcomes = 2]
    BY <2>2 DEF LegacyRow
  <2> HIDE DEF other
  <2>5. /\ k \in LegacyRow /\ k.status = other /\ k.start = y.start
        /\ k.recorded = y.recorded /\ k.interest = y.interest
    BY <2>2, <2>3 DEF LegacyRow, LegacyStatus
  <2> HIDE DEF k, x
  <2>6. /\ x \in LegacyRow /\ x.status = other /\ x.start = y.start /\ x.outcomes = 2
        /\ x.recorded = y.recorded /\ x.interest = y.interest
    BY <2>4, <2>5 DEF LegacyRow
  <2>7. RowFits(x, ledger.snapshot, clock)
    BY <2>1, <2>2, <2>3, <2>6 DEF RowFits
  <2>8. ASSUME LatestRow \in ledger.ended
        PROVE  /\ x.status \notin {"NONE", "PROPOSED", "ACCEPTED"}
               /\ Shut(ledger, x) /\ x.interest = y.interest
    <3>1. application # "NOT_SELECTED"
      BY <2>1 DEF MayWrite, CanMutate
    <3>2. Shut(ledger, y)
      BY <2>8, <3>1 DEF LegacyInv, EndedFits, Rows, y
    <3> QED BY <2>1, <2>3, <2>6, <3>2 DEF Shut
  <2>9. x.start = y.start
    BY <2>6
  <2> QED BY <2>1, <2>7, <2>8, <2>9, LatestRowIsKept DEF y
<1> QED BY <1>1, <1>2

\* An interest is written into a row that took place, whatever came since.
LEMMA InterestWritten ==
  ASSUME NEW t \in Nat, NEW l, RowsFit(l, t), NEW r \in Rounds, NEW reply \in Answers,
         l.rows[r].status = "COMPLETED"
  PROVE  LET x == [l.rows[r] EXCEPT !.interest = reply]
             g == [l EXCEPT !.rows[r] = x]
         IN  /\ RowsFit(g, t) /\ g.snapshot = l.snapshot /\ g.ended = l.ended
             /\ g.rows[r] = x /\ \A q \in Rounds : q # r => g.rows[q] = l.rows[q]
             /\ x.status = "COMPLETED"
<1> DEFINE y == l.rows[r]
           x == [y EXCEPT !.interest = reply]
<1>1. y \in LegacyRow /\ RowFits(y, l.snapshot, t) /\ y.status = "COMPLETED"
  BY DEF RowsFit, RowFits
<1> HIDE DEF y
<1>2. /\ x \in LegacyRow /\ x.status = y.status /\ x.start = y.start /\ x.outcomes = y.outcomes
      /\ x.recorded = y.recorded
  BY <1>1 DEF LegacyRow, Answers
<1> HIDE DEF x
<1>3. RowFits(x, l.snapshot, t)
  BY <1>1, <1>2 DEF RowFits
<1>4. \A q \in Rounds : q < r => Precedes(l.rows[q], x)
  <2>1. \A q \in Rounds : q < r => Precedes(l.rows[q], y)
    BY DEF RowsFit, y
  <2> QED BY <1>2, <2>1 DEF Precedes
<1>5. \A q \in Rounds : q > r => Precedes(x, l.rows[q])
  <2>1. \A q \in Rounds : q > r => Precedes(y, l.rows[q])
    BY DEF RowsFit, y, Rounds
  <2> QED BY <1>1, <1>2, <2>1 DEF Precedes, Unresolved
<1>6. LET g == [l EXCEPT !.rows[r] = x]
      IN  /\ RowsFit(g, t) /\ g.snapshot = l.snapshot /\ g.ended = l.ended
          /\ g.rows[r] = x /\ \A q \in Rounds : q # r => g.rows[q] = l.rows[q]
  BY <1>3, <1>4, <1>5, WroteFits
<1>7. x.status = "COMPLETED"
  BY <1>1, <1>2
<1> QED BY <1>6, <1>7 DEF x, y

\* What has been shut is not answered.
LEMMA ShutIsNotAnswered ==
  ASSUME LegacyInv, NEW r \in Rounds, MayAnswerRow(r)
  PROVE  r \notin ledger.ended
<1>1. application # "NOT_SELECTED" /\ ~ClosedByLifecycle(Rows[r])
  BY DEF MayAnswerRow, MayWrite, CanMutate
<1> QED BY <1>1 DEF LegacyInv, EndedFits, Shut, ClosedByLifecycle, Rows

LEMMA StillInterestedKeeps ==
  ASSUME LegacyInv, NEW r \in Rounds, StillInterested(r)
  PROVE  LegacyKept
<1> DEFINE x == [ledger.rows[r] EXCEPT !.interest = "STILL_INTERESTED"]
<1>1. /\ MayWrite /\ MayAnswerRow(r) /\ ledger.rows[r].status = "COMPLETED"
      /\ ledger' = [ledger EXCEPT !.rows[r] = x] /\ UNCHANGED vars
  BY DEF StillInterested, MayAnswerRow, SetRow, Rows
<1>2. clock \in Nat /\ RowsFit(ledger, clock) /\ "STILL_INTERESTED" \in Answers
  BY DEF LegacyInv, ShownInv, LedgerInv, IInv, TypeOK, Answers
<1>3. LET g == [ledger EXCEPT !.rows[r] = x]
      IN  /\ RowsFit(g, clock) /\ g.snapshot = ledger.snapshot /\ g.ended = ledger.ended
          /\ g.rows[r] = x /\ \A q \in Rounds : q # r => g.rows[q] = ledger.rows[q]
  BY <1>1, <1>2, InterestWritten
<1> HIDE DEF x
<1>4. /\ RowsFit(ledger', clock) /\ ledger'.snapshot = ledger.snapshot /\ ledger'.ended = ledger.ended
      /\ ledger'.rows[r] = x /\ \A q \in Rounds : q # r => ledger'.rows[q] = Rows[q]
  BY <1>1, <1>3 DEF Rows
<1>5. r \notin ledger.ended
  BY <1>1, ShutIsNotAnswered
<1> QED BY <1>1, <1>4, <1>5, WrittenIsKept

\* What is shut stays shut under a later end of the process.
LEMMA ShutStaysShut ==
  ASSUME LegacyInv, NEW g, g.ended = ledger.ended,
         g.snapshot = ledger.snapshot \/ g.snapshot = clock,
         \A r \in ledger.ended : g.rows[r] = Rows[r],
         NEW status, application = "NOT_SELECTED" => status = "NOT_SELECTED"
  PROVE  EndedFits(g, status)
<1>1. clock \in Nat /\ ledger \in Ledgers /\ ledger.snapshot <= clock
  BY DEF LegacyInv, RowsFit, ShownInv, LedgerInv, IInv, TypeOK
<1>2. ASSUME NEW r \in ledger.ended
      PROVE  /\ g.rows[r].status \notin {"NONE", "PROPOSED", "ACCEPTED"}
             /\ g.snapshot # NoSnapshot
             /\ status = "NOT_SELECTED" \/ Shut(g, g.rows[r])
  <2>1. /\ Rows[r].status \notin {"NONE", "PROPOSED", "ACCEPTED"} /\ ledger.snapshot # NoSnapshot
        /\ application = "NOT_SELECTED" \/ Shut(ledger, Rows[r])
    BY DEF LegacyInv, EndedFits, Rows
  <2>2. Rows[r] \in LegacyRow /\ ledger.snapshot \in Nat
    BY <1>1, <2>1 DEF Ledgers, Rows
  <2>3. g.snapshot \in Nat /\ ledger.snapshot <= g.snapshot /\ g.snapshot # NoSnapshot
    BY <1>1, <2>2 DEF NoSnapshot
  <2>4. Shut(ledger, Rows[r]) => Shut(g, Rows[r])
    BY <2>2, <2>3 DEF Shut, LegacyRow
  <2> QED BY <2>1, <2>3, <2>4
<1> QED BY <1>2 DEF EndedFits

\* A step that leaves the rows alone.
LEMMA UntouchedIsKept ==
  ASSUME LegacyInv, ledger' = ledger, clock' \in Nat, clock <= clock',
         HasRows => /\ wf'.state = "NONE" /\ (LiveRows(Rows) # {} => CanMutate')
                    /\ application = "NOT_SELECTED" => application' = "NOT_SELECTED"
  PROVE  LegacyKept
<1>1. clock \in Nat /\ RowsFit(ledger, clock)
  BY DEF LegacyInv, ShownInv, LedgerInv, IInv, TypeOK
<1>2. RowsFit(ledger', clock')
  BY <1>1, LaterFits
<1>3. CASE HasRows
  <2>1. EndedFits(ledger', application')
    BY <1>3, ShutStaysShut DEF Rows
  <2> QED BY <1>2, <1>3, <2>1 DEF LegacyKept, Rows
<1>4. CASE ~HasRows
  <2>1. LiveRows(Rows) = {} /\ \A r \in Rounds : Rows[r].status = "NONE"
    BY <1>4 DEF HasRows, LiveRows, Unresolved
  <2>2. ledger.ended = {}
    BY <1>1, <2>1 DEF LegacyInv, EndedFits, RowsFit, Ledgers, Rows
  <2>3. EndedFits(ledger', application')
    BY <2>2 DEF EndedFits
  <2> QED BY <1>2, <2>1, <2>2, <2>3 DEF LegacyKept, Rows
<1> QED BY <1>3, <1>4

\* An end of the process that is not a rejection.
LEMMA ClosedIsKept ==
  ASSUME LegacyInv, ledger' = CloseLedger, clock' = clock, HasRows => wf'.state = "NONE",
         application = "NOT_SELECTED" => application' = "NOT_SELECTED"
  PROVE  LegacyKept
<1>1. clock \in Nat /\ RowsFit(ledger, clock)
  BY DEF LegacyInv, ShownInv, LedgerInv, IInv, TypeOK
<1>2. /\ RowsFit(ledger', clock) /\ LiveRows(ledger'.rows) = {} /\ ledger'.ended = ledger.ended
      /\ ledger'.snapshot = ledger.snapshot \/ ledger'.snapshot = clock
      /\ \A r \in Rounds : /\ ~Unresolved(Rows[r]) => ledger'.rows[r] = Rows[r]
                           /\ ledger'.rows[r].status = "NONE" <=> Rows[r].status = "NONE"
                           /\ ledger'.rows[r].interest = Rows[r].interest
  BY <1>1, CloseLedgerFits
<1>3. ledger.ended \subseteq Rounds
  BY <1>1 DEF RowsFit, Ledgers
<1>4. \A r \in ledger.ended : ledger'.rows[r] = Rows[r]
  BY <1>2, <1>3, EndedIsResolved
<1>5. EndedFits(ledger', application')
  BY <1>2, <1>4, ShutStaysShut
<1>6. (\E r \in Rounds : ledger'.rows[r].status # "NONE") => wf'.state = "NONE"
  BY <1>2 DEF HasRows
<1> QED BY <1>1, <1>2, <1>3, <1>5, <1>6 DEF LegacyKept

LEMMA NotInterestedKeeps ==
  ASSUME LegacyInv, NEW r \in Rounds, NotInterested(r)
  PROVE  LegacyKept
<1> DEFINE k == CloseLedger
           x == [k.rows[r] EXCEPT !.interest = "NOT_INTERESTED"]
           g == [k EXCEPT !.rows[r] = x]
<1>1. /\ MayAnswerRow(r) /\ application' = "WITHDRAWN" /\ clock' = clock /\ wf' = wf /\ wf.state = "NONE"
      /\ ledger' = [k EXCEPT !.rows[r].interest = "NOT_INTERESTED"]
      /\ application # "NOT_SELECTED" /\ Rows[r].status = "COMPLETED"
  BY DEF NotInterested, MayAnswerRow, MayWrite, CanMutate
<1>2. clock \in Nat /\ RowsFit(ledger, clock) /\ "NOT_INTERESTED" \in Answers
  BY DEF LegacyInv, ShownInv, LedgerInv, IInv, TypeOK, Answers
<1>3. /\ RowsFit(k, clock) /\ LiveRows(k.rows) = {} /\ k.ended = ledger.ended
      /\ k.snapshot = ledger.snapshot \/ k.snapshot = clock
      /\ \A q \in Rounds : ~Unresolved(Rows[q]) => k.rows[q] = Rows[q]
  BY <1>2, CloseLedgerFits
<1> HIDE DEF k
<1>4. k.rows[r] = Rows[r] /\ k.rows[r].status = "COMPLETED"
  BY <1>1, <1>3 DEF Unresolved
<1>5. ledger' = g
  BY <1>1, <1>3 DEF RowsFit, Ledgers
<1>6. /\ RowsFit(g, clock) /\ g.snapshot = k.snapshot /\ g.ended = k.ended
      /\ g.rows[r] = x /\ \A q \in Rounds : q # r => g.rows[q] = k.rows[q]
      /\ x.status = "COMPLETED"
  BY <1>2, <1>3, <1>4, InterestWritten
<1> HIDE DEF g, x
<1>7. r \notin ledger.ended
  BY <1>1, ShutIsNotAnswered
<1>8. ledger.ended \subseteq Rounds
  BY <1>2 DEF RowsFit, Ledgers
<1>9. \A q \in ledger.ended : ledger'.rows[q] = Rows[q]
  BY <1>3, <1>5, <1>6, <1>7, <1>8, EndedIsResolved
<1>10. EndedFits(ledger', application')
  BY <1>1, <1>3, <1>5, <1>6, <1>9, ShutStaysShut
<1>11. LiveRows(ledger'.rows) = {}
  <2>1. \A q \in Rounds : ~Unresolved(k.rows[q])
    BY <1>3 DEF LiveRows
  <2>2. \A q \in Rounds : ~Unresolved(ledger'.rows[q])
    BY <1>5, <1>6, <2>1 DEF Unresolved
  <2> QED BY <2>2 DEF LiveRows
<1> QED BY <1>1, <1>5, <1>6, <1>9, <1>10, <1>11 DEF LegacyKept

\* The rejection remembers what was there, all of it resolved.
LEMMA RejectKeeps ==
  ASSUME LegacyInv, Reject, HasRows => wf'.state = "NONE",
         ledger' = [CloseLedger EXCEPT !.ended = RowsWith(LegacyStatus \ {"NONE"})]
  PROVE  LegacyKept
<1> DEFINE k == CloseLedger
           S == RowsWith(LegacyStatus \ {"NONE"})
<1>1. clock \in Nat /\ RowsFit(ledger, clock) /\ clock' = clock /\ application' = "NOT_SELECTED"
  BY DEF LegacyInv, ShownInv, LedgerInv, IInv, TypeOK, Reject
<1>2. /\ RowsFit(k, clock) /\ LiveRows(k.rows) = {}
      /\ HasRows => k.snapshot # NoSnapshot
      /\ \A r \in Rounds : /\ k.rows[r].status = "NONE" <=> Rows[r].status = "NONE"
                           /\ k.rows[r].interest = Rows[r].interest
  BY <1>1, CloseLedgerFits
<1>3. S \in SUBSET Rounds /\ \A r \in S : Rows[r].status # "NONE"
  BY DEF RowsWith
<1> HIDE DEF k, S
<1>4. ledger' = [k EXCEPT !.ended = S]
  BY DEF k, S
<1>5. /\ ledger' \in Ledgers /\ ledger'.rows = k.rows /\ ledger'.snapshot = k.snapshot /\ ledger'.ended = S
  BY <1>2, <1>3, <1>4 DEF RowsFit, Ledgers
<1>6. RowsFit(ledger', clock)
  BY <1>2, <1>5 DEF RowsFit
<1>7. ASSUME NEW r \in S
      PROVE  k.rows[r].status \notin {"NONE", "PROPOSED", "ACCEPTED"} /\ k.snapshot # NoSnapshot
  <2>1. r \in Rounds /\ Rows[r].status # "NONE"
    BY <1>3
  <2>2. ~Unresolved(k.rows[r])
    BY <1>2, <2>1 DEF LiveRows
  <2>3. HasRows
    BY <2>1 DEF HasRows
  <2> QED BY <1>2, <2>1, <2>2, <2>3 DEF Unresolved
<1>8. EndedFits(ledger', application')
  BY <1>1, <1>5, <1>7 DEF EndedFits
<1>9. (\E r \in Rounds : ledger'.rows[r].status # "NONE") => wf'.state = "NONE"
  BY <1>2, <1>5 DEF HasRows
<1>10. \A r \in ledger.ended : ledger'.rows[r].interest = Rows[r].interest
  BY <1>1, <1>2, <1>5 DEF RowsFit, Ledgers
<1> QED BY <1>1, <1>2, <1>5, <1>6, <1>8, <1>9, <1>10 DEF LegacyKept

\* The restoration brings its own time, after which nothing remembered is open.
LEMMA RestoreKeeps ==
  ASSUME LegacyInv, Restore, HasRows => wf'.state = "NONE", ledger' = RestoreLedger
  PROVE  LegacyKept
<1>1. /\ clock \in Nat /\ RowsFit(ledger, clock) /\ clock' = clock /\ application = "NOT_SELECTED"
  BY DEF LegacyInv, ShownInv, LedgerInv, IInv, TypeOK, Restore
<1>2. LiveRows(Rows) = {}
  BY <1>1 DEF LegacyInv, CanMutate
<1>3. CASE ledger.snapshot # NoSnapshot
  <2>1. ledger' = [ledger EXCEPT !.snapshot = clock]
    BY <1>2, <1>3 DEF RestoreLedger
  <2>2. ledger' \in Ledgers /\ ledger'.rows = Rows /\ ledger'.snapshot = clock /\ ledger'.ended = ledger.ended
    BY <1>1, <2>1 DEF RowsFit, Ledgers, Rows
  <2>3. ASSUME NEW r \in Rounds PROVE RowFits(Rows[r], clock, clock)
    <3>1. RowFits(Rows[r], ledger.snapshot, clock) /\ Rows[r] \in LegacyRow
      BY <1>1 DEF RowsFit, RowFits, Rows
    <3>2. ledger.snapshot \in Nat /\ ledger.snapshot <= clock
      BY <1>1, <1>3 DEF RowsFit, Ledgers
    <3>3. Rows[r].status = "OUTCOME_PENDING" => Rows[r].start <= clock
      BY <1>1, <3>1, <3>2 DEF RowFits, LegacyRow
    <3>4. clock # NoSnapshot
      BY <1>1 DEF NoSnapshot
    <3> QED BY <3>1, <3>3, <3>4 DEF RowFits
  <2>4. RowsFit(ledger', clock)
    BY <1>1, <2>2, <2>3 DEF RowsFit, Rows
  <2>5. ASSUME NEW r \in ledger.ended
        PROVE  /\ Rows[r].status \notin {"NONE", "PROPOSED", "ACCEPTED"}
               /\ clock # NoSnapshot /\ Shut(ledger', Rows[r])
    <3>1. r \in Rounds /\ Rows[r].status \notin {"NONE", "PROPOSED", "ACCEPTED"}
      BY <1>1 DEF RowsFit, Ledgers, LegacyInv, EndedFits, Rows
    <3>2. RowFits(Rows[r], clock, clock)
      BY <2>3, <3>1
    <3>3. Rows[r].outcomes = 0 \/ Rows[r].recorded <= ledger'.snapshot
      BY <2>2, <3>2 DEF RowFits
    <3> QED BY <1>1, <3>1, <3>3 DEF Shut, NoSnapshot
  <2>6. EndedFits(ledger', application')
    BY <2>2, <2>5 DEF EndedFits
  <2>7. (\E r \in Rounds : ledger'.rows[r].status # "NONE") => wf'.state = "NONE"
    BY <2>2 DEF HasRows
  <2> QED BY <1>1, <1>2, <2>2, <2>4, <2>6, <2>7 DEF LegacyKept
<1>4. CASE ledger.snapshot = NoSnapshot
  <2>1. ledger' = CloseLedger
    BY <1>4 DEF RestoreLedger
  <2>2. /\ RowsFit(ledger', clock) /\ LiveRows(ledger'.rows) = {} /\ ledger'.ended = ledger.ended
        /\ \A r \in Rounds : ledger'.rows[r].status = "NONE" <=> Rows[r].status = "NONE"
    BY <1>1, <2>1, CloseLedgerFits
  <2>3. ledger.ended = {}
    BY <1>4 DEF LegacyInv, EndedFits
  <2>4. EndedFits(ledger', application')
    BY <2>2, <2>3 DEF EndedFits
  <2>5. (\E r \in Rounds : ledger'.rows[r].status # "NONE") => wf'.state = "NONE"
    BY <2>2 DEF HasRows
  <2> QED BY <1>1, <2>2, <2>3, <2>4, <2>5 DEF LegacyKept
<1> QED BY <1>3, <1>4

\* The lifecycle leaves a workflow that has not begun as it is, and nothing expires in it.
LEMMA NoWorkflowStays ==
  ASSUME ShownInv, wf.state = "NONE",
         \/ LifecycleStep \/ ExpireOffer \/ (\E v \in Rounds : ExpireInterest(v)) \/ Tick
  PROVE  wf' = wf /\ ~ExpireOffer /\ \A v \in Rounds : ~ExpireInterest(v)
<1>1. Good(wf) /\ Fresh(wf)
  BY DEF ShownInv, LedgerInv, IInv
<1>2. Close(wf, FALSE) = wf /\ RestoredWorkflow(wf) = wf
  BY <1>1, ClosedState, RestoredState
<1>3. ~ExpireOffer
  BY DEF ExpireOffer, OfferOverdue
<1>4. ASSUME NEW v \in Rounds PROVE ~ExpireInterest(v)
  BY DEF ExpireInterest, InterestOverdue, PostViewingOpen
<1>5. Withdraw \/ Reject \/ Revalidate \/ MoveToDraft \/ Archive \/ Rent => wf' = wf
  BY <1>2 DEF Withdraw, Reject, Revalidate, MoveToDraft, Archive, Rent
<1>6. Restore => wf' = wf
  BY <1>2 DEF Restore
<1>7. (\/ SetListing("DRAFT", "PUBLISHED") \/ SetListing("PUBLISHED", "PAUSED")
       \/ SetListing("PAUSED", "PUBLISHED")) => wf' = wf
  BY DEF SetListing
<1>8. Promote => wf' = wf
  BY DEF Promote
<1>9. Tick => wf' = wf
  BY DEF Tick
<1>10. wf' = wf
  BY <1>3, <1>4, <1>5, <1>6, <1>7, <1>8, <1>9 DEF LifecycleStep
<1> QED BY <1>3, <1>4, <1>10

\* A step of the older way is none of the workflow's but for a withdrawal.
LEMMA LegacyStepIsAStep ==
  ASSUME LegacyInv, LegacyStep
  PROVE  UNCHANGED vars \/ Withdraw
<1>1. CASE \E start \in 1..MaxClock : Propose(start) \/ RescheduleRow(start)
  BY <1>1 DEF Propose, RescheduleRow, SetRow
<1>2. CASE AcceptRow \/ CancelRow \/ CorrectRow
  BY <1>2 DEF AcceptRow, CancelRow, CorrectRow, SetRow
<1>3. CASE \E status \in {"DECLINED", "CHANGE_REQUESTED"} : TurnDown(status)
  BY <1>3 DEF TurnDown, SetRow
<1>4. CASE \E outcome \in {"COMPLETED", "NO_SHOW"} : RecordRow(outcome)
  BY <1>4 DEF RecordRow, SetRow
<1>5. CASE \E r \in Rounds : StillInterested(r)
  BY <1>5 DEF StillInterested, SetRow
<1>6. ASSUME NEW r \in Rounds, NotInterested(r) PROVE Withdraw
  <2>1. /\ application = "ACTIVE" /\ application' = "WITHDRAWN" /\ wf.state = "NONE" /\ wf' = wf
        /\ UNCHANGED <<activeAt, listing, clock, place>>
    BY <1>6 DEF NotInterested, MayAnswerRow, MayWrite, CanMutate
  <2>2. Good(wf)
    BY DEF LegacyInv, ShownInv, LedgerInv, IInv
  <2>3. Close(wf, FALSE) = wf
    BY <2>1, <2>2, ClosedState
  <2> QED BY <2>1, <2>3 DEF Withdraw
<1> QED BY <1>1, <1>2, <1>3, <1>4, <1>5, <1>6 DEF LegacyStep

LEMMA BothIsAStep ==
  ASSUME LegacyInv, [NextBoth]_legacyVars
  PROVE  [Next]_vars
<1>1. CASE LegacyStep
  <2>1. UNCHANGED vars \/ Withdraw
    BY <1>1, LegacyStepIsAStep
  <2> QED BY <2>1 DEF Next, LifecycleStep
<1>2. CASE CalendarStep \/ DecisionStep
  BY <1>2 DEF Next
<1>3. CASE ExpireOffer \/ (\E v \in Rounds : ExpireInterest(v)) \/ Tick
  BY <1>3 DEF Next
<1>4. CASE \/ Promote \/ Withdraw \/ Revalidate \/ MoveToDraft \/ Archive \/ Rent \/ Reject \/ Restore
  BY <1>4 DEF Next, LifecycleStep
<1>5. CASE \/ SetListing("DRAFT", "PUBLISHED") \/ SetListing("PUBLISHED", "PAUSED")
           \/ SetListing("PAUSED", "PUBLISHED")
  BY <1>5 DEF Next, LifecycleStep
<1>6. CASE UNCHANGED legacyVars
  BY <1>6 DEF legacyVars
<1> QED BY <1>1, <1>2, <1>3, <1>4, <1>5, <1>6 DEF NextBoth

LEMMA LegacyStepKeeps ==
  ASSUME LegacyInv, LegacyStep
  PROVE  LegacyKept
<1>1. ASSUME NEW start \in 1..MaxClock, Propose(start) \/ RescheduleRow(start) PROVE LegacyKept
  BY <1>1, ProposeKeeps, RescheduleKeeps
<1>2. CASE AcceptRow \/ CancelRow \/ \E status \in {"DECLINED", "CHANGE_REQUESTED"} : TurnDown(status)
  BY <1>2, AnsweredRowKeeps
<1>3. CASE CorrectRow \/ \E outcome \in {"COMPLETED", "NO_SHOW"} : RecordRow(outcome)
  BY <1>3, RecordedRowKeeps
<1>4. ASSUME NEW r \in Rounds, StillInterested(r) \/ NotInterested(r) PROVE LegacyKept
  BY <1>4, StillInterestedKeeps, NotInterestedKeeps
<1> QED BY <1>1, <1>2, <1>3, <1>4 DEF LegacyStep

LEMMA BothKeep ==
  ASSUME LegacyInv, [NextBoth]_legacyVars
  PROVE  LegacyKept
<1>1. ShownInv /\ clock \in Nat
  BY DEF LegacyInv, ShownInv, LedgerInv, IInv, TypeOK
<1>2. HasRows => wf.state = "NONE"
  BY DEF LegacyInv
<1>3. CASE LegacyStep
  BY <1>3, LegacyStepKeeps
<1>4. CASE ~HasRows /\ (CalendarStep \/ DecisionStep) /\ UNCHANGED ledger
  <2>1. clock' = clock
    <3>1. [Next]_vars
      BY <1>4 DEF Next
    <3>2. CASE CalendarStep
      BY <3>2 DEF CalendarStep, Invite, ProposeAlternative, Counterpropose, WithdrawOffer,
                  CancelAppointment, CloseCalendar, Accept, Decline, Reschedule, Calendar
    <3>3. CASE DecisionStep
      BY <3>3 DEF DecisionStep, RecordOutcome, Answer, Consider, DoNotContinue
    <3> QED BY <1>4, <3>2, <3>3
  <2> QED BY <1>1, <1>4, <2>1, UntouchedIsKept
<1>5. CASE (ExpireOffer \/ (\E v \in Rounds : ExpireInterest(v))) /\ UNCHANGED ledger
  <2>1. ~HasRows
    BY <1>1, <1>2, <1>5, NoWorkflowStays
  <2>2. clock' = clock
    BY <1>5 DEF ExpireOffer, ExpireInterest
  <2> QED BY <1>1, <1>5, <2>1, <2>2, UntouchedIsKept
<1>6. CASE Tick /\ UNCHANGED ledger
  <2>1. clock' = clock + 1 /\ UNCHANGED <<application, listing, wf>>
    BY <1>6 DEF Tick
  <2>2. LiveRows(Rows) # {} => CanMutate'
    BY <2>1 DEF LegacyInv, CanMutate
  <2> QED BY <1>1, <1>2, <1>6, <2>1, <2>2, UntouchedIsKept
<1>7. CASE Promote /\ UNCHANGED ledger
  <2>1. clock' = clock /\ wf' = wf /\ application = "WAITING"
    BY <1>7 DEF Promote
  <2>2. LiveRows(Rows) = {}
    BY <2>1 DEF LegacyInv, CanMutate
  <2> QED BY <1>1, <1>2, <1>7, <2>1, <2>2, UntouchedIsKept
<1>8. ASSUME NEW from, NEW to, SetListing(from, to), UNCHANGED ledger,
             from \in {"PUBLISHED", "PAUSED"} => to \in {"PUBLISHED", "PAUSED"}
      PROVE  LegacyKept
  <2>1. clock' = clock /\ wf' = wf /\ application' = application /\ listing = from /\ listing' = to
    BY <1>8 DEF SetListing
  <2>2. LiveRows(Rows) # {} => CanMutate'
    BY <1>8, <2>1 DEF LegacyInv, CanMutate
  <2> QED BY <1>1, <1>2, <1>8, <2>1, <2>2, UntouchedIsKept
<1>9. CASE (Withdraw \/ Revalidate \/ MoveToDraft \/ Archive \/ Rent) /\ ledger' = CloseLedger
  <2>1. HasRows => wf'.state = "NONE"
    BY <1>1, <1>2, <1>9, NoWorkflowStays DEF LifecycleStep
  <2>2. clock' = clock
    BY <1>9 DEF Withdraw, Revalidate, MoveToDraft, Archive, Rent
  <2>3. application = "NOT_SELECTED" => application' = "NOT_SELECTED"
    BY <1>9 DEF Withdraw, Revalidate, MoveToDraft, Archive, Rent
  <2> QED BY <1>9, <2>1, <2>2, <2>3, ClosedIsKept
<1>10. CASE Reject /\ ledger' = [CloseLedger EXCEPT !.ended = RowsWith(LegacyStatus \ {"NONE"})]
  <2>1. HasRows => wf'.state = "NONE"
    BY <1>1, <1>2, <1>10, NoWorkflowStays DEF LifecycleStep
  <2> QED BY <1>10, <2>1, RejectKeeps
<1>11. CASE Restore /\ ledger' = RestoreLedger
  <2>1. HasRows => wf'.state = "NONE"
    BY <1>1, <1>2, <1>11, NoWorkflowStays DEF LifecycleStep
  <2> QED BY <1>11, <2>1, RestoreKeeps
<1>12. CASE UNCHANGED legacyVars
  <2>1. UNCHANGED <<application, listing, clock, wf, ledger>>
    BY <1>12 DEF legacyVars, vars
  <2>2. LiveRows(Rows) # {} => CanMutate'
    BY <2>1 DEF LegacyInv, CanMutate
  <2> QED BY <1>1, <1>2, <2>1, <2>2, UntouchedIsKept
<1>13. CASE (\/ SetListing("DRAFT", "PUBLISHED") \/ SetListing("PUBLISHED", "PAUSED")
            \/ SetListing("PAUSED", "PUBLISHED")) /\ UNCHANGED ledger
  BY <1>8, <1>13
<1> QED BY <1>3, <1>4, <1>5, <1>6, <1>7, <1>9, <1>10, <1>11, <1>12, <1>13 DEF NextBoth

LEMMA LegacyStays == LegacyInv /\ [NextBoth]_legacyVars => LegacyInv'
<1> SUFFICES ASSUME LegacyInv, [NextBoth]_legacyVars PROVE LegacyInv'
  OBVIOUS
<1>1. ShownInv'
  BY BothIsAStep, ShownStays DEF LegacyInv
<1>2. LegacyKept
  BY BothKeep
<1>3. RowsFit(ledger, clock)'
  BY <1>2 DEF LegacyKept, RowsFit
<1>4. (LiveRows(Rows) # {} => CanMutate)' /\ (HasRows => wf.state = "NONE")'
  BY <1>2 DEF LegacyKept, LiveRows, Rows, HasRows
<1>5. EndedFits(ledger, application)'
  BY <1>2 DEF LegacyKept, EndedFits, Shut
<1> QED BY <1>1, <1>3, <1>4, <1>5 DEF LegacyInv

LEMMA InitIsLegacy == InitBoth => LegacyInv
<1> SUFFICES ASSUME InitBoth PROVE LegacyInv
  OBVIOUS
<1>1. ShownInv /\ clock = 1 /\ clock \in Nat
  BY InitIsShown DEF InitBoth, Init
<1>2. ledger = [rows |-> [r \in Rounds |-> NoRow], snapshot |-> NoSnapshot, ended |-> {}]
  BY DEF InitBoth
<1>3. NoRow \in LegacyRow
  BY DEF NoRow, LegacyRow, LegacyStatus
<1>4. NoRow.status = "NONE" /\ NoRow.start = 0 /\ NoRow.outcomes = 0 /\ NoRow.interest = "NONE"
  BY DEF NoRow
<1>5. RowFits(NoRow, NoSnapshot, 1) /\ Precedes(NoRow, NoRow)
  BY <1>3, <1>4 DEF RowFits, Precedes, Unresolved
<1>6. [r \in Rounds |-> NoRow] \in [Rounds -> LegacyRow]
  BY <1>3
<1>7. /\ ledger \in Ledgers /\ ledger.snapshot = NoSnapshot /\ ledger.ended = {}
      /\ \A r \in Rounds : ledger.rows[r] = NoRow
  BY <1>2, <1>6 DEF Ledgers
<1>8. RowsFit(ledger, clock)
  BY <1>1, <1>5, <1>7 DEF RowsFit, NoSnapshot
<1>9. LiveRows(Rows) = {} /\ ~HasRows
  BY <1>4, <1>7 DEF LiveRows, Rows, HasRows, Unresolved
<1> QED BY <1>1, <1>7, <1>8, <1>9 DEF LegacyInv, EndedFits

\* The older rows hold together: at most the last is unresolved and only while the process
\* may change, a round was recorded before the next was proposed, a row and a workflow are
\* never both there, and what a rejection has shut stays shut.
THEOREM LegacyInvariance == SpecBoth => []LegacyInv
<1> QED BY InitIsLegacy, LegacyStays, PTL DEF SpecBoth

\* Beside the older rows the workflow takes no step of its own: a withdrawal for want of
\* interest in an older viewing is one of ViewingWorkflow's, and the rest leave it alone.
THEOREM LegacyImplementsWorkflow == SpecBoth => Spec
<1>1. InitBoth => Init
  BY DEF InitBoth
<1>2. LegacyInv /\ [NextBoth]_legacyVars => [Next]_vars
  BY BothIsAStep
<1> QED BY <1>1, <1>2, LegacyInvariance, PTL DEF SpecBoth, Spec

\* No answer is taken after a restoration for a viewing of before the rejection.
THEOREM EndedStaysClosed == SpecBoth => EndedInterestStaysClosed
<1>1. LegacyInv /\ [NextBoth]_legacyVars =>
        [\A r \in ledger.ended : ledger'.rows[r].interest = Rows[r].interest]_legacyVars
  BY BothKeep DEF LegacyKept
<1> QED BY <1>1, LegacyInvariance, PTL DEF SpecBoth, EndedInterestStaysClosed

-----------------------------------------------------------------------------
(***************************************************************************)
(* What the readers of the older rows are shown.                           *)
(***************************************************************************)
LEMMA TopRowIs ==
  ASSUME NEW S \in SUBSET Rounds, S # {}
  PROVE  TopRow(S) = {Last(S)} /\ Last(S) \in S /\ \A q \in S : q <= Last(S)
BY LastIsGreatest DEF TopRow, Last

\* Which row asks for what.
LEMMA NextRowActionIs ==
  ASSUME NEW r \in Rounds
  PROVE  /\ NextRowAction(r) \in {"NONE", "RESPOND", "CLOSE_UNANSWERED", "RESPOND_TO_CHANGE",
                                  "RECORD_OUTCOME", "CONFIRM_INTEREST"}
         /\ NextRowAction(r) = "RESPOND" <=>
              CanMutate /\ r = LatestRow /\ Rows[r].status = "PROPOSED" /\ clock < Rows[r].start
         /\ NextRowAction(r) = "CLOSE_UNANSWERED" <=>
              CanMutate /\ r = LatestRow /\ Rows[r].status = "PROPOSED" /\ ~ (clock < Rows[r].start)
         /\ NextRowAction(r) = "RESPOND_TO_CHANGE" <=>
              CanMutate /\ r = LatestRow /\ Rows[r].status = "CHANGE_REQUESTED"
         /\ NextRowAction(r) = "RECORD_OUTCOME" <=>
              /\ CanMutate /\ r = LatestRow /\ Rows[r].status \in {"ACCEPTED", "OUTCOME_PENDING"}
              /\ clock >= RowEnd(Rows[r])
         /\ NextRowAction(r) = "CONFIRM_INTEREST" <=>
              /\ CanMutate /\ Rows[r].status = "COMPLETED" /\ Rows[r].interest = "NONE"
              /\ ~ClosedByLifecycle(Rows[r])
BY DEF NextRowAction, ShowsActions

\* A live row is the last one.
LEMMA LegacyMatches == LegacyInv => LegacyCommitmentsMatch
<1> SUFFICES ASSUME LegacyInv, NEW r \in LiveRows(Rows)
             PROVE  r = LatestRow /\ CanMutate /\ wf.state = "NONE"
  BY DEF LegacyCommitmentsMatch
<1>1. r \in Rounds /\ Unresolved(Rows[r]) /\ Rows[r].status # "NONE"
  BY DEF LiveRows, Unresolved
<1>2. CanMutate /\ wf.state = "NONE"
  BY <1>1 DEF LegacyInv, HasRows
<1>3. LatestRow \in 0..MaxRounds /\ ~ (r > LatestRow)
  BY <1>1, LatestIs
<1>4. ASSUME r < LatestRow PROVE FALSE
  <2>1. LatestRow \in Rounds /\ Rows[LatestRow].status # "NONE"
    BY <1>1, <1>4, LatestIs DEF Rounds, NoRound
  <2>2. Precedes(Rows[r], Rows[LatestRow])
    BY <1>1, <1>4, <2>1 DEF LegacyInv, RowsFit, Rows
  <2> QED BY <1>1, <2>1, <2>2 DEF Precedes
<1> QED BY <1>1, <1>2, <1>3, <1>4 DEF Rounds

\* The rows that are read contain each that asks for something.
LEMMA AskersAreSelected ==
  ASSUME NEW r \in Rounds, NextRowAction(r) # "NONE"
  PROVE  r \in Selected
<1> DEFINE S == RowsWith(LegacyStatus \ {"NONE"})
<1>1. CASE Rows[r].status \in {"PROPOSED", "ACCEPTED", "OUTCOME_PENDING"}
  BY <1>1 DEF Selected, RowsWith
<1>2. CASE Rows[r].status = "COMPLETED" /\ Rows[r].interest = "NONE"
  BY <1>2 DEF Selected, RowsWith
<1>3. CASE r = LatestRow /\ Rows[r].status = "CHANGE_REQUESTED"
  <2>1. S \in SUBSET Rounds /\ r \in S
    BY <1>3 DEF RowsWith, LegacyStatus
  <2>2. \A q \in S : Rows[q].status # "NONE" /\ q \in Rounds
    BY DEF RowsWith
  <2>3. TopRow(S) \subseteq Selected
    BY DEF Selected
  <2> HIDE DEF S
  <2>4. TopRow(S) = {Last(S)} /\ Last(S) \in S /\ \A q \in S : q <= Last(S)
    BY <2>1, TopRowIs
  <2>5. ~ (Last(S) > LatestRow)
    BY <2>2, <2>4, LatestIs
  <2>6. Last(S) = r
    <3>1. PICK n \in Rounds : n = Last(S)
      BY <2>2, <2>4
    <3>2. r <= n /\ ~ (n > r)
      BY <1>3, <2>1, <2>4, <2>5, <3>1
    <3> QED BY <3>1, <3>2 DEF Rounds
  <2> QED BY <2>3, <2>4, <2>6
<1> QED BY <1>1, <1>2, <1>3, NextRowActionIs

\* The action the summary names, with the greatest round in place of the row.
LEMMA SummaryIs ==
  LET C == RowsWith({"PROPOSED", "ACCEPTED", "OUTCOME_PENDING"})
      D == {r \in RowsWith({"COMPLETED"}) : Rows[r].interest = "NONE"}
      current == IF C = {} THEN "NONE" ELSE NextRowAction(Last(C))
  IN  SummaryAction = IF current # "NONE" THEN current
                      ELSE IF HasRows /\ Rows[LatestRow].status = "CHANGE_REQUESTED"
                      THEN NextRowAction(LatestRow)
                      ELSE IF D = {} THEN "NONE" ELSE NextRowAction(Last(D))
<1> DEFINE C == RowsWith({"PROPOSED", "ACCEPTED", "OUTCOME_PENDING"})
           D == {r \in RowsWith({"COMPLETED"}) : Rows[r].interest = "NONE"}
           Of(S) == IF S = {} THEN "NONE" ELSE NextRowAction(CHOOSE r \in S : TRUE)
<1>1. SummaryAction = IF Of(TopRow(C)) # "NONE" THEN Of(TopRow(C))
                      ELSE IF HasRows /\ Rows[LatestRow].status = "CHANGE_REQUESTED"
                      THEN Of({LatestRow})
                      ELSE Of(TopRow(D))
  BY DEF SummaryAction
<1>2. C \in SUBSET Rounds /\ D \in SUBSET Rounds
  BY DEF RowsWith
<1>3. \A n : (CHOOSE r \in {n} : TRUE) = n
  OBVIOUS
<1>4. Of({LatestRow}) = NextRowAction(LatestRow)
  BY <1>3
<1>5. ASSUME NEW S \in SUBSET Rounds
      PROVE  Of(TopRow(S)) = IF S = {} THEN "NONE" ELSE NextRowAction(Last(S))
  <2>1. CASE S = {}
    BY <2>1 DEF TopRow
  <2>2. CASE S # {}
    BY <1>3, <2>2, TopRowIs
  <2> QED BY <2>1, <2>2
<1> HIDE DEF C, D, Of
<1>6. SummaryAction = IF (IF C = {} THEN "NONE" ELSE NextRowAction(Last(C))) # "NONE"
                      THEN IF C = {} THEN "NONE" ELSE NextRowAction(Last(C))
                      ELSE IF HasRows /\ Rows[LatestRow].status = "CHANGE_REQUESTED"
                      THEN NextRowAction(LatestRow)
                      ELSE IF D = {} THEN "NONE" ELSE NextRowAction(Last(D))
  BY <1>1, <1>2, <1>4, <1>5
<1> QED BY <1>6 DEF C, D

\* A viewing after one whose question is open is open itself: it was proposed after the
\* outcome of the other, so the end of the process came before both or after both.
LEMMA LaterIsOpen ==
  ASSUME LegacyInv, NEW q \in Rounds, NEW t \in Rounds, q <= t,
         Rows[q].status = "COMPLETED", Rows[t].status = "COMPLETED", ~ClosedByLifecycle(Rows[q])
  PROVE  ~ClosedByLifecycle(Rows[t])
<1>1. CASE ledger.snapshot = NoSnapshot
  BY <1>1 DEF ClosedByLifecycle
<1>2. CASE ledger.snapshot # NoSnapshot /\ q < t
  <2>1. /\ Rows[q] \in LegacyRow /\ Rows[t] \in LegacyRow /\ ledger.snapshot \in Nat
        /\ RowFits(Rows[q], ledger.snapshot, clock) /\ RowFits(Rows[t], ledger.snapshot, clock)
        /\ Precedes(Rows[q], Rows[t])
    BY <1>2 DEF LegacyInv, RowsFit, Ledgers, Rows
  <2>2. /\ Rows[q].outcomes # 0 /\ Rows[t].outcomes # 0 /\ Rows[t].start # 0
        /\ Rows[t].start <= Rows[t].recorded
    BY <2>1 DEF RowFits
  <2>3. ~ (Rows[q].recorded <= ledger.snapshot)
    BY <1>2 DEF ClosedByLifecycle
  <2>4. Rows[q].recorded < Rows[t].start
    BY <2>1, <2>2 DEF Precedes
  <2>5. ~ (Rows[t].start <= ledger.snapshot) /\ ~ (Rows[t].recorded <= ledger.snapshot)
    BY <2>1, <2>2, <2>3, <2>4 DEF LegacyRow
  <2> QED BY <2>2, <2>5 DEF ClosedByLifecycle
<1> QED BY <1>1, <1>2 DEF Rounds

\* The summary names an action when there is one to name.
LEMMA SummaryMissesNothing ==
  ASSUME LegacyInv
  PROVE  SummaryAction = "NONE" <=> \A r \in Selected : NextRowAction(r) = "NONE"
<1> DEFINE C == RowsWith({"PROPOSED", "ACCEPTED", "OUTCOME_PENDING"})
           D == {r \in RowsWith({"COMPLETED"}) : Rows[r].interest = "NONE"}
           current == IF C = {} THEN "NONE" ELSE NextRowAction(Last(C))
<1>1. SummaryAction = IF current # "NONE" THEN current
                      ELSE IF HasRows /\ Rows[LatestRow].status = "CHANGE_REQUESTED"
                      THEN NextRowAction(LatestRow)
                      ELSE IF D = {} THEN "NONE" ELSE NextRowAction(Last(D))
  BY SummaryIs
<1>2. C \in SUBSET Rounds /\ D \in SUBSET Rounds /\ C \subseteq Selected /\ D \subseteq Selected
  BY DEF RowsWith, Selected
<1>3. /\ \A r \in Rounds : r \in C <=> Rows[r].status \in {"PROPOSED", "ACCEPTED", "OUTCOME_PENDING"}
      /\ \A r \in Rounds : r \in D <=> Rows[r].status = "COMPLETED" /\ Rows[r].interest = "NONE"
  BY DEF RowsWith
<1>4. Selected \subseteq Rounds
  <2>1. \A S \in SUBSET Rounds : TopRow(S) \in SUBSET Rounds
    <3>1. ASSUME NEW S \in SUBSET Rounds PROVE TopRow(S) \in SUBSET Rounds
      <4>1. CASE S = {}
        BY <4>1 DEF TopRow
      <4>2. CASE S # {}
        BY <4>2, TopRowIs
      <4> QED BY <4>1, <4>2
    <3> QED BY <3>1
  <2>2. \A T : RowsWith(T) \in SUBSET Rounds
    BY DEF RowsWith
  <2> QED BY <1>2, <2>1, <2>2 DEF Selected
<1> HIDE DEF C, D
<1>5. /\ C # {} => Last(C) \in C /\ \A q \in C : q <= Last(C)
      /\ D # {} => Last(D) \in D /\ \A q \in D : q <= Last(D)
  BY <1>2, LastIsGreatest
<1>6. ASSUME \A r \in Selected : NextRowAction(r) = "NONE" PROVE SummaryAction = "NONE"
  <2>1. current = "NONE"
    BY <1>2, <1>5, <1>6
  <2>2. ASSUME HasRows, Rows[LatestRow].status = "CHANGE_REQUESTED"
        PROVE  NextRowAction(LatestRow) = "NONE"
    <3>1. LatestRow \in Rounds
      BY <2>2, LatestIs DEF HasRows, NoRound, Rounds
    <3> QED BY <1>6, <3>1, AskersAreSelected
  <2>3. D # {} => NextRowAction(Last(D)) = "NONE"
    BY <1>2, <1>5, <1>6
  <2> HIDE DEF current
  <2> QED BY <1>1, <2>1, <2>2, <2>3
<1>7. ASSUME NEW q \in Selected, NextRowAction(q) # "NONE" PROVE SummaryAction # "NONE"
  <2>1. q \in Rounds /\ CanMutate
    BY <1>4, <1>7, NextRowActionIs
  <2>2. CASE current # "NONE"
    BY <1>1, <2>2
  <2>3. CASE current = "NONE"
    <3>1. ASSUME q = LatestRow, q \in C PROVE FALSE
      <4>1. Last(C) \in Rounds /\ q <= Last(C) /\ Rows[Last(C)].status # "NONE"
        BY <1>2, <1>3, <1>5, <3>1
      <4>2. ~ (Last(C) > LatestRow)
        BY <4>1, LatestIs
      <4>3. Last(C) = q
        BY <2>1, <3>1, <4>1, <4>2 DEF Rounds
      <4> QED BY <1>7, <2>3, <3>1, <4>3
    <3>2. SummaryAction = IF HasRows /\ Rows[LatestRow].status = "CHANGE_REQUESTED"
                          THEN NextRowAction(LatestRow)
                          ELSE IF D = {} THEN "NONE" ELSE NextRowAction(Last(D))
      BY <1>1, <2>3
    <3> HIDE DEF current
    <3>3. CASE HasRows /\ Rows[LatestRow].status = "CHANGE_REQUESTED"
      <4>1. LatestRow \in Rounds
        BY <3>3, LatestIs DEF HasRows, NoRound, Rounds
      <4>2. NextRowAction(LatestRow) = "RESPOND_TO_CHANGE"
        BY <2>1, <3>3, <4>1, NextRowActionIs
      <4> QED BY <3>2, <3>3, <4>2
    <3>4. CASE ~ (HasRows /\ Rows[LatestRow].status = "CHANGE_REQUESTED")
      <4>1. Rows[q].status # "NONE" => HasRows
        BY <2>1 DEF HasRows
      <4>2. q \in D /\ ~ClosedByLifecycle(Rows[q])
        BY <1>3, <1>7, <2>1, <3>1, <3>4, <4>1, NextRowActionIs
      <4>3. Last(D) \in Rounds /\ Last(D) \in D /\ q <= Last(D)
        BY <1>2, <1>5, <4>2
      <4>4. Rows[q].status = "COMPLETED" /\ Rows[Last(D)].status = "COMPLETED" /\ Rows[Last(D)].interest = "NONE"
        BY <1>3, <2>1, <4>2, <4>3
      <4>5. ~ClosedByLifecycle(Rows[Last(D)])
        BY <2>1, <4>2, <4>3, <4>4, LaterIsOpen
      <4>6. NextRowAction(Last(D)) = "CONFIRM_INTEREST"
        BY <2>1, <4>3, <4>4, <4>5, NextRowActionIs
      <4> QED BY <3>2, <3>4, <4>2, <4>6
    <3> QED BY <3>3, <3>4
  <2> QED BY <2>2, <2>3
<1> QED BY <1>6, <1>7

LEMMA LegacyIsHonoured == LegacyInv => LegacyReadsAreHonoured
<1> SUFFICES ASSUME LegacyInv, wf.state = "NONE"
             PROVE  /\ \A r \in Rounds :
                         /\ <<r, "CONFIRM_INTEREST">> \in RowObligations <=> MayAnswerRow(r)
                         /\ <<r, "RECORD_OUTCOME">> \in RowObligations
                              <=> MayWrite /\ r = LatestRow /\ Flags(Rows[r]).canMarkCompleted
                         /\ <<r, "RESPOND">> \in RowObligations
                              <=> MayWrite /\ r = LatestRow /\ Flags(Rows[r]).canAccept
                         /\ <<r, "CLOSE_UNANSWERED">> \in RowObligations =>
                              MayWrite /\ r = LatestRow /\ Flags(Rows[r]).canCancel
                         /\ <<r, "RESPOND_TO_CHANGE">> \in RowObligations => MayPropose
                    /\ ListOffersProposal <=> MayPropose
                    /\ SummaryOffersProposal => MayPropose
                    /\ SummaryAction = "NONE" <=> RowObligations = {}
                    /\ MayRescheduleRow <=>
                         MayWrite /\ LatestRow # NoRound /\ Flags(Rows[LatestRow]).canReschedule
  BY DEF LegacyReadsAreHonoured
<1>1. MayWrite <=> CanMutate
  BY DEF MayWrite
<1>2. ASSUME NEW r \in Rounds, NEW action, action # "NONE"
      PROVE  <<r, action>> \in RowObligations <=> NextRowAction(r) = action
  BY <1>2, AskersAreSelected DEF RowObligations
<1>3. ASSUME NEW r \in Rounds
      PROVE  /\ <<r, "CONFIRM_INTEREST">> \in RowObligations <=> MayAnswerRow(r)
             /\ <<r, "RECORD_OUTCOME">> \in RowObligations
                  <=> MayWrite /\ r = LatestRow /\ Flags(Rows[r]).canMarkCompleted
             /\ <<r, "RESPOND">> \in RowObligations
                  <=> MayWrite /\ r = LatestRow /\ Flags(Rows[r]).canAccept
             /\ <<r, "CLOSE_UNANSWERED">> \in RowObligations =>
                  MayWrite /\ r = LatestRow /\ Flags(Rows[r]).canCancel
             /\ <<r, "RESPOND_TO_CHANGE">> \in RowObligations => MayPropose
  <2>1. <<r, "CONFIRM_INTEREST">> \in RowObligations <=> MayAnswerRow(r)
    BY <1>1, <1>2, NextRowActionIs DEF MayAnswerRow
  <2>2. Flags(Rows[r]).canMarkCompleted <=>
          Rows[r].status \in {"ACCEPTED", "OUTCOME_PENDING"} /\ clock >= RowEnd(Rows[r])
    BY DEF Flags
  <2>3. Flags(Rows[r]).canAccept <=> Rows[r].status = "PROPOSED" /\ clock < Rows[r].start
    BY DEF Flags
  <2>4. Flags(Rows[r]).canCancel <=> Unresolved(Rows[r])
    BY DEF Flags
  <2>5. <<r, "RECORD_OUTCOME">> \in RowObligations
          <=> MayWrite /\ r = LatestRow /\ Flags(Rows[r]).canMarkCompleted
    BY <1>1, <1>2, <2>2, NextRowActionIs
  <2>6. <<r, "RESPOND">> \in RowObligations <=> MayWrite /\ r = LatestRow /\ Flags(Rows[r]).canAccept
    BY <1>1, <1>2, <2>3, NextRowActionIs
  <2>7. <<r, "CLOSE_UNANSWERED">> \in RowObligations =>
          MayWrite /\ r = LatestRow /\ Flags(Rows[r]).canCancel
    BY <1>1, <1>2, <2>4, NextRowActionIs DEF Unresolved
  <2>8. <<r, "RESPOND_TO_CHANGE">> \in RowObligations => MayPropose
    BY <1>1, <1>2, NextRowActionIs DEF MayPropose, Unresolved
  <2> QED BY <2>1, <2>5, <2>6, <2>7, <2>8
<1>4. LatestRow # NoRound => LatestRow \in Rounds /\ Rows[LatestRow].status # "NONE"
  BY LatestIs
<1>5. ListOffersProposal <=> MayPropose
  <2>1. \A r \in LiveRows(Rows) : r = LatestRow
    BY LegacyMatches DEF LegacyCommitmentsMatch
  <2>2. ASSUME NEW r \in LiveRows(Rows) PROVE LatestRow # NoRound /\ Unresolved(Rows[LatestRow])
    BY <2>1, <2>2 DEF LiveRows, Rounds, NoRound
  <2>3. LatestRow # NoRound /\ Unresolved(Rows[LatestRow]) => LatestRow \in LiveRows(Rows)
    BY <1>4 DEF LiveRows
  <2>4. LiveRows(Rows) = {} <=> (LatestRow # NoRound => ~Unresolved(Rows[LatestRow]))
    BY <2>2, <2>3
  <2> QED BY <1>1, <2>4 DEF ListOffersProposal, MayPropose
<1>6. SummaryOffersProposal => MayPropose
  <2>1. LatestRow # NoRound /\ Unresolved(Rows[LatestRow]) =>
          LatestRow \in Selected \cap RowsWith({"PROPOSED", "ACCEPTED", "OUTCOME_PENDING"})
    BY <1>4 DEF Selected, RowsWith, Unresolved
  <2> QED BY <1>1, <2>1 DEF SummaryOffersProposal, MayPropose
<1>7. SummaryAction = "NONE" <=> RowObligations = {}
  BY SummaryMissesNothing DEF RowObligations
<1>8. MayRescheduleRow <=> MayWrite /\ LatestRow # NoRound /\ Flags(Rows[LatestRow]).canReschedule
  <2>1. Flags(Rows[LatestRow]).canReschedule <=>
          Unresolved(Rows[LatestRow]) /\ clock < Rows[LatestRow].start
    BY DEF Flags
  <2> QED BY <2>1 DEF MayRescheduleRow
<1> QED BY <1>3, <1>5, <1>6, <1>7, <1>8

\* The older rows are sound and their readers honest: for any number of rounds, what a row
\* asks for is accepted, and what somebody has to do is asked for.
THEOREM LegacyRowsSound == SpecBoth => []LegacyRowsAreSound
<1>1. LegacyInv => LegacyRowsAreSound
  BY LegacyMatches, LegacyIsHonoured DEF LegacyRowsAreSound
<1> QED BY <1>1, LegacyInvariance, PTL

=============================================================================

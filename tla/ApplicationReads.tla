-------------------------- MODULE ApplicationReads --------------------------
(***************************************************************************)
(* What the two sides are shown of the applications: the capabilities and  *)
(* the admission of a workspace, the provider's active cards and recent    *)
(* exits, the applicant's overview and the older list endpoints.           *)
(*                                                                         *)
(* Every reader takes one RepeatableRead snapshot and one clock value, so  *)
(* each is a function of the state.  Recent exits read the history of      *)
(* transitions, application_activities and listing_events, which every     *)
(* operation of Applications appends to; `transitions' is that history.    *)
(***************************************************************************)
EXTENDS Applications

VARIABLES
  transitions,   \* the lifecycle activities and curation events of the attempts, those
                 \* kept that a reader can tell apart
  participants   \* the pairs that ever had an ACTIVE application

readVars == <<vars, transitions, participants>>

-----------------------------------------------------------------------------
(***************************************************************************)
(* The history.  Each change of status appends one activity, dated with    *)
(* the clock, or with the date of the attempt when it is its submission.   *)
(***************************************************************************)
Pairs == {Pair(a) : a \in Attempts}

Changed == {a \in Attempts : row'[a].status # row[a].status}

Transition(a) ==
  [attempt |-> a, from |-> row[a].status, status |-> row'[a].status, reason |-> row'[a].publicReason,
   at |-> IF row[a].status = "NONE" THEN row'[a].createdAt ELSE clock]

\* Mutated form of Appended: a withdrawal appends nothing.
AppendedUnlessWithdrawn == {Transition(a) : a \in {b \in Changed : row'[b].status # "WITHDRAWN"}}

Appended == {Transition(a) : a \in Changed}

\* Of every attempt the readers use the latest transitions, of every pair the
\* first that entered ACTIVE.
Telling(history) ==
  {t \in history : \/ \A u \in history : u.attempt = t.attempt => u.at <= t.at
                   \/ /\ t.status = "ACTIVE"
                      /\ \A u \in history :
                           Pair(u.attempt) = Pair(t.attempt) /\ u.status = "ACTIVE" => t.at <= u.at}

\* A row from before the history took part as ACTIVE and has no transitions.
ReadInit ==
  /\ Init
  /\ transitions = {}
  /\ participants = {Pair(a) : a \in {b \in Attempts : row[b].activeAt}}

ReadNext ==
  /\ Next
  /\ transitions' = Telling(transitions \cup Appended)
  /\ participants' = participants \cup {Pair(a) : a \in {b \in Attempts : row'[b].status = "ACTIVE"}}

ReadSpec == ReadInit /\ [][ReadNext]_readVars

-----------------------------------------------------------------------------
(***************************************************************************)
(* ProviderRecentExitsQueryService.select().                               *)
(***************************************************************************)
TransitionsOf(a) == {t \in transitions : t.attempt = a}

AttemptsOf(pair) == {a \in Attempts : Pair(a) = pair /\ row[a].status # "NONE"}

\* DISTINCT ON (listing_id, applicant_id) ... ORDER BY created_at DESC
Latest(pair) == CHOOSE a \in AttemptsOf(pair) : \A b \in AttemptsOf(pair) : row[b].createdAt <= row[a].createdAt

\* The transitions that may come last: the id that breaks a tie is arbitrary.
LastTransitions(a) == {t \in TransitionsOf(a) : \A u \in TransitionsOf(a) : u.at <= t.at}

\* Does transition t account for the state of its row?
Consistent(t) ==
  /\ t.status = row[t.attempt].status
  /\ t.status = "REJECTED" => t.reason = row[t.attempt].publicReason

\* A row without transitions falls back to its own date.
ExitedAt(a) == IF TransitionsOf(a) = {} THEN row[a].rejectedAt
               ELSE (CHOOSE t \in LastTransitions(a) : TRUE).at

\* active_entries: a row still ACTIVE or that kept its activeAt, or a transition.
TookPart(pair, exit) ==
  \/ \E a \in AttemptsOf(pair) : row[a].activeAt
  \/ \E t \in transitions : Pair(t.attempt) = pair /\ t.status = "ACTIVE" /\ t.at <= exit

\* The exit of a pair is its newest attempt, when that is over, nothing
\* contradicts it and the applicant had been ACTIVE before.
ExitOf(pair, a) ==
  /\ AttemptsOf(pair) # {}
  /\ a = Latest(pair)
  /\ row[a].status \in {"REJECTED", "WITHDRAWN"}
  /\ \A b \in AttemptsOf(pair) : ~Live(row[b])
  /\ \A t \in LastTransitions(a) : Consistent(t)
  /\ row[a].status = "REJECTED" => row[a].publicReason # "NONE"
  /\ ExitedAt(a) # NoDate
  /\ TookPart(pair, ExitedAt(a))

\* The applications counted as exited; the cards are the five latest of them.
RecentExits == {a \in Attempts : ExitOf(Pair(a), a)}

(***************************************************************************)
(* ApplicationLifecycleReadService: what the readers say may be done.      *)
(***************************************************************************)
RestoreAllowed(a, hasNewerAttempt, eligible) ==
  /\ row[a].status = "REJECTED" /\ row[a].publicReason = "NOT_SELECTED"
  /\ listingStatus[ListingOf[a]] = "PUBLISHED"
  /\ CurationCooldownOver(a)
  /\ ~hasNewerAttempt
  /\ eligible

\* Mutated form of Capabilities: the event that starts the pause is not read.
CapabilitiesWithoutPause(a) ==
  [canWithdraw |-> CanWithdraw(row[a]),
   canReject |-> row[a].status = "ACTIVE",
   canRestore |-> RestoreAllowed(a, HasNewerAttempt(a), Eligible(profile, criteria, a)),
   canSelectForRental |-> /\ row[a].status = "ACTIVE"
                          /\ listingStatus[ListingOf[a]] \in {"PUBLISHED", "PAUSED"}]

\* capabilities(): canWithdraw for the applicant, the others for the provider.
Capabilities(a) ==
  [canWithdraw |-> CanWithdraw(row[a]),
   canReject |-> row[a].status = "ACTIVE" /\ CurationCooldownOver(a),
   canRestore |-> RestoreAllowed(a, HasNewerAttempt(a), Eligible(profile, criteria, a)),
   canSelectForRental |-> /\ row[a].status = "ACTIVE"
                          /\ listingStatus[ListingOf[a]] \in {"PUBLISHED", "PAUSED"}]

\* cards(): an exit is the newest attempt of its pair already.
CardCanRestore(a) == RestoreAllowed(a, FALSE, Eligible(profile, criteria, a))

(***************************************************************************)
(* The lists of the provider and of the applicant.                         *)
(***************************************************************************)
\* listing(): the ACTIVE applications, as many as the limit admits.
ActiveCards(l) == WithStatus(row, l, "ACTIVE")

\* findAllByListing() and the workspaces, under providerApplicationVisibility.
VisibleToProvider(l) == {a \in Attempts : ListingOf[a] = l /\ ProviderVisible(row[a])}

\* Mutated form of Representative: the oldest of the attempts that are over.
RepresentativeOldestFirst(pair) ==
  LET live == {a \in AttemptsOf(pair) : Live(row[a])}
      candidates == IF live # {} THEN live ELSE AttemptsOf(pair)
  IN  CHOOSE a \in candidates : \A b \in candidates : row[b].createdAt >= row[a].createdAt

\* applicantRepresentativesCte(): the live attempt of a pair, or else the newest.
Representative(pair) ==
  LET live == {a \in AttemptsOf(pair) : Live(row[a])}
      candidates == IF live # {} THEN live ELSE AttemptsOf(pair)
  IN  CHOOSE a \in candidates : \A b \in candidates : row[b].createdAt <= row[a].createdAt

\* findBlockingApplicationsForListings(): the newest that was not withdrawn, if any.
BlockingApplication(pair) ==
  LET blocking == {a \in AttemptsOf(pair) : row[a].status \in LiveStatus \cup {"REJECTED", "ACCEPTED"}}
  IN  {a \in blocking : \A b \in blocking : row[b].createdAt <= row[a].createdAt}

\* The admission shown with a listing: the policy of apply() on the same facts.
ShownAdmission(pair, l, eligible) ==
  CanSubmit({row[a] : a \in AttemptsOf(pair)}, listingStatus[l], eligible, clock)

-----------------------------------------------------------------------------
(***************************************************************************)
(* Properties.                                                             *)
(***************************************************************************)
\* What the history cannot tell: which of two transitions of one instant came last,
\* whether an attempt dated ahead of the clock was left, and when or how a row from
\* before the history took part and left.
DatedAhead(a) ==
  /\ \E t \in LastTransitions(a) : t.from = "NONE"
  /\ \E b \in AttemptsOf(Pair(a)) : row[a].createdAt = row[b].createdAt + 1

Unreliable(a) ==
  \/ Cardinality(LastTransitions(a)) > 1
  \/ DatedAhead(a)
  \/ TransitionsOf(a) = {} /\ (row[a].rejectedAt = NoDate \/ row[a].publicReason = "NONE")
  \/ \E b \in AttemptsOf(Pair(a)) : b \in Legacy /\ row[b].event = "RESTORED" /\ ~row[b].activeAt

\* Nobody who took part falls between the provider's lists: an applicant who was
\* ever ACTIVE at a listing is an active card, waits again, was accepted or is
\* a recent exit, and only one of these, unless the history is contradictory.
ParticipantsAreAccountedFor ==
  \A pair \in participants :
    LET a == Latest(pair)
        cards == {x \in ActiveCards(pair[2]) : Pair(x) = pair}
        exits == {x \in RecentExits : Pair(x) = pair}
    IN  IF row[a].status \in {"REJECTED", "WITHDRAWN"}
        THEN cards = {} /\ exits \subseteq {a} /\ (~Unreliable(a) => exits = {a})
        ELSE exits = {} /\ cards = {x \in {a} : row[x].status = "ACTIVE"}

\* No list, card or workspace identifies to a provider an applicant who only ever
\* waited, or one who is waiting now, whatever the attempts before were.
OnlyParticipantsAreIdentified ==
  /\ \A l \in Listings : \A a \in VisibleToProvider(l) :
       Pair(a) \in participants /\ row[a].status # "WAITING"
  /\ \A a \in RecentExits :
       /\ Pair(a) \in participants
       /\ \A b \in AttemptsOf(Pair(a)) : row[b].status # "WAITING"

\* The provider's lists together show everybody who took part, once, and nobody else.
ParticipantsAreShown == ParticipantsAreAccountedFor /\ OnlyParticipantsAreIdentified

\* What a reader offers is what the operation would do in the same state, for
\* workspaces and for the cards of recent exits; nothing refused is offered and
\* nothing possible is withheld.
OfferedIsAccepted ==
  \A a \in Attempts :
    row[a].status # "NONE" =>
      /\ Capabilities(a).canWithdraw = MayWithdraw(a)
      /\ Capabilities(a).canReject = MayReject(a)
      /\ Capabilities(a).canRestore = MayRestore(a)
      /\ Capabilities(a).canSelectForRental = MayRent(a)
      /\ a \in RecentExits => CardCanRestore(a) = MayRestore(a)

\* The readers of an applicant agree on where a pair stands: the overview shows the
\* newest attempt, an admission is open only when that attempt is over, and the
\* historical indicator differs from it only when it was withdrawn.
ReadersAgree ==
  \A pair \in {p \in Pairs : AttemptsOf(p) # {}} :
    LET shown == Representative(pair)
    IN  /\ shown = Latest(pair)
        /\ BlockingApplication(pair) # {shown} => row[shown].status = "WITHDRAWN"
        /\ ShownAdmission(pair, pair[2], TRUE) => row[shown].status \in {"REJECTED", "WITHDRAWN"}
=============================================================================

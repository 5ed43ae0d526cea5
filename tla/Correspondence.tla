--------------------------- MODULE Correspondence ---------------------------
(***************************************************************************)
(* What the two sides of one application tell each other and are told: the *)
(* conversation (src/application-conversation), the notifications behind   *)
(* the bell (src/notifications), and the hints that make an open client    *)
(* fetch either again (the producers of src/outbox, the routers of         *)
(* src/realtime).                                                          *)
(*                                                                         *)
(* The transactions that write activity are serializable and hold the      *)
(* listing and the application: each is one step, but for its start, which *)
(* its rows carry as createdAt.  Reads are one repeatable-read transaction *)
(* each.  The read of one notification is three statements under read      *)
(* committed, and so three steps.                                          *)
(*                                                                         *)
(* Left out: accounts that are suspended or change their role (nothing in  *)
(* src/ does that), the text of messages, the payloads of hints, the pages *)
(* of the bell, a client that is offline (it fetches all when it is back). *)
(***************************************************************************)
EXTENDS Integers, Sequences, FiniteSetsExt

CONSTANTS
  MaxTransactions,  \* transactions that write activity or messages
  MaxMessages,
  MaxNotifications, \* activities that are in a bell
  MaxTime,
  Retention,        \* how long a notification is kept, in steps of the clock
  PageLimit,        \* messages of one page
  Never             \* no time

ASSUME CorrespondenceAssumption ==
  /\ {MaxTransactions, MaxMessages, MaxNotifications, MaxTime, Retention, PageLimit} \subseteq Nat
  /\ Never \notin Nat

VARIABLES
  application,   \* status, active (activeAt is set), reason (publicReason), listing (its status)
  conversation,  \* opened, replies (applicantRepliesEnabled), messages
  notifications, \* rows of the table
  now,
  began,         \* when the writing transaction in progress began, or Never
  outbox,        \* types of the events not yet delivered; two of a type hint at the same
  reading,       \* POST /me/notifications/:id/read in progress, by side
  client,        \* of each side: what its client has fetched, and whether that has changed since
  made           \* transactions and notifications so far

vars == <<application, conversation, notifications, now, began, outbox, reading, client, made>>

Sides == {"APPLICANT", "PROVIDER"}
Other(s) == IF s = "APPLICANT" THEN "PROVIDER" ELSE "APPLICANT"
Views == {"bell", "conversation"}
NotificationsChanged == [APPLICANT |-> "notifications:APPLICANT", PROVIDER |-> "notifications:PROVIDER"]

-----------------------------------------------------------------------------
(***************************************************************************)
(* Who sees what.                                                          *)
(***************************************************************************)
\* applicationProcessAllowsMutation()
AllowsMutation == application.status = "ACTIVE" /\ application.listing \in {"PUBLISHED", "PAUSED"}

\* providerApplicationIsVisible(); authorize() finds the application for this side.
ProviderSees == application.status # "WAITING" /\ (application.status = "ACTIVE" \/ application.active)

Authorized(s) == s = "PROVIDER" => ProviderSees

\* conversationCapabilities()
CanSend(s) == AllowsMutation /\ (s = "APPLICANT" => conversation.replies)
CanManageReplies == AllowsMutation

\* visibleNotifications(): of side s, with the clock the caller has read.
Visible(s, time) == {n \in notifications : n.to = s /\ n.createdAt + Retention > time /\ Authorized(s)}

Unread(messages, s) == {i \in DOMAIN messages : messages[i].from = Other(s) /\ ~messages[i].read}

\* toSummary(), or not found.
Summary(s) ==
  IF ~Authorized(s) THEN [found |-> FALSE]
  ELSE [found |-> TRUE, opened |-> conversation.opened, replies |-> conversation.replies,
        canSend |-> CanSend(s), canManage |-> CanManageReplies,
        unread |-> Cardinality(Unread(conversation.messages, s)), last |-> Len(conversation.messages)]

\* nextRevalidateAt: when the first of the visible notifications expires.
NextRevalidate(s) ==
  LET seen == Visible(s, now) IN IF seen = {} THEN Never ELSE Min({n.createdAt : n \in seen}) + Retention

Bell(s) == {<<n.id, n.read>> : n \in Visible(s, now)}

Shows(s, v) == IF v = "bell" THEN Bell(s) ELSE Summary(s)

-----------------------------------------------------------------------------
(***************************************************************************)
(* The producers, which write in the transaction of what they announce.    *)
(***************************************************************************)
\* The events of the activities: applicationInvalidationType().  The activities of a
\* conversation have none; its services announce themselves.
Lifecycle == "lifecycle"
Viewing   == "viewing"

\* NotificationProducer.activity(): the sides it tells, with the application as it is after
\* the step.  An excluded activity (notifiableActivity() is false) has the visibility INTERNAL here.
Recipients(activity) ==
  {s \in Sides : activity.visibility \in {"BOTH", s} /\ activity.actor # s /\ Authorized(s)'}

\* A consideration is told once for each appointment and recipient, an activity once for each recipient.
AlreadyTold(activity, s) ==
  activity.appointment # 0 /\ \E n \in notifications : n.to = s /\ n.appointment = activity.appointment

\* appendWithinTransaction()
Tell(activity) ==
  LET told == {s \in Recipients(activity) : ~AlreadyTold(activity, s)}
  IN  /\ told # {} => made.notifications < MaxNotifications
      /\ notifications' = notifications \cup
           {[id |-> made.notifications + 1, to |-> s, appointment |-> activity.appointment,
             createdAt |-> began, read |-> FALSE, listed |-> FALSE] : s \in told}
      /\ made' = [transactions |-> made.transactions + 1,
                  notifications |-> made.notifications + (IF told = {} THEN 0 ELSE 1)]

By(actor, visibility) == [actor |-> actor, visibility |-> visibility, appointment |-> 0]

Silent == UNCHANGED notifications /\ made' = [made EXCEPT !.transactions = @ + 1]

\* What a client has fetched grows stale when the answer would be another one.
GrowStale ==
  client' = [s \in Sides |->
              [client[s] EXCEPT !.stale = @ \cup {v \in Views : Shows(s, v)' # Shows(s, v)}]]

\* The transaction in progress commits, with these events in the outbox.
Commits(events) ==
  /\ began # Never /\ began' = Never
  /\ outbox' = outbox \cup events
  /\ UNCHANGED <<now, reading>>
  /\ GrowStale

Begin ==
  /\ began = Never /\ made.transactions < MaxTransactions
  /\ began' = now
  /\ UNCHANGED <<application, conversation, notifications, now, outbox, reading, client, made>>

-----------------------------------------------------------------------------
(***************************************************************************)
(* The life of the application, as far as the two sides are told of it.    *)
(***************************************************************************)
Becomes(status) == application' = [application EXCEPT !.status = status]

\* A viewing that is closed along with it has an event of its own, left out here: it asks for
\* less than the other.  The bell has one entry for both.
LifecycleChanges(activity) ==
  UNCHANGED conversation /\ Tell(activity) /\ Commits({Lifecycle})

Promote ==
  /\ application.status = "WAITING" /\ application.listing = "PUBLISHED"
  /\ application' = [application EXCEPT !.status = "ACTIVE", !.active = TRUE]
  /\ LifecycleChanges(By("SYSTEM", "BOTH"))

RejectByProvider ==
  /\ application.status = "ACTIVE"
  /\ application' = [application EXCEPT !.status = "REJECTED", !.reason = "NOT_SELECTED"]
  /\ LifecycleChanges(By("PROVIDER", "BOTH"))

LoseEligibility ==
  /\ application.status \in {"ACTIVE", "WAITING"}
  /\ application' = [application EXCEPT !.status = "REJECTED", !.reason = "PROFILE_NO_LONGER_ELIGIBLE"]
  /\ LifecycleChanges(By("SYSTEM", "APPLICANT"))

RestoreToActive ==
  /\ application.status = "REJECTED" /\ application.reason = "NOT_SELECTED" /\ application.listing = "PUBLISHED"
  /\ application' = [application EXCEPT !.status = "ACTIVE", !.active = TRUE, !.reason = "NONE"]
  /\ LifecycleChanges(By("PROVIDER", "BOTH"))

RestoreToWaiting ==
  /\ application.status = "REJECTED" /\ application.reason = "NOT_SELECTED" /\ application.listing = "PUBLISHED"
  /\ application' = [application EXCEPT !.status = "WAITING", !.active = FALSE, !.reason = "NONE"]
  /\ LifecycleChanges(By("PROVIDER", "APPLICANT"))

WithdrawApplication ==
  /\ application.status \in {"ACTIVE", "WAITING"} /\ Becomes("WITHDRAWN")
  /\ LifecycleChanges(By("APPLICANT", IF application.status = "ACTIVE" THEN "BOTH" ELSE "APPLICANT"))

\* expireViewingInterestWithinTransaction(): the applicant has not answered after a viewing.
\* Both sides are told of the rejection; the expiry itself is not in the bell.
ExpireInterest ==
  /\ AllowsMutation /\ UNCHANGED conversation
  /\ application' = [application EXCEPT !.status = "REJECTED", !.reason = "POST_VIEWING_RESPONSE_EXPIRED"]
  /\ Tell(By("SYSTEM", "BOTH")) /\ Commits({Lifecycle, Viewing})

\* lifecycleChangedForListingWithinTransaction(): one event per application and transaction.
ListingInvalidates == {Lifecycle}

\* rentListing(), for the application that was chosen and for one that was not.
Rent ==
  /\ application.listing \in {"PUBLISHED", "PAUSED"} /\ application.status \in {"ACTIVE", "WAITING"}
  /\ \/ /\ application.status = "ACTIVE"
        /\ application' = [application EXCEPT !.status = "ACCEPTED", !.listing = "RENTED"]
     \/ application' = [application EXCEPT !.status = "REJECTED", !.reason = "LISTING_RENTED", !.listing = "RENTED"]
  /\ LifecycleChanges(By("PROVIDER", IF application.status = "ACTIVE" THEN "BOTH" ELSE "APPLICANT"))

\* transitionListing(): publishing may promote the application, leaving the market may
\* close a viewing of it, which is in the bell when there was an appointment or a proposal.
ListingMoves ==
  \E to \in {"PUBLISHED", "PAUSED", "DRAFT"} :
    /\ application.listing # "RENTED" /\ application.listing # to
    /\ to = "PAUSED" => application.listing = "PUBLISHED"
    /\ UNCHANGED conversation
    /\ \/ application' = [application EXCEPT !.listing = to] /\ Silent /\ Commits(ListingInvalidates)
       \/ /\ to = "PUBLISHED" /\ application.status = "WAITING"
          /\ application' = [application EXCEPT !.listing = to, !.status = "ACTIVE", !.active = TRUE]
          /\ Tell(By("SYSTEM", "BOTH")) /\ Commits(ListingInvalidates)
       \/ /\ to = "DRAFT" /\ application.status = "ACTIVE"
          /\ application' = [application EXCEPT !.listing = to]
          /\ Tell(By("PROVIDER", "BOTH")) /\ Commits(ListingInvalidates \cup {Viewing})

\* What the viewing workflow writes: which activity is left to ViewingWorkflow.
ViewingWrites(activity) == UNCHANGED <<application, conversation>> /\ Tell(activity) /\ Commits({Viewing})

\* While the process runs: by either side, or by the expiry of a proposal (none outlives the
\* process); one the bell leaves out; the provider who keeps considering names the appointment.
ViewingActivities ==
  {By(actor, "BOTH") : actor \in Sides \cup {"SYSTEM"}} \cup {By("APPLICANT", "INTERNAL")}
    \cup {[By("PROVIDER", "BOTH") EXCEPT !.appointment = 1]}

ViewingHappens == AllowsMutation /\ \E activity \in ViewingActivities : ViewingWrites(activity)

\* Outcomes of viewings are recorded and corrected after the process has ended, too.
RecordOutcome == Authorized("PROVIDER") /\ ViewingWrites(By("PROVIDER", "BOTH"))

\* The import of old viewings, of either side and of an ended process too: it is in the bell
\* only when it closes what was agreed about a listing that has left the market.
Reconcile(s) ==
  /\ Authorized(s) /\ application.status # "WAITING"
  /\ \/ ViewingWrites(By("SYSTEM", "INTERNAL"))
     \/ /\ application.status = "ACTIVE" /\ application.listing = "DRAFT"
        /\ ViewingWrites(By("SYSTEM", "BOTH"))

-----------------------------------------------------------------------------
(***************************************************************************)
(* The conversation.                                                       *)
(***************************************************************************)
ConversationWrites(event) == UNCHANGED application /\ Silent /\ Commits({event})

\* send(): the provider's first message opens the conversation.
Send(s) ==
  /\ Authorized(s) /\ CanSend(s)
  /\ Len(conversation.messages) < MaxMessages
  /\ conversation' = [conversation EXCEPT !.opened = TRUE, !.messages = Append(@, [from |-> s, read |-> FALSE])]
  /\ ConversationWrites("message")

\* setApplicantReplies(): opens the conversation too; nothing is written when nothing changes.
SetReplies(enabled) ==
  /\ Authorized("PROVIDER") /\ CanManageReplies
  /\ conversation.replies # enabled
  /\ conversation' = [conversation EXCEPT !.opened = TRUE, !.replies = enabled]
  /\ ConversationWrites("permission")

\* Mutated form of Marked: whatever has come in meanwhile is marked too.
MarkedAll(messages, s, through) ==
  [i \in DOMAIN messages |-> IF i \in Unread(messages, s) THEN [messages[i] EXCEPT !.read = TRUE] ELSE messages[i]]

\* markReadWithinTransaction()
Marked(messages, s, through) ==
  [i \in DOMAIN messages |->
    IF i <= through /\ i \in Unread(messages, s) THEN [messages[i] EXCEPT !.read = TRUE] ELSE messages[i]]

\* markRead(), through a message the client has shown, not always its last: the request may
\* be late.  It announces what it has marked.
MarkRead(s) ==
  /\ Authorized(s) /\ conversation.opened
  /\ \E through \in 1..client[s].through :
       conversation' = [conversation EXCEPT !.messages = Marked(@, s, through)]
  /\ conversation' # conversation
  /\ ConversationWrites("read")

-----------------------------------------------------------------------------
(***************************************************************************)
(* The bell.                                                               *)
(***************************************************************************)
Mark(S) == notifications' = (notifications \ S) \cup {[n EXCEPT !.read = TRUE] : n \in S}

Changed(s) == outbox' = outbox \cup {NotificationsChanged[s]}

Idle == [pc |-> "IDLE", id |-> 0, time |-> 0]

Sought(s) == {n \in Visible(s, reading[s].time) : n.id = reading[s].id}

\* markRead() finds the row (one request at a time: two of a side are in the order of
\* their row lock, and those of the two sides touch different rows),
FindNotification(s) ==
  /\ \A t \in Sides : reading[t] = Idle
  /\ \E n \in Visible(s, now) :
       /\ n.listed
       /\ reading' = [reading EXCEPT ![s] = [pc |-> "FOUND", id |-> n.id, time |-> now]]
  /\ UNCHANGED <<application, conversation, notifications, now, began, outbox, client, made>>

\* updates it, if it is still to be seen and unread (what is left otherwise writes nothing),
UpdateNotification(s) ==
  /\ reading[s].pc = "FOUND"
  /\ reading' = [reading EXCEPT ![s] =
                  IF \E n \in Sought(s) : ~n.read THEN [@ EXCEPT !.pc = "UPDATED"] ELSE Idle]
  /\ UNCHANGED <<application, conversation, notifications, now, began, outbox, client, made>>

\* and looks for it again: it commits with the event, or what is gone by now rolls all of it back.
AnswerNotification(s) ==
  /\ reading[s].pc = "UPDATED"
  /\ IF Sought(s) # {}
     THEN Mark(Sought(s)) /\ Changed(s)
     ELSE UNCHANGED <<notifications, outbox>>
  /\ reading' = [reading EXCEPT ![s] = Idle]
  /\ UNCHANGED <<application, conversation, now, began, made>>
  /\ GrowStale

\* markAllRead(throughCreatedAt), with the asOf of a bell the client has shown; it waits for
\* a row that is being updated.  It takes rows nobody has listed along: those whose transaction
\* began by then and committed later.
MarkAllRead(s) ==
  /\ reading[s].pc # "UPDATED"
  /\ \E through \in 0..client[s].asOf :
       LET marked == {n \in Visible(s, now) : ~n.read /\ n.createdAt <= through}
       IN  marked # {} /\ Mark(marked) /\ Changed(s)
  /\ UNCHANGED <<application, conversation, now, began, reading, made>>
  /\ GrowStale

\* purgeExpired()
Purge ==
  /\ \A s \in Sides : reading[s].pc # "UPDATED"
  /\ \E n \in notifications : n.createdAt + Retention <= now
  /\ notifications' = {n \in notifications : n.createdAt + Retention > now}
  /\ UNCHANGED <<application, conversation, now, began, outbox, reading, made>>
  /\ GrowStale

-----------------------------------------------------------------------------
(***************************************************************************)
(* The clients, and the hints that reach them.                             *)
(***************************************************************************)
\* What detail() and list() leave with a client that asks for these views.
Fetched(s, views) ==
  [through |-> IF "conversation" \in views /\ Authorized(s)
               THEN Min({Len(conversation.messages), client[s].through + PageLimit})
               ELSE client[s].through,
   asOf       |-> IF "bell" \in views THEN now ELSE client[s].asOf,
   revalidate |-> IF "bell" \in views THEN NextRevalidate(s) ELSE client[s].revalidate,
   stale      |-> client[s].stale \ views]

Listed(S) ==
  notifications' = {[n EXCEPT !.listed = @ \/ (n.to \in S /\ n \in Visible(n.to, now))] : n \in notifications}

Fetch(s, v) ==
  /\ client' = [client EXCEPT ![s] = Fetched(s, {v})]
  /\ Listed(IF v = "bell" THEN {s} ELSE {})
  /\ UNCHANGED <<application, conversation, now, began, outbox, reading, made>>

\* Mutated form of ApplicationHints: none about what the provider does not see.
ApplicationHintsForThoseWhoSee(event, s) ==
  IF ~Authorized(s) THEN {} ELSE IF event = Viewing THEN {"bell"} ELSE Views

\* The routers: which views of side s the event makes its client fetch again.  A provider who
\* does not see the application is given the hint about the listing in its place.
ApplicationHints(event, s) == IF event = Viewing /\ Authorized(s) THEN {"bell"} ELSE Views

ConversationHints(s) == IF conversation.opened /\ Authorized(s) THEN {"conversation"} ELSE {}

Hints(event, s) ==
  IF event \in {Lifecycle, Viewing} THEN ApplicationHints(event, s)
  ELSE IF event \in {"message", "permission", "read"} THEN ConversationHints(s)
  ELSE IF event = NotificationsChanged[s] THEN {"bell"} ELSE {}

Deliver(event) ==
  /\ event \in outbox /\ outbox' = outbox \ {event}
  /\ client' = [s \in Sides |-> Fetched(s, Hints(event, s))]
  /\ Listed({s \in Sides : "bell" \in Hints(event, s)})
  /\ UNCHANGED <<application, conversation, now, began, reading, made>>

Tick ==
  /\ now < MaxTime /\ now' = now + 1
  /\ UNCHANGED <<application, conversation, notifications, began, outbox, reading, made>>
  /\ GrowStale

-----------------------------------------------------------------------------
\* An application that waits, or one that has come some way: in the provider's list, or
\* rejected by the provider, with an unread notification of the provider and an unread message.
New(status) == [status |-> status, active |-> status = "ACTIVE", reason |-> "NONE", listing |-> "PUBLISHED"]

Rejected == [New("ACTIVE") EXCEPT !.status = "REJECTED", !.reason = "NOT_SELECTED"]

Earlier == [id |-> 1, to |-> "PROVIDER", appointment |-> 0, createdAt |-> 0, read |-> FALSE, listed |-> TRUE]

\* One message that is not read yet; the applicant may reply.
Opened(s) ==
  [opened |-> TRUE, replies |-> s = "APPLICANT", messages |-> <<[from |-> s, read |-> FALSE]>>]

Init ==
  /\ \/ /\ application = New("WAITING")
        /\ conversation = [opened |-> FALSE, replies |-> FALSE, messages |-> <<>>]
        /\ notifications = {} /\ made = [transactions |-> 0, notifications |-> 0]
     \/ /\ \/ application = New("ACTIVE") /\ conversation = Opened("PROVIDER")
           \/ application = Rejected /\ conversation = Opened("APPLICANT")
        /\ notifications = {Earlier} /\ made = [transactions |-> 0, notifications |-> 1]
  /\ now = 0 /\ began = Never /\ outbox = {}
  /\ reading = [s \in Sides |-> Idle]
  /\ client = [s \in Sides |-> [through |-> 0, asOf |-> 0, revalidate |-> NextRevalidate(s), stale |-> {}]]

LifecycleNext ==
  Promote \/ RejectByProvider \/ LoseEligibility \/ RestoreToActive \/ RestoreToWaiting
    \/ WithdrawApplication \/ ExpireInterest \/ Rent \/ ListingMoves

ViewingNext == ViewingHappens \/ RecordOutcome \/ \E s \in Sides : Reconcile(s)

ConversationNext == \E s \in Sides : Send(s) \/ MarkRead(s) \/ \E enabled \in BOOLEAN : SetReplies(enabled)

BellNext ==
  \/ \E s \in Sides : FindNotification(s) \/ UpdateNotification(s) \/ AnswerNotification(s) \/ MarkAllRead(s)
  \/ Purge

Next ==
  \/ Begin \/ LifecycleNext \/ ViewingNext \/ ConversationNext \/ BellNext \/ Tick
  \/ \E s \in Sides, v \in Views : Fetch(s, v)
  \/ \E event \in outbox : Deliver(event)

Spec == Init /\ [][Next]_vars

-----------------------------------------------------------------------------
\* What a client shows is what it would fetch now, or an event that makes it fetch is on its
\* way, or the time has come that the bell told it to ask again: every producer announces in
\* the same transaction, and the routers drop an event only for a side it tells nothing.
StaleClientsAreTold ==
  \A s \in Sides : \A v \in client[s].stale :
    \/ \E event \in outbox : v \in Hints(event, s)
    \/ v = "bell" /\ client[s].revalidate # Never /\ client[s].revalidate <= now

\* A request marks a notification only for a recipient who may see it, however the application
\* is hidden between its statements; one that the recipient has listed, or one that mark-all
\* takes along, whose transaction had begun when the recipient's bell was last asked for.
NewerStaysUnread ==
  \A n \in notifications :
    ~n.read /\ [n EXCEPT !.read = TRUE] \in notifications'
      => Authorized(n.to) /\ (n.listed \/ n.createdAt <= client[n.to].asOf)

\* A message is marked only for its recipient, and only when a page of the recipient's client
\* has shown it: what is sent while the reader marks the page stays unread.
UnseenStaysUnread ==
  \A i \in DOMAIN conversation.messages :
    ~conversation.messages[i].read /\ conversation'.messages[i].read
      => i <= client[Other(conversation.messages[i].from)].through

\* No request marks what is newer than what its client knows of, or what is hidden from it.
OnlyEarlierIsRead == [][NewerStaysUnread /\ UnseenStaysUnread]_vars

=============================================================================

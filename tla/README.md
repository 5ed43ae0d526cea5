# A formal model of renyqo-app

renyqo-app is the backend of a rental platform: providers publish listings,
applicants apply, a bounded number of applications per listing is ACTIVE and the
others wait in a queue; ACTIVE applications proceed through conversations,
document verification and viewings until the listing is rented.  The program is
a NestJS server (any number of replicas) in front of one PostgreSQL database,
plus a separate document worker; every replica also runs timers (outbox
dispatcher, viewing expiry, retentions).

Almost everything hard in it is a property of *tables under concurrent
transactions*: bounded slots, a queue with holes, state machines spread over
several rows, receipts for idempotent commands, deadlines that several parties
race for, and leases between replicas.  These modules model those parts.
Paths below are relative to the repository; `src/...` is its source directory.

## 1. Inventory

The order is that of importance for the program's own logic.

| component | state | operations | what makes it correct |
|---|---|---|---|
| **Application lifecycle** `src/applications/{application-lifecycle,application-admission,application-waiting-promotion,provider-application-curation}.service.ts`, `application-process.policy.ts` | `applications` (status, dates, queue order), event history | apply, withdraw, reject, restore, promote, revalidate, expire interest, rent | bounded slots, FIFO waiting queue, no stranded slot, one current attempt per pair, cooldowns |
| **Eligibility** `src/eligibility`, `src/applicant-profile` | profile, criteria revision, assessments | evaluate, record, reassess, revalidate | assessments are never stale; the evaluation of a profile and the query for matching listings agree |
| **Listings** `src/listings` | listing status, criteria, display order | publish, pause, resume, draft, archive, rent, update, move | a rented listing is closed; display order is a permutation; following the cursors of a search shows every listing once |
| **Viewing workflow** `src/application-viewings`, `src/applications/{viewing-lifecycle,application-consideration}.service.ts` | workflow, proposals, appointments, interest requests, command receipts | invite, counter, accept, reject, replace, cancel, outcome, interest, consideration, expire, close | one commitment at a time, stale commands refused, deadlines honoured, replay is harmless |
| **Outbox** `src/outbox` | `outbox_events`, leases | append, claim, publish, mark, release, retain | at least once, never lost, a lease is respected |
| **Documents** `src/application-documents` (+ `worker/`) | requirements, upload attempts, objects, scan verdicts | request, upload, put, record version, finalize, recover, review, cancel, replace | only clean current objects become available, each attempt ends, duplicates harmless |
| **Verification** `src/application-documents/verification-*` | scope revision, requirement revisions, decisions, receipts | request, cancel, replace, decide, add subject | decisions are about the evidence seen; replay is harmless |
| **Conversation** `src/application-conversation` | conversation, messages, permission | send, mark read, set replies | nothing unseen is marked as read; an open client learns of every change |
| **Notifications** `src/notifications` | notifications | produce with an activity, read, expire, purge | what is hidden from a recipient stays unread; every change is announced |
| **Realtime** `src/realtime` | sockets, rooms, admission counters | connect, revalidate, deliver, disconnect | nothing is delivered to a dead session, and its socket is closed in the end |
| **Auth and sessions** `src/auth`, `src/security` | sessions, grants, auth version, reset tokens | login, logout, reset, deserialize | a password reset ends all sessions, also logins in progress |
| **Workspaces and memberships** `src/provider-workspaces`, `src/provider-memberships`, `src/provider-authorization` | workspaces, members, transfer intents, revisions | establish, convert, suspend, invite transfer, respond | one owner; revisions guard every change |
| **Listing images** `src/listing-images` | image rows, `photos` array, Cloudinary assets | upload, remove, reorder | rows, positions and photos agree |
| **Applicant listing actions, saved listings, summaries** | hidden/saved listings | save, hide, undo | a toggle is idempotent |
| **Read models and attention** `src/application-read-models`, `src/application-attention`, the projections of viewings and documents | none of their own | workspaces, cards, overviews, menus, when to look again | what is offered is accepted, nothing due is missing, readers agree with each other |
| **Assistance, summaries** `src/listing-assistance`, `src/applicant-listing-summaries`, `src/published-listings` | none of their own | queries; extraction by an external model | the answer is normalised |
| **Infrastructure** `src/prisma`, `src/config`, `src/health`, `src/email`, `src/common`, `src/me`, `src/users` | — | transaction retry, configuration, probes | a retried transaction leaves no trace of its failed attempts |

How they interact: HTTP handlers open one Serializable transaction each
(`runSerializableTransaction`, retried up to eight times on serialization
failures), lock the listing row, then the application row, and do everything in
that transaction: the table rows, an activity, the notifications derived from it
and the outbox event.  The lifecycle calls the viewing lifecycle when an
application ends; the viewing workflow calls the lifecycle when an answer
rejects or withdraws an application.  The outbox dispatcher hands events to
realtime, which re-authorizes every recipient.  The document worker and the HTTP
upload meet in the attempt row.

What is hard here:
* *slots handed out by many operations*: apply, restore, withdraw, reject,
  profile change, publish, expiry and rental all move the same counters;
* *time*: cooldowns, proposal deadlines, interest deadlines and leases are
  compared with `Date.now()` and raced by schedulers;
* *stale clients*: commands carry expected revisions and idempotency keys;
* *several replicas* of every timer, and crashes between a publication and the
  statement that records it;
* *readers that decide again*: a dozen queries each work out for themselves what
  a command would accept, what is due, and when this changes by the passing of time;
* *two-phase work*: uploads write a row, then an object, then the row again,
  while the scanner's verdict may arrive first, twice or never.

## 2. Plan

Done, in this order: the lifecycle of applications, with the queue it implements
(`Applications`, `Admission`, `AdmissionQueue`, `WaitingPromotion`); the outbox;
the viewing workflow and its sweep; documents and verification; then everything
around them: command receipts, the older way to arrange viewings, what both
sides are shown (`ApplicationReads`, `ViewingProjection`, `Attention`,
`DocumentReads`), sessions and sockets, conversation, notifications and hints,
listing images, eligibility, discovery and the order of listings.

Every invariant and every action property that a run checks is also proved, for all
values of the constants (section 5): of the lifecycle with its paging loop, the outbox,
the viewing workflow and its sweep, documents and verification, sessions, images, the
readers of applications, viewings and documents, and what open clients are told of the
conversation and the bell; and so is that the lifecycle implements its queue.  What
remains to the runs alone are the four liveness properties.  Left to model: memberships and transfer intents, once something calls them.

## 3. Modules

### Admission, Applications
`Applications` models the rows of `applications` as a function `row` from a set
`Attempts` of potential rows, each belonging to one applicant and one listing.
One action is one transaction: it locks the listing row first and runs
Serializable, so a whole handler is atomic, and a transaction that exhausts its
retries changes nothing.  The correspondence is

| action | code |
|---|---|
| `Apply` | `ApplicationLifecycleService.apply`: admission, promotion of the queue, then the newcomer |
| `Withdraw` | `withdraw` |
| `Reject`, `Restore` | `ProviderApplicationCurationService.reject`, `restore` |
| `UpdateProfile` | `ApplicantProfileService.upsert` with `revalidateWithinTransaction` |
| `UpdateCriteria` | `ListingsService.update` with `reassessListing` |
| `Publish`, `Resume`, `Pause`, `MoveToDraft`, `Archive`, `Rent` | the status commands of `ListingsService` |
| `ExpireViewingInterest` | `expireViewingInterestWithinTransaction`, as far as the application is concerned |
| `PromoteWaiting` | `promoteWaitingApplications`, an internal entry without a route |
| `Tick` | `Date.now()` |

`MCApplications` and `MCApplicationReads` are the small instances.  `Admission` holds
the pure decisions of `ApplicationAdmissionService.evaluate` and
`application-process.policy.ts`: may this history apply now, which rejections block,
until when.  A profile and a listing's criteria are members of
small sets with a relation `Accepts`; only `canApply` matters
(`Eligibility` computes it, and `ApplicationDiscovery` joins the two).  What an operation
asks before it does anything is an operator of its own, `MayApply`, `MayWithdraw`,
`MayReject`, `MayRestore`, `MayRent`; the rest of the action is assignments, so that the
guard is the condition under which the operation is possible.  `NoDate` is a
NULL date.  Rows in `Legacy` may start as rejections without event, reason or
date: migrations 20260802150000 and 20260903120000 add those columns to existing
rows, and docs/application-lifecycle.md:59 describes them.

Left out of these actions: authorization, and the text of introductions.  The
viewing closure is in `ViewingWorkflow`, the activities in `ApplicationReads`, the
notifications and hints in `Correspondence`.

### AdmissionQueue, ApplicationQueues
`AdmissionQueue` is the abstract specification: slots, and those who wait, each with
the ones who came before.  `ApplicationQueues` maps the table to it, one queue for each
listing (who came before is a matter of queue order).  `ImplementsQueue` states that
every step of `Applications` is one of the steps of each queue or leaves it alone, and
`NobodyIsOvertaken` what that means to an applicant.

### WaitingPromotion
The paging loop of `reconcileWithinTransaction` as a recursive function of the
cursor and the free slots: fetch a page after the cursor, promote, next page.
`Applications` uses the effect of the whole loop; `PagingPromotesTheSame` is the
fact that justifies it, in every state `Applications` reaches.  `Turn` is one pass of the
loop and `Loop` the function it defines.

### ApplicationReads
What the provider and the applicant are shown of applications: the capabilities of a
workspace, active cards, recent exits, the overview of the applicant, the admission
and the older lists.  Every reader takes one snapshot, so each is a function of the
state.  Recent exits read the history, so `transitions` keeps what each operation
appends to it (one activity for each change of status), as far as a reader can tell it
apart; `participants` remembers who was ever ACTIVE.

### Outbox
The rows of `outbox_events`, and for every replica the program counter of
`OutboxDispatcherService.dispatchOnce`.  Every SQL statement is a step of its
own.  The lease, the backoff and the publication's deadline are counted down in
ticks (`next_attempt_at` and `claimed_until` as the time left), so the state
space is finite without a clock.  `Retain` removes dispatched rows at any age.
`Abandon` is a crash, or a release that fails; `MarkFails` a mark that does.
`TimeMayPass` says that statements take no time that counts, that a claimed
batch is begun at once and that no publication outlasts
`REALTIME_OPERATION_TIMEOUT_MS` (`withRealtimeDeadline`).  `FOR UPDATE SKIP
LOCKED` lets two claims run at once; they then take disjoint rows, which is what
two consecutive claims do.

### ViewingWorkflow
One application and its `viewing_workflows` row with the offers
(`viewing_proposals`), the visits (`viewing_appointments` with the ledger) and
the interest requests that belong to it, together with the status of the
application and of the listing.  `wf` is the workflow as one record: the round of
an offer is its number, `pending` and `confirmed` are the two pointers, and a
visit is the appointment of the offer of the same round.  `place` is the row of
`application_consideration_positions`; its field `placed` is not in the database:
it remembers where the last activation put the application.

| action | code |
|---|---|
| `Invite`, `Accept`, `Decline`, `ProposeAlternative`, `Counterpropose`, `Reschedule`, `WithdrawOffer`, `CancelAppointment`, `CloseCalendar` | the commands of `ViewingWorkflowCommandService.apply`, after what `execute` asks of all of them (`Calendar`) |
| `RecordOutcome` | `ViewingWorkflowDecisionService` outcome and its corrections, with `outcomeWithinTransaction` of the consideration service |
| `Answer` | the applicant's interest; disinterest withdraws the application |
| `Consider`, `DoNotContinue` | the provider's consideration; the latter rejects the application |
| `ExpireOffer`, `ExpireInterest` | `ViewingWorkflowExpiryService`, reached from the sweep or from a late command |
| `Withdraw`, `Reject`, `Revalidate`, `Promote`, `Restore` | the operations of `Applications`, as far as this application is concerned |
| `SetListing`, `MoveToDraft`, `Archive`, `Rent` | the status commands of `ListingsService` |
| `Tick` | `ViewingClock.now()` |

`Close` is `closeWithinTransaction` of `viewing-lifecycle.service.ts` with its
three cases (nothing there, a closed workflow without an appointment, the
closure proper), `RestoredWorkflow` is `restoreWithinTransaction`.  Every action
is one Serializable transaction that has locked the listing and the application.

`May...` is what `apply()` asks of a command after `Calendar`, or the decision service of
its own; the actions use them as they stand, and what is left in an action is the
assignments and, of an offer, a date that fits.

A command that names an old revision is refused, and a repeated one is answered
from its receipt: in this module both are stuttering steps.  What makes the refusal
worth anything, that no change goes unseen, is `RevisionTellsPicture`.  It speaks of commitments (state, pointers, offers,
visits, consideration): an answer NOT_INTERESTED to a request that survived a
closed calendar changes the interest and withdraws the application without
moving the revision.  Columns nobody reads any more (the deadline of a settled
offer, for instance) are reset.  Left out: imported LEGACY workflows and their
reconciliation, the short-notice rules, notes and messages.  Whether there is a
slot, and whether the curation cooldown is over, is the business of
`Applications` and left open here.

### ViewingCommands
`execute()` around those actions: a client builds a command on what it was shown
(`Send`), the network delivers it at any time and any number of times (`Execute`),
and the answer to whatever committed is kept as the receipt of its key.  A command
that meets something overdue expires that first and is answered with the failure
(`FailedByOffer`, `FailedByInterest`).  One key is followed; everybody else acts
through the actions of `ViewingWorkflow`.  That the revision is the one of the command
does not quite mean that the workflow is the one its client was shown: an interest may
have been denied since (`SameButDenied`, section 6).

### LegacyViewings
The older endpoints, which serve rows of `application_viewings` that have no
workflow.  `ledger` holds these rows and the snapshot of a workflow of mode LEGACY
that the lifecycle leaves behind; `ended`, which is not in the database, remembers
the rows that were there at a rejection.  Every operation of the older
services is an action; `EndedRow`, `CloseLedger` and `RestoreLedger` are what the
lifecycle does to the rows.  The readers (`NextRowAction`, `SummaryAction`, the
flags) are functions of the state.

### ViewingProjection, Attention
What the two sides are shown of the workflow: `viewing-workflow-projection.ts` over
the rows that `batch()` selects, as functions of the state.  `Resolution`,
`ApplicantInterest` and `InterestInHistory` are the states as shown before anybody
has expired what is overdue, `Allowed` the capabilities, `Obligation` what is asked
of whom, `Boundaries` and `NextRevalidateAt` when to look again.  `decidedFor` is
the appointment of the last consideration, which the code reads from the activities.
`CalendarAccepts` and `DecisionAccepts` put the guards of `ViewingWorkflow` beside the
names of the capabilities, so that `OffersAreHonoured` compares two independent readings
of the rows: the projection's and the commands'.
`Attention` gathers the obligations of viewings, documents and messages for the
menus and for the provider's overviews, which scan only part of the applications
(`Scanned`).  The documents and messages due are parameters there.

### ViewingExpirySweep
`runOnce` of one replica: `candidates` is two queries (`ReadProposals`,
`ReadInterests`), each cut to a batch, merged and cut again; `processBatch`
processes the batch in order, remembers its last target as the cursor and ends
the sweep at a short batch (`Finish`) or at an empty one (`Wrap`).  An identity is
a number, its order is that of the identifiers, and an offer and a viewing may
share one, which is where the cursor's conditions differ.  What an expiry does is
`ExpireOffer` and `ExpireInterest` of `ViewingWorkflow`; here it settles the
target.  `Settle` is everybody else: commands, closures and the other replicas,
which have cursors of their own and meet this one only in the rows.  `poisoned`
targets fail always; `faults` counts passing failures of an expiry or a query,
and restarts.

### Documents
One application's requirements (`requirement`, a function of identity and round),
upload attempts (`file`) and decisions, and around them three kinds of tasks that
interleave:

| task | steps | code |
|---|---|---|
| upload of the API | `Reserve`, then `Record`, `PutFails` or `ApiCrash` | `ApplicationDocumentService.upload`: a transaction, the object, one more statement |
| delivery of the worker | `Receive`, `Fetch`, `Finalize`; `Discard`; `DeliveryFails` | `DocumentQueueService.consume` with `process` and `finalize` |
| recovery of the worker | `Pass`, `Inspect`, `Recover`; `StorageFails`, `RecoveryFails` | `DocumentRecoveryService.run` with `recover` and `finalize` |

`Outcome` holds the tests of `finalize` in their order, `Finalized` what they do to
the attempt.  The commands of the provider (`Request`, `Cancel`, `Replace`,
`Decide`, `Review`) are transactions under the locks of listing and application.
`Freeze` moves the application or its listing out of the states in which
`applicationProcessAllowsMutation` holds, and back.

External are `Store` (the object may exist before its version is recorded, or
although the API saw a failure), `Scan`, `Tag` and `TaggingFails` (GuardDuty sends
and tags in either order and may scan again), and the queue: a message can come
again after it was deleted and come in any order; one that is given up is one nobody
receives any more.  `acknowledged` is the set of the verdicts the worker has deleted; the queue keeps
no such record, the property speaks of it.  A verdict is one of three: clean, a
threat (which stands for every other scan result) and failed tagging.

Left out: subjects other than as a part of an identity; command receipts, expected
revisions and expected decisions, which refuse or replay a command without a
change; etags and object metadata that do not match (evidence UNSAFE); the window
on the event's time; downloads, which only read; a second worker.  The triggers of
the migrations are no guards of the model.

### DocumentReads
Four readers of the same rows as functions of the state of `Documents`: the list of
requests (`Listed`), the workspace (`Summarized`), the page of requirements
(`Paged`, `Page`, `ApplicationState`) and the menus (`PendingDocuments`,
`Indicators`).  What they offer is compared with the guards of the commands
(`MayRequest`, `MayReserve`, `MayDecide`, ...), which the actions of `Documents` use.

### Sessions
The sessions of one account: the row of `user_sessions`, which any request in
progress may write back (`SaveBack`), and the grant, which only its login writes;
both carry the authentication version.  One step is one statement or the code
between two awaits: the three statements of a login, of a logout and of a reset with
the cleanup after it, the admission of a socket, the sweep of the registry and one
publication.  Any statement may fail.  External is the session middleware
(express-session with its store), as `src/auth/session` sets it up.

### Correspondence
The conversation, the notifications and the hints of one application.  A transaction
that writes activity is one step; its rows carry the time it began, so `Begin` lets
the clock go on before it commits.  A read of a single notification is three
statements under read committed (`FindNotification`, `UpdateNotification`,
`AnswerNotification`).  `outbox` is the set of events under way, delivered in any
order; `Hints` is what the routers make of one for a side.  `client` is what an open
client shows; `stale` says of which views that is no longer what it would fetch.
Who writes what of the viewings is left to `ViewingWorkflow`; here it matters when and
for whom: the commands and the expiry of a proposal while the process runs
(`ViewingHappens`), outcomes after its end too (`RecordOutcome`), the import of older
viewings (`Reconcile`), and the system's rejection when an interest expires
(`ExpireInterest`), which tells both sides.  A request to mark names any message the
client has fetched, or any instant up to that of its bell (`MarkRead`, `MarkAllRead`),
since it may be late.

### ListingImages
Uploads, removals and reorderings of one listing statement by statement under read
committed: `saved` are the committed rows, `rows` the newest versions, `lock` who
wrote them.  A statement sees the committed rows and its own, waits for a row or a
position that somebody else holds, and fails when the row is gone or the position
taken.  `photos` is the array column as a set.  `Expire` rolls a transaction back
at any time.  Cloudinary is external: an asset is there or not, and its deletion
may fail.  An answer may be lost: that of a commit that took effect
(`CommitUnanswered`) or of an asset that was stored (`UploadAssetUnanswered`); the
request goes on as after a failure, and `unsure` keeps its image.  Which of the
requests come is open, up to `MaxRequests`.

### Eligibility, ApplicationDiscovery, ListingDiscovery, ListingOrdering
Pure functions, and mostly proved.  `Eligibility` has the checks of
`evaluateProfile` and, beside each, the condition of the SQL query for matching
listings, with NULL as a value of its own.  `ApplicationDiscovery` puts them beside
`Applications`: `Demanded` and `Entered` are the columns behind a criteria and a profile,
`Accepts` is what the evaluation says of them, and `Found` is what the query with
"only matching" shows an applicant.  `ListingDiscovery` is the query behind
the search of applicants: its filters, the order in each sort, the condition a
cursor adds.  `ListingOrdering` is the order a provider gives the listings, update
by update.

## 4. Runs

| run | question | bounds |
|---|---|---|
| `applications_queue` | slots, order and hand-over as the abstract queue `AdmissionQueue`; the paging loop; discovery and admission agree | 3 applicants with one attempt each, one listing, limit 1, pages of 1, 2 profiles, 2 criteria, 2 instants, the part `Explored` |
| `applications_reads` | attempts and cooldown of a pair; what both sides are shown | 2 applicants (one with two attempts), limit 1, 2 instants, cooldowns 1, with and without a legacy row |
| `outbox` | lost events, lease violations, settling | 2 replicas, 2 rows, lease 2 ticks = deadline, 2 attempts, 1 fault |
| `viewings_negotiation` | pointers and ledger, deadlines, started appointments, places; the older rows and their readers | 3 offers, 3 instants, 3 positions |
| `viewings_decisions` | closure and restoration, interest requests, outcomes; what is offered, asked, counted and announced | 2 offers, 4 instants, correction and interest window 1, 2 positions |
| `viewing_commands` | stale and repeated commands, receipts | 2 offers, 4 instants, one key |
| `viewing_expiry_sweep` | completeness of a sweep, no target twice, no starvation | 2 offers and a viewing, one identity shared, batches of 2, 4 instants, 2 poisoned targets, 1 fault |
| `documents` | threats stay out, evidence stays put, nothing is stuck; what both sides are shown | 2 attempts, 2 rounds of one requirement, 2 scans, 2 instants, one delivery at once, attempts interchangeable |
| `documents_recovery` | every attempt ends | 2 attempts of 2 requirements, batches of 1, 4 instants, timeout 2, 1 fault, no scan |
| `sessions_realtime` | who is authenticated, who hears, who is disconnected | 1 session, 2 reset tokens, 1 socket |
| `correspondence` | clients learn of every change; what is newer than a client knows of, or hidden from it, is not marked as read | 2 transactions, 2 messages, 2 notifications, 2 instants, pages of 1 |
| `listing_images` | order, cover, `photos` and assets of a gallery | 2 images; any 4 of 2 uploads, 2 removals and a reordering; 1 answer lost |

All of them pass.  What each property says stands above its definition, and for each
of them PROJECT.json names a change of the code's model that breaks it.

Why the bounds are enough.  A listing's rows interact only through their number,
their order and the limit: with one slot and three applicants there are a free slot,
a full listing and more candidates than slots; pages of one put a boundary between
any two rows.  Two profiles and two criteria, one of which only the good profile fits,
put an ineligible row ahead of an eligible one.  To keep `applications_queue` small
its states are restricted by `Explored`: nothing is followed in a listing that is over
once nobody is left in it, and the second instant, which a rejection needs to be
undone, is followed only while the listing is published and nobody has left but by a
rejection.  The theorems know no such restriction.  Listings interact only
through an applicant's profile, and one row per listing suffices to see that, so runs
use one listing; the theorems hold for any number.  Two attempts are what a rule
about an older and a newer one needs, and a rival takes the slot in between.
Cooldowns of one tick over two instants separate the last instant they forbid and
the first they allow; their length is arbitrary in the theorems.

A lease as long as a publication may take lets a publication end exactly when,
before and after its lease does; two rows make a batch whose second row is reached
late.  One fault at every possible place is a crash anywhere; the theorems hold for
any number.  Three targets and batches of two make a full batch with another one
behind it, at every tie of deadline and identity; two poisoned targets fill a batch.

A negotiation never looks further back than the confirmed appointment and the
pending offer, so three rounds reach a replaced appointment and a further offer
after it.  The questions about outcomes need two visits that both take place and
an instant before and at each deadline.  The readers select the last appointment,
the last completed one and those that stand, so that two visits already leave one
out.  `MaxRevision` bounds only the steps that set a consideration, which could
otherwise repeat for ever (in `viewing_commands` every step of the others);
`MaxIssued` bounds the positions: three in `viewings_negotiation`, whose question
they are, and two in `viewings_decisions`, enough for one restoration.  The configurations of the viewings
switch the deadlock check off: a rented or withdrawn application has reached its end,
and the clock is bounded.

Two attempts over two rounds reach an attempt left behind by a closed requirement
and evidence in an earlier round; two scans reach a verdict on a published file.
A threat found, a failed tag and a repeated delivery need one message in hand at a
time, since the worker's deliveries meet only in the attempt; a message the queue
gives up is one nobody receives any more.  The ids that break a tie of two overdue
attempts are arbitrary, so that attempts are interchangeable.  One instant is both
the deadline of an attempt and the time of its recovery.  A waiver is not decided in
the runs: it looks at no evidence.  `documents_recovery` leaves the scanner silent,
the case in which nothing but recovery ends an attempt, and spends its states on
time, batches and faults instead.

Sessions of an account do not meet but in its version, which two resets raise twice:
a login that read the version before the first, between them or after both.  One
socket suffices, since the registry looks at each by itself.  Two transactions with
two times of their beginning and end are what a late commit needs; after them the
clients read on.  Every pair of the three kinds of requests on images interleaves,
and two more come in between; one lost answer is one at every place there is.  These
three end when their requests have, so they
too do without the deadlock check.

Fairness.  The safety runs assume none.  `outbox` uses `FairSpec`: the poll loop
reschedules itself in a `finally` (`outbox-dispatcher.service.ts:53-70`), hence
weak fairness of a replica's steps, and time passes.  Nothing is assumed about
appends, retention or faults.  `viewing_expiry_sweep` likewise assumes weak
fairness of the sweep's steps: `tick` schedules the next poll in its `finally`
(`viewing-expiry-scheduler.service.ts:55-63`).  `documents_recovery` assumes that
the recovery loop goes on (`document-queue.service.ts:73-82` repeats it whatever
happens) and that time passes, and nothing of uploads, deliveries, scanner or
storage.  `sessions_realtime` assumes that the sweep of the registry goes on: its
timer is set again when a sweep has ended, and a lookup ends by its answer, a
failure or its deadline.

## 5. Proofs

`ApplicationsProofs` proves, for any sets of attempts, applicants, listings,
criteria and profiles, any limit and any cooldowns (the `ASSUME`s of
`Applications`, nothing else):

* `TypeCorrect`: types;
* `AttemptsSupersede`, `CooldownHolds`: `OnlyNewestAttemptIsCurrent` and
  `CooldownRespected`.  Neither is inductive alone: the invariant `IInv` adds
  that no two rows share a queue order and none is beyond the sequence, and that
  an event is dated no later than now, and not before its attempt.  Every action is first shown to
  have one of a few shapes (`StepHasShape`: the queue is served and at most one
  row is rewritten in one of a few ways), and the invariant is preserved shape
  by shape;
* `LimitHolds`: `ActiveWithinLimit`.  The heart is `PromotedFitTheSlots`: ranks
  of distinct waiting rows are distinct, so the set of rows with rank below the
  number of free slots is no larger than that number;
* `QueueAppends`: the action property `QueueIsAppendOnly`;
* `QueueImplemented`: the refinement `ImplementsQueue`.  Reconciling a listing is serving
  its queue (`ReconcileServes`: the rows it promotes are those the abstract queue
  serves); each operation is then a leaving (`LeavingIsExit`), a coming
  (`ComingIsEnter`, for a newcomer and for a restoration), a reassessment
  (`RevalidatedQueue`), an opening or a closing of the listing it concerns, and leaves
  every other queue alone (`Quiet`);
* `NobodyOvertakes`: the action property `NobodyIsOvertaken`, from the steps of the
  abstract queue.  Those who are served came before those who are not
  (`ServedCameFirst`), and a newcomer finds no slot while somebody eligible waits on,
  for then the slots have been filled (`ServedFillTheSlots`);
* `ReadersOfOneMind` (`ReadersAgree`): of the attempts of a pair one is the newest
  and the others are over (`LatestStands`), so that three selections find the same;
* `ParticipantsShown` (`ParticipantsAreShown`).  The readers prove participation and
  exit from the history of transitions, of which only the telling part is kept
  (`TellingTells`: the last of every attempt and one that entered ACTIVE are never
  forgotten).  The invariant `ReadInv` relates the history to the rows: a transition
  is dated by the clock or by the attempt it submits, and not after any newer attempt of
  the pair (`TransitionFits`); the last one accounts for the state of its row unless the
  row was submitted ahead of the clock, and a row without any kept its `activeAt`
  (`AttemptFits`); and whoever took part has a transition to show for it, or a row from
  before the history (`PairFits`).  `Unreliable` is what these leave open;
* `OffersAccepted` (`OfferedIsAccepted`).  The card of a recent exit takes for granted
  that there is no newer attempt, which is so because an exit is the newest
  (`CardsAreOfTheNewest`);
* `PagingPromotes` (`PagingPromotesTheSame`), without induction over the loop: were the
  loop to go wrong from some cursor, there would be a last cursor from which it does
  (queue orders are bounded by the sequence), and one turn (`TurnAims`) leads from there to
  a later one from which it does not.  A turn serves the first of what is left and leaves
  the rest (`FirstOfSplits`); a cursor never passes a row it has not looked at
  (`PageIsFront`, `CursorAdvances`).  The invariant it needs beside `IInv` is that no
  row has the place from before the first (`HavePlaces`), where the loop begins;
* `FoundMeansAdmitted` (`DiscoveryFindsTheEligible`).  For all criteria and profiles, NULLs
  and negative numbers included, the query for matching listings finds exactly those the
  evaluation accepts (`DiscoveryMatchesEvaluation`: rule by rule, a check and its condition
  agree); so in every reachable state a listing is found exactly when `apply()` would take
  the application, past attempts aside.  With "only matching" whatever is found would be
  accepted, whatever the other filters (`OnlyMatchingIsAccepted`); the facts an assessment
  keeps give the same checks again (`AssessmentKeepsEnough`); and the stored number of
  people never decides beside adults and children (`HouseholdIsCounted`).  The assumptions
  are that NULL is none of the values and that `Accepts` is what `Eligibility` computes.

`OutboxProofs` proves for any number of rows, replicas and faults, any batch
size, lease, deadline and backoff: `TypeCorrect`, `NothingIsLost`
(`OnlyPublishedIsDropped`), `ClaimedWhenPublished` and `LeaseHolds`
(`LeaseIsRespected`).  The inductive invariant adds what a
replica remembers: while its `leaseUntil` has not passed, the rows left in its
batch still carry its token, with a database lease at least as long.

`ViewingProofs` proves for any number of rounds, any clock bound and any windows
that satisfy the `ASSUME`s of `ViewingWorkflow`: `TypeCorrect`,
`CommitmentsHold` (`CommitmentsMatch`), `EndsWithProcess` (`NothingOutlivesTheProcess`)
and `RevisionAdvances`.  The invariant is
stated of a workflow f (`Good(f)`), because a step composes several operators: it
joins the types and the commitments with the fact that only a visit of a begun
workflow is asked about, without which a closure could leave a request behind.
One lemma per operator says what it keeps (`ResolvePendingIsGood`,
`EndedIsGood`, `CloseIsGood`, `RestoredIsGood`, `AppointedIsGood`, ...); one step
per action puts them together.  `RecordOutcome` is followed as a whole, since
between the end of the negotiation and the outcome the two ledgers disagree.

What no step undoes is the relation `GoesOn(f, g)` between a workflow and the next:
settled offers and visits stay, interest is answered once, a started appointment
stands.  Every operator but the recording of an outcome makes a workflow go on
(`StepGoesOn`), and `OutcomeRows` says what that one rewrites.  With
`LedgerInvariance`, which adds to the invariant that a row without an outcome has
neither place nor open interest, this gives the action properties `AskedOnceOnly`
(`AskedOnce`) and `DeadlinesKept` (`DeadlinesAreKept`).  `PlaceJustified`
(`PlaceIsJustified`) needs more: that no no-show is newer than the place it moved
(`Issued`), and that the position a no-show would give back is justified in turn
(`GivesJustified`), for a correction restores the position of one no-show under
another.

Its second half proves what surrounds the workflow, for the same constants.
The commands, the projection and the older rows each take no steps but those of
`ViewingWorkflow` (`CommandsImplementWorkflow`, `ProjectionImplementsWorkflow`,
`LegacyImplementsWorkflow`; the last by its invariant, since a disinterest in an older
viewing is a withdrawal only beside a workflow that has not begun), so that each
theorem about the workflow holds of all three.  Then

* `SeenIsMet` (`AppliedToWhatWasSeen`) and `AnswersHold` (`AnswersAreTrue`), of any
  number of deliveries.  Every step of the workflow moves the revision on or leaves
  it all as it was, a denied interest excepted (`StepAdvances`), hence
  `CommandsInv`: while the workflow has the revision a command names, it is one of
  those in `seen`, the denial apart, and a receipt answers a revision that was reached.
  The proof is what found that exception: it takes a third round, so the run with
  two does not meet it;
* `OffersAccepted` (`OffersAreHonoured`): either side is offered what the commands accept
  from it, action by action.  The projection looks at less than the commands do, so the
  invariant has to close the gap: an outcome is given only to visits that are over and
  stay over (`OutcomesAreOver`, by `OutcomesStayOver`), an offer that goes on keeps its
  dates, and the parts of `ShownInv` below.  One lemma per reading: `WhatIsRead`, then the
  calendar, the outcomes, the answer and the consideration;
* `NobodyForgotten` (`NobodyIsForgotten`).  `batch()` reads only the last rows of a
  kind and those that stand, so what is open must be among them: `ShownInv` adds
  that the pending offer is the last made, the appointment the last accepted, and
  that no visit took place after the one an applicant is asked about
  (`RoundsComeInTurn`), nor waits for its outcome;
* `OverviewsMatchTheMenu` (`OverviewsMatchMenu`): an application the overviews skip has
  nothing open, now or with time (`SkippedIsQuiet`);
* `AnnouncedInTime` (`ChangesAreAnnounced`): time alone changes what a side is shown only
  at one of its boundaries (`ShownBetweenBoundaries`), and a boundary that has been
  reached is the one that was announced (`BoundaryIsAnnounced`).  The proof found the exception the property now makes (section 6): it needs a fifth instant, one
  more than the run has;
* `LegacyInvariance`, of the older rows: a round was recorded before the next one was
  proposed, only the last is unresolved and only while the process may change, no row is
  beside a workflow, and what was there at a rejection is shut once the application is
  back.  `LegacyKept` is what every operation leaves behind; one lemma per
  operation shows it.  `EndedStaysClosed` (`EndedInterestStaysClosed`) is a part of it,
  and `LegacyRowsSound` (`LegacyRowsAreSound`) follows from it: the summary looks at one
  completed round only, the last without an answer, which is enough because a round
  after an open one is open itself (`LaterIsOpen`).

`ViewingExpirySweepProofs` proves for any number of offers and interest requests, any
size of a batch and any failures and restarts: `TypeCorrect` and `EachIsTriedOnce`
(`SweepTriesEachOnce`).  The invariant `SweepInv` says that what is owed lies ahead of
the cursor, and once a query has been read, in what it found or behind all of a full
batch (`FullBefore`).  That two queries, each cut to a batch and read at different
moments, merge to a batch that leaves nothing out is `CandidatesAreFirst`; it rests on
`BatchIsFirst`: whatever comes after as many targets as a batch holds is not in the
batch, and the batch is full.  The counting is done without induction, by taking the
target with the fewest before it (`LeastOf`).

`DocumentsProofs` proves for any number of requirements, rounds, attempts,
deliveries, scans and faults: `TypeCorrect`, `EvidenceSettled`
(`EvidenceIsSettled`), `ThreatsStayOut` (`AcknowledgedThreatIsOut`) and
`HistoryIsFinal`: no step reopens a closed requirement, rewrites its evidence and
decision or revives a failed attempt.  The invariant adds that rounds follow one
another and only the last is open, that a current file is an attempt at its
requirement, and that storage, queue and recovery know of attempts only: without it a
verdict could be acknowledged before there is anything to fail.  All of
finalization, from the worker or from recovery, passes through one lemma
(`FinalizedShape`).  Of the readers, `VerificationProgresses` (`VerificationCanProgress`)
and `DocumentOffersAreHonest` (`DocumentsOfferedAreAccepted`): what is offered is what the
guards of the commands accept, and four readers say the same of a requirement.  Beside
the invariant they need that only published evidence is AVAILABLE
(`AvailableIsPublished`), since the readers look at the state of the file and the
commands at its publication.

`SessionsProofs` proves for any number of sessions, reset tokens and sockets:
`TypeCorrect`, `PasswordProved` (`SessionsProveThePassword`), `RevokedNeverHears`
(`RevokedHearsNothing`) and `EndIsFinal`.  The invariant says that a grant
carries the version its login read and stands beside its row until a logout, so
that a row that was written back has no grant, and that a session at an end when a
publication began is neither valid again nor among those sent to until it is over.

`CorrespondenceProofs` proves for any number of transactions, messages and
notifications, any retention and any size of a page: `TypeCorrect`, `StaleAreTold`
(`StaleClientsAreTold`) and `ReadIsEarlier` (`OnlyEarlierIsRead`).  A view changes with the
application, and then the event reaches both sides whatever they may see
(`LifecycleTells`); by a write, which has an event of its own; or by the passing of
time.  For the last the invariant `TellsInv` adds `Covered`: the bell of a client asks
again by the time the first of its notifications expires, or has been told to fetch.
An event that is taken from the outbox made its clients fetch all it hinted at, and
what else it stood for is still announced (`StillTold`).  `ReadIsEarlier` needs
`NumbersIssued`, since a row that is read now is told from one that is new by its
number, and `SoughtListed`: what a request has found was listed, and stays so until
it is answered.  The property asks for `listed`, or for a date no later than the bell:
what mark-all takes along is in section 6.

`ListingProofs` proves of the images, for any finite set of them and any uploads,
removals and reorderings, interleaved statement by statement: `TypeCorrect`,
`GalleryConsistent` (`GalleryIsConsistent`) and `AssetsFollow`
(`AssetsFollowRows`).  The first holds whatever answers are lost, the second but for the
images of the requests that lost theirs (`unsure`).  Two parts of the invariant carry it.  The database's: two
versions that may both come to stand never share a position, whoever holds them
(`VersionsFit`).  The request's: a reordering that has applied its first 2n
statements up to `step` holds the locks of those rows and has each in its place
(`ArrangementFits`), so that its commit is a gallery; a removal's image is gone for
good, hence `RemovalFits`.  One lemma shows that a request leaves the others' parts
alone (`OthersFit`), and the steps then concern one request each.  That the orders
the code sorts by exist at all is `SortedOrderExists` (the rank of an image is the
number of those before it).

`ListingProofs` also has the functions behind search and order.  A cursor's condition is
the order of the results (`CursorFollowsOrder`), and a page and what its cursor leads to
are together what was found, without an overlap (`PagesJoin`, while the results stay as
they are).  A
move keeps the others in their order (`MoveKeepsTheOthers`); after none of the 2n
updates do two listings share a display order, which the unique index would refuse at
once (`UpdatesNeverCollide`; one pass of updates would not do).

The theorems about a module rest on the `ASSUME`s of that module and on nothing else.
They say what the constants are: sets that are disjoint from NULL-like values, finite
where the code counts, windows and bounds that are numbers, an image of its own for
every upload (its row is inserted with a new id).  Every one is evaluated by a run.

Only model-checked are the liveness properties `Settles`, `OverdueIsSettled`,
`AttemptsEnd` and `RevokedIsDisconnected`: they rest on fairness, which is beyond the
prover.  So is ENABLED, hence the four properties that compare an offer with what is
possible (`OfferedIsAccepted`, `OffersAreHonoured`, `DocumentsOfferedAreAccepted`,
`VerificationCanProgress`) speak of the guards `May...`, which the actions have as
conjuncts.  That an action is possible whenever its guard holds can be read off it, where
all else is assignments; it is not a theorem.  Where an action asks for a date besides,
the guard is what the command accepts when the date fits, and the bounds of the runs
(`MaxRevision` and the like) are no part of it.

## 6. What the models brought to light

Behaviour of the code that surprises, or that a document describes otherwise.  The
properties above are stated so that they hold of the code as it is; each of these is
what they leave room for.

* DO_NOT_CONTINUE after the provider has closed the calendar of a further offer:
  `closeWithinTransaction` returns early (`viewing-lifecycle.service.ts:44`), the
  application is rejected and the consideration keeps its old value, although
  docs/viewing-workflow-lifecycle.md:37 speaks of one revision that persists both.
* Nor does that early return move the revision when an applicant denies interest after
  the calendar was closed and the application is withdrawn, although
  docs/viewing-workflow-lifecycle.md:21 has every lifecycle transition increment it
  "even if its calendar flow was already closed".  A command on a page from before
  still passes the check of the revision (recording the outcome of an earlier round,
  which needs no open process): `SameButDenied`.
* The same early return leaves the snapshot of the older viewings as it was when a
  listing is unpublished a second time, and an interest from before can be answered
  after publication (docs/viewing-workflow-lifecycle.md:55 and the comment at
  `application-viewing.policy.ts:45-47` exclude it).  After a rejection it cannot:
  `EndedInterestStaysClosed`.
* A started visit of an application that was rejected and then restored to WAITING
  is OUTCOME_PENDING, but the provider no longer sees the application and cannot
  record the outcome (docs/application-viewings.md:9).
* The older list offers an interest that the operation refuses after rejection and
  restoration, and names no RECORD_OUTCOME for an OUTCOME_PENDING row, which the
  summary does; the summary offers no proposal beside such a row, although one
  would be accepted.
* An offer that is pending beside a request for interest which has expired turns EXPIRED
  at its own deadline, and no `nextRevalidateAt` announces that: the deadline is a
  boundary only while the negotiation is active (`viewing-workflow-projection.ts:425`),
  although docs/viewing-workflow-read-models.md:31 lists the proposal deadline among
  the boundaries.  Nothing can be done with the offer by then.
* A command that was refused leaves no receipt: sent again, after the process has
  been resumed at the same revision, it may succeed.
* `attempt_count` counts claims: a row of a batch whose lease runs out has used up
  an attempt unpublished (docs/outbox-foundation.md:27: "Publish attempts").
* Recent exits leave an exit out when two transitions fall into one instant and the
  wrong one sorts last, or when a row from before the history has lost its
  `activeAt` by a restoration (`Unreliable`).
* After a threat is found in published evidence the request reads UPLOAD_REQUIRED,
  but nobody may upload: only a replacement by the provider leads on, and no menu
  asks for one.
* A socket in admission is missed by the disconnection of a logout or reset and
  closed by the sweep only (docs/realtime-security.md says immediately); it is
  delivered nothing.  Two requests for a password reset at once can leave two live
  tokens.
* `markAllRead` marks what was created before the bell was asked for.  `createdAt` is
  the time a transaction began: one that committed after the bell was answered is marked
  although no client has listed it, where docs/viewing-workflow-notifications.md:50 has
  newer notifications stay unread.  Hence the second alternative of `NewerStaysUnread`;
  without it, `MarkAllRead` breaks the property.  A notification hidden and shown
  again between the statements of its read is answered with `readAt` null.
* A removal or reordering computed before the commit of an upload writes `photos`
  without the new image (docs/api.md:267 has it in sync), and an upload that races
  the removal of the only image can leave a gallery that begins at position 1 without
  a cover, until the next removal or reordering.
* When a commit on images takes effect and its answer is lost, `upload` destroys the asset of
  the image it has just added (`listing-images.service.ts:72-82`), which is shown without
  it from then on, and `remove` ends before it deletes the asset, unlogged
  (`listing-images.service.ts:115-127`).  Nothing looks again.  An asset that is stored
  while the upload to Cloudinary is reported to have failed is left likewise.
  `AssetsFollowRows` excepts those images (`unsure`) and no others.  It speaks of requests
  that end: a process that dies between two steps of one leaves its asset, too.
* In the search of applicants `total` is counted behind the cursor and shrinks from
  page to page; `toBerlinMidnight` is 22 hours UTC in winter too; a listing whose
  price changes while somebody pages may be met twice or never.

## 7. Not modelled

Components marked `not_modelled` in PROJECT.json, each with its reason.  Chiefly:
parsing and validation of requests, the mail and Cloudinary clients, generated code,
the external language model, workspaces and memberships (persistence commands
without a caller yet, guarded by triggers), saved listings and reports (single-row
upserts), and of the read models their pages and the composition of their answers.
PostgreSQL's Serializable isolation is assumed, not modelled; where the code runs
under read committed, the statements are steps.

------------------------------- MODULE Outbox -------------------------------
(***************************************************************************)
(* The transactional outbox of src/outbox: rows written with the domain    *)
(* change, claimed in batches under a lease by the polling dispatchers,    *)
(* published, and marked dispatched, rescheduled or quiesced.              *)
(*                                                                         *)
(* Every statement against the table is an atomic step of its own, so the  *)
(* loop of dispatchOnce() interleaves with other dispatchers, with crashes *)
(* and with time.  The columns next_attempt_at and claimed_until are kept  *)
(* as the time left until they pass.  Attempts are counted up to           *)
(* MaxAttempts, the greatest value the code tells apart.                   *)
(***************************************************************************)
EXTENDS Integers, FiniteSets

CONSTANTS
  Events,       \* rows of outbox_events, numbered in the order of created_at
  Dispatchers,
  NoOne,        \* claim_token NULL
  BatchSize,
  MaxAttempts,
  Lease,        \* leaseMs, in ticks
  Deadline,     \* longest publication in ticks (REALTIME_OPERATION_TIMEOUT_MS)
  Backoff,      \* delay after the n-th failed attempt: [1..MaxAttempts -> ticks]
  MaxFaults     \* bound on crashes and failed statements

ASSUME EventsAssumption == Events \subseteq Nat /\ IsFiniteSet(Events) /\ NoOne \notin Dispatchers
ASSUME ConfigAssumption ==
  /\ BatchSize \in Nat \ {0} /\ MaxAttempts \in Nat \ {0}
  /\ Lease \in Nat \ {0} /\ Deadline \in Nat /\ MaxFaults \in Nat
  /\ Backoff \in [1..MaxAttempts -> Nat \ {0}]

VARIABLES
  state,      \* of each row: "none", "pending", "dispatched" or "deleted"
  attempts,   \* attempt_count
  due,        \* time until next_attempt_at; Quiesced for the year 2099
  token,      \* claim_token: who claimed the row last
  lease,      \* time until claimed_until; negative once it has passed, or NULL
  pc,         \* of each dispatcher: "idle", "loop", "publish", "mark" or "release"
  batch,      \* its claimed rows not yet published
  event,      \* the row it is working on
  left,       \* time until leaseUntil
  spent,      \* time since it began to publish
  faults,
  emitted,    \* history: rows whose publication once completed
  tried       \* history: publications begun for each row

rows == <<state, attempts, due, token, lease>>
loops == <<pc, batch, event, left, spent>>
vars == <<rows, loops, faults, emitted, tried>>

Quiesced == -1
Unclaimed == -1

-----------------------------------------------------------------------------
Init ==
  /\ state = [e \in Events |-> "none"]
  /\ attempts = [e \in Events |-> 0]
  /\ due = [e \in Events |-> 0]
  /\ token = [e \in Events |-> NoOne]
  /\ lease = [e \in Events |-> Unclaimed]
  /\ pc = [d \in Dispatchers |-> "idle"]
  /\ batch = [d \in Dispatchers |-> {}]
  /\ event = [d \in Dispatchers |-> 0]
  /\ left = [d \in Dispatchers |-> 0]
  /\ spent = [d \in Dispatchers |-> 0]
  /\ faults = 0
  /\ emitted = {}
  /\ tried = [e \in Events |-> 0]

AtMostMaxAttempts(n) == IF n < MaxAttempts THEN n ELSE MaxAttempts

\* append(): the row commits with its domain change; created_at is the start
\* of that transaction, so rows need not appear in its order.
Append(e) ==
  /\ state[e] = "none"
  /\ state' = [state EXCEPT ![e] = "pending"]
  /\ UNCHANGED <<attempts, due, token, lease, loops, faults, emitted, tried>>

(***************************************************************************)
(* claimBatch(): the oldest rows that are due and under no lease.          *)
(***************************************************************************)
Claimable == {e \in Events : state[e] = "pending" /\ due[e] = 0 /\ lease[e] < 0}

Oldest(S) == {e \in S : Cardinality({f \in S : f < e}) < BatchSize}

Claim(d) ==
  LET claimed == Oldest(Claimable)
  IN  /\ pc[d] = "idle"
      /\ claimed # {}
      /\ attempts' = [e \in Events |-> IF e \in claimed THEN AtMostMaxAttempts(attempts[e] + 1)
                                       ELSE attempts[e]]
      /\ token' = [e \in Events |-> IF e \in claimed THEN d ELSE token[e]]
      /\ lease' = [e \in Events |-> IF e \in claimed THEN Lease ELSE lease[e]]
      /\ pc' = [pc EXCEPT ![d] = "loop"]
      /\ batch' = [batch EXCEPT ![d] = claimed]
      /\ left' = [left EXCEPT ![d] = Lease]
      /\ UNCHANGED <<state, due, event, spent, faults, emitted, tried>>

(***************************************************************************)
(* dispatchOnce(): rows are published in the order the claim returned      *)
(* them, which is unspecified; the lease is looked at before each.         *)
(***************************************************************************)
Begin(d) ==
  /\ pc[d] = "loop" /\ left[d] > 0
  /\ \E e \in batch[d] :
       /\ event' = [event EXCEPT ![d] = e]
       /\ batch' = [batch EXCEPT ![d] = @ \ {e}]
       /\ tried' = [tried EXCEPT ![e] = AtMostMaxAttempts(@ + 1)]
  /\ pc' = [pc EXCEPT ![d] = "publish"]
  /\ spent' = [spent EXCEPT ![d] = 0]
  /\ UNCHANGED <<rows, left, faults, emitted>>

\* The poll is over; what is left of its batch stays claimed.
PollEnds(d) ==
  /\ pc' = [pc EXCEPT ![d] = "idle"]
  /\ batch' = [batch EXCEPT ![d] = {}]
  /\ left' = [left EXCEPT ![d] = 0]
  /\ UNCHANGED <<rows, event, spent, emitted, tried>>

\* The batch is done, or its lease over.
Break(d) ==
  /\ pc[d] = "loop" /\ (left[d] = 0 \/ batch[d] = {})
  /\ PollEnds(d)
  /\ UNCHANGED faults

\* publish() completes; it may also reject, also after reaching some recipients.
Published(d) ==
  /\ pc[d] = "publish"
  /\ pc' = [pc EXCEPT ![d] = "mark"]
  /\ emitted' = emitted \cup {event[d]}
  /\ UNCHANGED <<rows, batch, event, left, spent, faults, tried>>

Refused(d) ==
  /\ pc[d] = "publish"
  /\ pc' = [pc EXCEPT ![d] = "release"]
  /\ UNCHANGED <<rows, batch, event, left, spent, faults, emitted, tried>>

\* The where clause of both updates: the claim is still this dispatcher's.
Holds(d, e) == token[e] = d /\ state[e] = "pending"

\* markDispatched(); an update of no row is logged and ignored.
Mark(d) ==
  LET e == event[d]
  IN  /\ pc[d] = "mark"
      /\ \/ /\ Holds(d, e)
            /\ state' = [state EXCEPT ![e] = "dispatched"]
            /\ token' = [token EXCEPT ![e] = NoOne]
            /\ lease' = [lease EXCEPT ![e] = Unclaimed]
         \/ ~Holds(d, e) /\ UNCHANGED <<state, token, lease>>
      /\ pc' = [pc EXCEPT ![d] = "loop"]
      /\ UNCHANGED <<attempts, due, batch, event, left, spent, faults, emitted, tried>>

\* Mutated form of Retry: the attempts are not counted.
RetryForever(e) == Backoff[attempts[e]]

\* nextAttemptAt after a failure; attemptCount is the claim's.
Retry(e) == IF attempts[e] >= MaxAttempts THEN Quiesced ELSE Backoff[attempts[e]]

\* Mutated form of Release: the claim token is not compared.
ReleaseUnheld(d) ==
  LET e == event[d]
  IN  /\ pc[d] = "release"
      /\ \/ /\ state[e] = "pending"
            /\ due' = [due EXCEPT ![e] = Retry(e)]
            /\ token' = [token EXCEPT ![e] = NoOne]
            /\ lease' = [lease EXCEPT ![e] = Unclaimed]
         \/ state[e] # "pending" /\ UNCHANGED <<due, token, lease>>
      /\ pc' = [pc EXCEPT ![d] = "loop"]
      /\ UNCHANGED <<state, attempts, batch, event, left, spent, faults, emitted, tried>>

\* releaseAfterFailure()
Release(d) ==
  LET e == event[d]
  IN  /\ pc[d] = "release"
      /\ \/ /\ Holds(d, e)
            /\ due' = [due EXCEPT ![e] = Retry(e)]
            /\ token' = [token EXCEPT ![e] = NoOne]
            /\ lease' = [lease EXCEPT ![e] = Unclaimed]
         \/ ~Holds(d, e) /\ UNCHANGED <<due, token, lease>>
      /\ pc' = [pc EXCEPT ![d] = "loop"]
      /\ UNCHANGED <<state, attempts, batch, event, left, spent, faults, emitted, tried>>

(***************************************************************************)
(* Faults.  markDispatched() rejecting is handled like publish() rejecting; *)
(* releaseAfterFailure() rejecting ends the poll.                          *)
(***************************************************************************)
Fault == faults < MaxFaults /\ faults' = faults + 1

MarkFails(d) ==
  /\ Fault
  /\ pc[d] = "mark"
  /\ pc' = [pc EXCEPT ![d] = "release"]
  /\ UNCHANGED <<rows, batch, event, left, spent, emitted, tried>>

\* The poll ends: releaseAfterFailure() rejects, or the process stops and restarts.
Abandon(d) ==
  /\ Fault
  /\ pc[d] # "idle"
  /\ PollEnds(d)

-----------------------------------------------------------------------------
\* Mutated form of Retain: quiesced rows are taken for done.
RetainPendingOnly(e) ==
  /\ state[e] = "dispatched" \/ (state[e] = "pending" /\ due[e] = Quiesced)
  /\ state' = [state EXCEPT ![e] = "deleted"]
  /\ UNCHANGED <<attempts, due, token, lease, loops, faults, emitted, tried>>

\* deleteDispatchedOlderThan(), at any age
Retain(e) ==
  /\ state[e] = "dispatched"
  /\ state' = [state EXCEPT ![e] = "deleted"]
  /\ UNCHANGED <<attempts, due, token, lease, loops, faults, emitted, tried>>

\* Statements take no time that counts, a claimed batch is begun at once and a
\* publication never outlasts its deadline.
TimeMayPass ==
  \A d \in Dispatchers :
    /\ pc[d] \notin {"mark", "release"}
    /\ pc[d] = "loop" => left[d] < Lease
    /\ pc[d] = "publish" => spent[d] < Deadline

Tick ==
  /\ TimeMayPass
  /\ due' = [e \in Events |-> IF due[e] > 0 THEN due[e] - 1 ELSE due[e]]
  /\ lease' = [e \in Events |-> IF lease[e] >= 0 THEN lease[e] - 1 ELSE lease[e]]
  /\ left' = [d \in Dispatchers |-> IF left[d] > 0 THEN left[d] - 1 ELSE 0]
  /\ spent' = [d \in Dispatchers |-> IF pc[d] = "publish" THEN spent[d] + 1 ELSE spent[d]]
  /\ UNCHANGED <<state, attempts, token, pc, batch, event, faults, emitted, tried>>

Dispatch(d) ==
  \/ Claim(d) \/ Begin(d) \/ Break(d) \/ Published(d) \/ Refused(d) \/ Mark(d) \/ Release(d)

Next ==
  \/ \E e \in Events : Append(e) \/ Retain(e)
  \/ \E d \in Dispatchers : Dispatch(d) \/ MarkFails(d) \/ Abandon(d)
  \/ Tick

Spec == Init /\ [][Next]_vars

\* The poll loop always schedules itself again, and time goes on.
FairSpec == Spec /\ WF_vars(Tick) /\ \A d \in Dispatchers : WF_vars(Dispatch(d))

-----------------------------------------------------------------------------
\* Every variable has its type; a dispatcher has a claimed row at hand when it
\* is past the loop's head.
TypeOK ==
  /\ state \in [Events -> {"none", "pending", "dispatched", "deleted"}]
  /\ attempts \in [Events -> 0..MaxAttempts]
  /\ due \in [Events -> Nat \cup {Quiesced}]
  /\ token \in [Events -> Dispatchers \cup {NoOne}]
  /\ lease \in [Events -> Unclaimed..Lease]
  /\ pc \in [Dispatchers -> {"idle", "loop", "publish", "mark", "release"}]
  /\ batch \in [Dispatchers -> SUBSET Events]
  /\ event \in [Dispatchers -> Events \cup {0}]
  /\ left \in [Dispatchers -> 0..Lease]
  /\ spent \in [Dispatchers -> Nat]
  /\ faults \in 0..MaxFaults
  /\ emitted \subseteq Events
  /\ tried \in [Events -> 0..MaxAttempts]

\* No event is lost: a row is marked dispatched, and a row is deleted, only
\* after a publication of that row completed.
OnlyPublishedIsDropped ==
  \A e \in Events : state[e] \in {"dispatched", "deleted"} => e \in emitted

\* A publication begins only for a row that is pending and claimed by the
\* publisher at that moment, so never for one that another dispatcher has
\* meanwhile claimed again or dispatched.
PublishesUnderClaim ==
  [][\A d \in Dispatchers :
       pc[d] = "loop" /\ pc'[d] = "publish" => Holds(d, event'[d])]_vars

\* While a lease runs nobody but its holder touches the row: a slow dispatcher
\* that comes back neither marks nor reschedules what others have claimed.
LeaseIsRespected ==
  [][\A e \in Events, d \in Dispatchers :
       /\ token[e] = d /\ lease[e] >= 0
       /\ state'[e] # state[e] \/ due'[e] # due[e] \/ token'[e] # token[e]
       => pc[d] \in {"mark", "release"} /\ pc'[d] = "loop" /\ event[d] = e]_vars

\* Every event is in the end dispatched, or quiesced for an operator to look at,
\* also when dispatchers crash and statements fail now and then.
Settles ==
  \A e \in Events :
    state[e] = "pending" ~> state[e] \in {"dispatched", "deleted"} \/ due[e] = Quiesced

=============================================================================

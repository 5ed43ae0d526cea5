------------------------ MODULE ViewingExpirySweep ------------------------
(***************************************************************************)
(* The sweep of ViewingWorkflowExpiryService over all overdue offers and   *)
(* interest requests, as one replica runs it: batch after batch along a    *)
(* cursor ordered by deadline, up to a horizon fixed when the sweep began. *)
(* What an expiry does to its workflow is ViewingWorkflow's ExpireOffer    *)
(* and ExpireInterest; here a target is settled or it is not.  Commands,   *)
(* closures and the other replicas settle targets at any time.             *)
(***************************************************************************)
EXTENDS Integers, FiniteSets

CONSTANTS
  ProposalIds,  \* identities of offers, in their order
  ViewingIds,   \* identities of viewings: one may be that of an offer as well
  BatchSize,    \* VIEWING_EXPIRY_BATCH_SIZE
  MaxClock,     \* bound on the clock and on deadlines
  MaxPoisoned,  \* bound on the targets whose expiry always fails
  MaxFaults     \* bound on passing failures and restarts

ASSUME SweepAssumption ==
  /\ ProposalIds \cup ViewingIds \subseteq Nat /\ IsFiniteSet(ProposalIds \cup ViewingIds)
  /\ BatchSize \in Nat \ {0}
  /\ {MaxClock, MaxPoisoned, MaxFaults} \subseteq Nat

VARIABLES
  clock,        \* ViewingClock.now()
  due,          \* the deadline of each target that has been pending
  pending,      \* the targets that are pending
  poisoned,     \* the targets whose expiry always fails
  sweepBefore,  \* the horizon of the sweep
  after,        \* the cursor
  pc,           \* where processBatch() stands
  proposals,    \* what the first of its two queries found
  targets,      \* the batch
  left,         \* what of it is still to be processed
  faults,       \* failures so far
  owed,         \* ghost: due when the sweep began, neither tried nor settled since
  tried         \* ghost: tried in this sweep

store == <<clock, due, pending, poisoned>>
ghosts == <<owed, tried>>
vars == <<store, sweepBefore, after, pc, proposals, targets, left, faults, ghosts>>

-----------------------------------------------------------------------------
Targets == ({"proposal"} \X ProposalIds) \cup ({"interest"} \X ViewingIds)

NoDate == 0

NoTarget == <<"none", 0>>

Kind(t) == t[1]

Id(t) == t[2]

\* The order of a batch: deadline, identity, and "interest" before "proposal".
Precedes(t, u) ==
  \/ due[t] < due[u]
  \/ due[t] = due[u] /\ Id(t) < Id(u)
  \/ due[t] = due[u] /\ Id(t) = Id(u) /\ Kind(t) = "interest" /\ Kind(u) = "proposal"

\* The first BatchSize targets of S.
First(S) == {t \in S : Cardinality({u \in S : Precedes(u, t)}) < BatchSize}

Last(S) == CHOOSE t \in S : \A u \in S : u = t \/ Precedes(u, t)

\* Mutated form of IsAfter: a target with the identity of the last one is passed over.
IsAfterId(t) ==
  \/ after = NoTarget
  \/ due[t] > due[after]
  \/ due[t] = due[after] /\ Id(t) > Id(after)

\* The queries' condition on the cursor; an offer follows the viewing of its identity.
IsAfter(t) ==
  \/ after = NoTarget
  \/ due[t] > due[after]
  \/ due[t] = due[after] /\ Id(t) > Id(after)
  \/ due[t] = due[after] /\ Id(t) = Id(after) /\ Kind(t) = "proposal" /\ Kind(after) = "interest"

\* What a query for one kind returns.
Found(kind) ==
  First({t \in pending : Kind(t) = kind /\ due[t] <= sweepBefore /\ IsAfter(t)})

DueBy(date) == {t \in pending : due[t] <= date}

-----------------------------------------------------------------------------
Init ==
  /\ clock = 1
  /\ due = [t \in Targets |-> NoDate]
  /\ pending = {}
  /\ poisoned \in {S \in SUBSET Targets : Cardinality(S) <= MaxPoisoned}
  /\ sweepBefore = NoDate /\ after = NoTarget
  /\ pc = "idle" /\ proposals = {} /\ targets = {} /\ left = {}
  /\ faults = 0
  /\ owed = {} /\ tried = {}

\* An offer is made or an interest requested, with a deadline in the future.
Arise(t) ==
  /\ due[t] = NoDate
  /\ \E date \in (clock + 1)..MaxClock : due' = [due EXCEPT ![t] = date]
  /\ pending' = pending \cup {t}
  /\ UNCHANGED <<clock, poisoned, sweepBefore, after, pc, proposals, targets, left, faults, ghosts>>

\* A command, a closure or another replica settles it.
Settle(t) ==
  /\ t \in pending
  /\ pending' = pending \ {t}
  /\ owed' = owed \ {t}
  /\ UNCHANGED <<clock, due, poisoned, sweepBefore, after, pc, proposals, targets, left, faults, tried>>

Tick ==
  /\ clock < MaxClock
  /\ clock' = clock + 1
  /\ UNCHANGED <<due, pending, poisoned, sweepBefore, after, pc, proposals, targets, left, faults, ghosts>>

-----------------------------------------------------------------------------
\* The horizon of a sweep is fixed by its first call of candidates().
Horizon ==
  IF sweepBefore = NoDate
  THEN sweepBefore' = clock /\ owed' = DueBy(clock) /\ tried' = {}
  ELSE UNCHANGED <<sweepBefore, ghosts>>

\* The timer of the scheduler runs runOnce(); its calls never overlap.
Poll ==
  /\ pc = "idle"
  /\ Horizon
  /\ pc' = "proposals"
  /\ UNCHANGED <<store, after, proposals, targets, left, faults>>

ReadProposals ==
  /\ pc = "proposals"
  /\ proposals' = Found("proposal")
  /\ pc' = "interests"
  /\ UNCHANGED <<store, sweepBefore, after, targets, left, faults, ghosts>>

\* The second query, and the two lists merged and cut.
Candidates == First(proposals \cup Found("interest"))

ReadInterests ==
  /\ pc = "interests"
  /\ Candidates # {} \/ after = NoTarget
  /\ targets' = Candidates /\ left' = Candidates
  /\ proposals' = {}
  /\ pc' = "process"
  /\ UNCHANGED <<store, sweepBefore, after, faults, ghosts>>

\* Nothing is left behind the cursor: the next sweep begins at once.
Wrap ==
  /\ pc = "interests"
  /\ Candidates = {} /\ after # NoTarget
  /\ after' = NoTarget
  /\ sweepBefore' = clock /\ owed' = DueBy(clock) /\ tried' = {}
  /\ proposals' = {}
  /\ pc' = "proposals"
  /\ UNCHANGED <<store, targets, left, faults>>

\* processTarget() of the next target: one that is still pending expires, for its
\* deadline was before the horizon; an error is logged and passed over.
Process(t) ==
  /\ pc = "process"
  /\ t \in left /\ \A u \in left : u = t \/ Precedes(t, u)
  /\ \/ /\ t \notin poisoned
        /\ pending' = pending \ {t} /\ UNCHANGED faults
     \/ /\ t \in poisoned
        /\ UNCHANGED <<pending, faults>>
     \/ /\ t \notin poisoned /\ faults < MaxFaults
        /\ faults' = faults + 1 /\ UNCHANGED pending
  /\ left' = left \ {t}
  /\ owed' = owed \ {t} /\ tried' = tried \cup {t}
  /\ UNCHANGED <<clock, due, poisoned, sweepBefore, after, pc, proposals, targets>>

\* Mutated form of Finish: a failed target holds the cursor.
FinishAtFailure ==
  /\ pc = "process" /\ left = {}
  /\ LET settled == targets \ pending
     IN  after' = IF Cardinality(targets) < BatchSize \/ settled = {} THEN after ELSE Last(settled)
  /\ sweepBefore' = IF Cardinality(targets) < BatchSize THEN NoDate ELSE sweepBefore
  /\ pc' = "idle" /\ targets' = {}
  /\ UNCHANGED <<store, proposals, left, faults, ghosts>>

\* Failed and stale targets advance the cursor as well; a short batch ends the sweep.
Finish ==
  /\ pc = "process" /\ left = {}
  /\ IF Cardinality(targets) < BatchSize
     THEN after' = NoTarget /\ sweepBefore' = NoDate
     ELSE after' = Last(targets) /\ UNCHANGED sweepBefore
  /\ pc' = "idle" /\ targets' = {}
  /\ UNCHANGED <<store, proposals, left, faults, ghosts>>

\* A query fails: the poll is given up, the cursor and the horizon stay.
PollFails ==
  /\ pc \in {"proposals", "interests"}
  /\ faults < MaxFaults
  /\ faults' = faults + 1
  /\ pc' = "idle" /\ proposals' = {}
  /\ UNCHANGED <<store, sweepBefore, after, targets, left, ghosts>>

\* The replica restarts: its cursor and its horizon are gone.
Restart ==
  /\ faults < MaxFaults
  /\ faults' = faults + 1
  /\ sweepBefore' = NoDate /\ after' = NoTarget
  /\ pc' = "idle" /\ proposals' = {} /\ targets' = {} /\ left' = {}
  /\ owed' = {} /\ tried' = {}
  /\ UNCHANGED store

Sweep ==
  \/ Poll \/ ReadProposals \/ ReadInterests \/ Wrap \/ Finish
  \/ \E t \in Targets : Process(t)

Next ==
  \/ Sweep \/ PollFails \/ Restart \/ Tick
  \/ \E t \in Targets : Arise(t) \/ Settle(t)

Spec == Init /\ [][Next]_vars

\* tick() schedules the next poll in its finally block.
FairSpec == Spec /\ WF_vars(Sweep)

-----------------------------------------------------------------------------
(***************************************************************************)
(* Properties.                                                             *)
(***************************************************************************)
\* What was due when a sweep began has been tried or settled when it ends, whatever
\* fails, is settled or arises meanwhile: nothing is passed over by the cursor.
CoversHorizon ==
  /\ \/ sweepBefore # NoDate /\ sweepBefore' # sweepBefore
     \/ after # NoTarget /\ after' = NoTarget
  /\ faults' = faults
  => owed = {}

\* It tries nothing twice and nothing that was not due at its horizon: it ends,
\* however many deadlines pass and expiries fail meanwhile.
TriesOnce ==
  pc = "process" /\ pc' = "process" =>
    \A t \in left \ left' : t \notin tried /\ due[t] <= sweepBefore

\* One sweep tries each target that was due when it began exactly once.
SweepTriesEachOnce == [][CoversHorizon /\ TriesOnce]_vars

\* What is overdue is settled in the end, unless its own expiry always fails: the
\* failures of others do not keep the sweep from it.
OverdueIsSettled ==
  \A t \in Targets :
    (t \in pending /\ clock >= due[t] /\ t \notin poisoned) ~> t \notin pending
===========================================================================

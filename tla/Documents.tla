----------------------------- MODULE Documents -----------------------------
(***************************************************************************)
(* The documents of one application: the provider's requirements in their  *)
(* rounds, the applicant's upload attempts, the objects in storage with    *)
(* the scanner's tags and verdicts, the worker that finalizes attempts     *)
(* from queue deliveries and from its recovery pass, and the provider's    *)
(* decisions.  API uploads, deliveries and the recovery pass are tasks of  *)
(* several steps that interleave; what is one transaction is one step.     *)
(* Storage, scanner and queue are external.                                *)
(***************************************************************************)
EXTENDS Integers, FiniteSets

CONSTANTS
  Identities,         \* (subject, definition) pairs that can be required
  Outcomes,           \* the decisions a provider takes
  MaxRound,           \* bound on the rounds of an identity
  Files,              \* identities of attempts
  NoFile,             \* the absence of an attempt
  Slots,              \* deliveries the worker handles at once
  BatchSize,          \* attempts inspected by one recovery pass
  RecoveryDelay,      \* recoveryDelayMs
  ProcessingTimeout,  \* processingTimeoutMs
  Backoff,            \* the minute between two inspections of an attempt
  MaxClock,           \* bound on the clock
  MaxScans,           \* bound on the scans
  MaxFaults           \* bound on failed transactions, crashes and restarts

ASSUME DocumentsAssumption ==
  /\ Outcomes \subseteq {"SATISFIED", "NOT_SATISFIED", "WAIVED"} /\ Outcomes # {}
  /\ IsFiniteSet(Files) /\ NoFile \notin Files
  /\ {MaxRound, RecoveryDelay, ProcessingTimeout, Backoff, BatchSize, MaxClock} \subseteq Nat \ {0}
  /\ {MaxScans, MaxFaults} \subseteq Nat

VARIABLES
  clock,        \* Date.now()
  mutable,      \* applicationProcessAllowsMutation(): active, published or paused
  scope,        \* verificationScopeRevision
  requirement,  \* application_document_requests
  decision,     \* the newest verification_decision of each requirement
  file,         \* application_document_files
  upload,       \* the API's task of each attempt
  object,       \* the stored object of each attempt and its tag
  scan,         \* the result of the last scan, until it is tagged
  scans,        \* how many scans there were
  queue,        \* verdicts waiting for the worker
  acknowledged, \* verdicts the worker has deleted from the queue
  delivery,     \* the deliveries in hand
  recovery,     \* the recovery pass
  faults

requirements == <<scope, requirement, decision>>
external == <<object, scan, scans>>
worker == <<queue, acknowledged, delivery, recovery>>
vars == <<clock, mutable, requirements, file, upload, external, worker, faults>>

-----------------------------------------------------------------------------
Requirements == Identities \X (1..MaxRound)

NoRequest == <<"none", 0>>

Clean == "NO_THREATS_FOUND"

NoVerdict == "none"

NotFetched == "none"

NoDecision == [outcome |-> "none", evidence |-> NoFile]

Unused ==
  [request |-> NoRequest, state |-> "UNUSED", recorded |-> FALSE, published |-> FALSE,
   reviewed |-> FALSE, verdict |-> NoVerdict, recoverAfter |-> 0, expiresAt |-> 0]

Absent == [state |-> "ABSENT", current |-> NoFile, created |-> 0, closed |-> 0]

Open(revision) == [state |-> "OPEN", current |-> NoFile, created |-> revision, closed |-> 0]

IsOpen(q) == requirement[q].state = "OPEN"

Current(q) == requirement[q].current

\* The state of the current file; "none" without one.
CurrentState(q) == IF Current(q) = NoFile THEN "none" ELSE file[Current(q)].state

\* The number of rounds of an identity, the newest being the last.
Last(i) == Cardinality({n \in 1..MaxRound : requirement[<<i, n>>].state # "ABSENT"})

WasPublished(q) == Current(q) # NoFile /\ file[Current(q)].published

UploadAllowed(q) == CurrentState(q) = "none" \/ (CurrentState(q) = "FAILED" /\ ~WasPublished(q))

ReplacementAllowed(q) == WasPublished(q) /\ CurrentState(q) # "PROCESSING"

IdleDelivery == [stage |-> "idle", file |-> NoFile, verdict |-> NoVerdict, evidence |-> NotFetched]

IdleRecovery == [batch |-> {}, known |-> {}, file |-> NoFile, evidence |-> NotFetched]

Earlier(n) == IF clock + n < MaxClock THEN clock + n ELSE MaxClock

-----------------------------------------------------------------------------
Init ==
  /\ clock = 0 /\ mutable = TRUE
  /\ scope = 0
  /\ requirement = [q \in Requirements |-> Absent]
  /\ decision = [q \in Requirements |-> NoDecision]
  /\ file = [f \in Files |-> Unused]
  /\ upload = [f \in Files |-> "idle"]
  /\ object = [f \in Files |-> "absent"]
  /\ scan = [f \in Files |-> NoVerdict]
  /\ scans = 0
  /\ queue = {} /\ acknowledged = {}
  /\ delivery = [s \in Slots |-> IdleDelivery]
  /\ recovery = IdleRecovery
  /\ faults = 0

-----------------------------------------------------------------------------
(***************************************************************************)
(* Commands of the provider.  May... is what a command asks before it does *)
(* anything; what else an action asks are bounds.                          *)
(***************************************************************************)
MayRequest(batch) == mutable /\ \A i \in batch : Last(i) # 0 => ~IsOpen(<<i, Last(i)>>)

\* A batch of requirements opens the next round of each, or fails as a whole.
Request(batch) ==
  /\ MayRequest(batch)
  /\ \A i \in batch : Last(i) < MaxRound
  /\ scope' = scope + 1
  /\ requirement' = [q \in Requirements |->
       IF q[1] \in batch /\ q[2] = Last(q[1]) + 1 THEN Open(scope + 1) ELSE requirement[q]]
  /\ UNCHANGED <<clock, mutable, decision, file, upload, external, worker, faults>>

\* Mutated form of EndsAttempt: the attempt is left to the worker.
LeavesAttempt(q) == file' = file

\* Closing a requirement ends an unfinished attempt and keeps published evidence.
EndsAttempt(q) ==
  file' = IF CurrentState(q) = "PROCESSING"
          THEN [file EXCEPT ![Current(q)].state = "FAILED"]
          ELSE file

\* The requirement closed in the revision of this command.
Closed(q, state) == [requirement[q] EXCEPT !.state = state, !.closed = scope + 1]

MayCancel(q) == mutable /\ IsOpen(q)

Cancel(q) ==
  /\ MayCancel(q)
  /\ scope' = scope + 1
  /\ requirement' = [requirement EXCEPT ![q] = Closed(q, "CANCELLED")]
  /\ EndsAttempt(q)
  /\ UNCHANGED <<clock, mutable, decision, upload, external, worker, faults>>

MayReplace(q) == mutable /\ IsOpen(q) /\ WasPublished(q) /\ CurrentState(q) # "PROCESSING"

\* The next round opens in the command that supersedes this one.
Replace(q) ==
  /\ MayReplace(q)
  /\ q[2] < MaxRound
  /\ scope' = scope + 1
  /\ requirement' = [requirement EXCEPT ![q] = Closed(q, "SUPERSEDED"),
                                        ![<<q[1], q[2] + 1>>] = Open(scope + 1)]
  /\ EndsAttempt(q)
  /\ UNCHANGED <<clock, mutable, decision, upload, external, worker, faults>>

\* A waiver needs no evidence; any other outcome is about the current available file.
Evidenced(q, outcome, evidence) ==
  \/ outcome = "WAIVED" /\ evidence \in {NoFile, Current(q)}
  \/ evidence # NoFile /\ evidence = Current(q) /\ CurrentState(q) = "AVAILABLE" /\ WasPublished(q)

MayDecide(q, outcome, evidence) == mutable /\ IsOpen(q) /\ Evidenced(q, outcome, evidence)

\* A decision continues the chain of its requirement.
Decide(q, outcome, evidence) ==
  /\ MayDecide(q, outcome, evidence)
  /\ decision' = [decision EXCEPT ![q] = [outcome |-> outcome, evidence |-> evidence]]
  /\ UNCHANGED <<clock, mutable, scope, requirement, file, upload, external, worker, faults>>

MayReview(q) ==
  mutable /\ IsOpen(q) /\ CurrentState(q) = "AVAILABLE" /\ ~file[Current(q)].reviewed

Review(q) ==
  /\ MayReview(q)
  /\ file' = [file EXCEPT ![Current(q)].reviewed = TRUE]
  /\ UNCHANGED <<clock, mutable, requirements, upload, external, worker, faults>>

-----------------------------------------------------------------------------
(***************************************************************************)
(* The upload of the applicant: the attempt is reserved in a transaction,  *)
(* the object written, and its version recorded.                           *)
(***************************************************************************)
MayReserve(q) == mutable /\ IsOpen(q) /\ UploadAllowed(q)

Reserve(q, f) ==
  /\ MayReserve(q)
  /\ file[f] = Unused
  /\ clock + ProcessingTimeout <= MaxClock
  /\ file' = [file EXCEPT ![f] =
       [Unused EXCEPT !.request = q, !.state = "PROCESSING",
                      !.recoverAfter = clock + RecoveryDelay, !.expiresAt = clock + ProcessingTimeout]]
  /\ requirement' = [requirement EXCEPT ![q].current = f]
  /\ upload' = [upload EXCEPT ![f] = "putting"]
  /\ UNCHANGED <<clock, mutable, scope, decision, external, worker, faults>>

\* Whatever has become of the attempt, the version of its object is recorded.
Record(f) ==
  /\ upload[f] = "putting" /\ object[f] # "absent"
  /\ file' = [file EXCEPT ![f].recorded = TRUE]
  /\ upload' = [upload EXCEPT ![f] = "done"]
  /\ UNCHANGED <<clock, mutable, requirements, external, worker, faults>>

\* The write fails, or only its answer is lost.
PutFails(f) ==
  /\ upload[f] = "putting" /\ faults < MaxFaults
  /\ faults' = faults + 1
  /\ file' = IF file[f].state = "PROCESSING" THEN [file EXCEPT ![f].state = "FAILED"] ELSE file
  /\ upload' = [upload EXCEPT ![f] = "done"]
  /\ UNCHANGED <<clock, mutable, requirements, external, worker>>

\* The API process ends, or the statement after the write fails.
ApiCrash(f) ==
  /\ upload[f] = "putting" /\ faults < MaxFaults
  /\ faults' = faults + 1
  /\ upload' = [upload EXCEPT ![f] = "done"]
  /\ UNCHANGED <<clock, mutable, requirements, file, external, worker>>

-----------------------------------------------------------------------------
(***************************************************************************)
(* Storage and scanner.  The result of a scan is sent and tagged in either *)
(* order, and an object can be scanned again.                              *)
(***************************************************************************)
Store(f) ==
  /\ upload[f] # "idle" /\ object[f] = "absent"
  /\ object' = [object EXCEPT ![f] = "untagged"]
  /\ UNCHANGED <<clock, mutable, requirements, file, upload, scan, scans, worker, faults>>

Scan(f, result) ==
  /\ object[f] # "absent" /\ scan[f] = NoVerdict /\ scans < MaxScans
  /\ scan' = [scan EXCEPT ![f] = result]
  /\ scans' = scans + 1
  /\ queue' = queue \cup {<<f, result>>}
  /\ UNCHANGED <<clock, mutable, requirements, file, upload, object, acknowledged, delivery, recovery, faults>>

Tag(f) ==
  /\ scan[f] # NoVerdict
  /\ object' = [object EXCEPT ![f] = scan[f]]
  /\ scan' = [scan EXCEPT ![f] = NoVerdict]
  /\ UNCHANGED <<clock, mutable, requirements, file, upload, scans, worker, faults>>

TaggingFails(f) ==
  /\ scan[f] # NoVerdict
  /\ scan' = [scan EXCEPT ![f] = NoVerdict]
  /\ queue' = queue \cup {<<f, "TAGGING_FAILED">>}
  /\ UNCHANGED <<clock, mutable, requirements, file, upload, object, scans, acknowledged, delivery, recovery, faults>>

\* What the tag of the recorded version tells.
Evidence(f) ==
  CASE object[f] = Clean -> "CLEAN"
    [] object[f] = "untagged" -> "PENDING"
    [] OTHER -> "UNSAFE"

-----------------------------------------------------------------------------
(***************************************************************************)
(* Finalization, shared by deliveries and recovery.                        *)
(***************************************************************************)
\* Mutated form of Outcome: a settled attempt is left alone, whatever the verdict.
OutcomeOnce(f, verdict, evidence) ==
  IF file[f].state # "PROCESSING" THEN "KEEP"
  ELSE IF (verdict # NoVerdict /\ verdict # Clean) \/ evidence = "UNSAFE" THEN "UNSAFE"
  ELSE IF clock >= file[f].expiresAt \/ ~mutable THEN "FAIL"
  ELSE IF verdict # Clean \/ evidence # "CLEAN" THEN "LATER"
  ELSE "PUBLISH"

\* What the transaction decides, its tests in their order.
Outcome(f, verdict, evidence) ==
  LET q == file[f].request
      processing == file[f].state = "PROCESSING"
  IN  IF verdict # NoVerdict /\ file[f].verdict \notin {NoVerdict, verdict} THEN "FAIL"
      ELSE IF (verdict # NoVerdict /\ verdict # Clean) \/ evidence = "UNSAFE" THEN "UNSAFE"
      ELSE IF ~IsOpen(q) \/ Current(q) # f THEN IF processing THEN "FAIL" ELSE "KEEP"
      ELSE IF ~processing THEN "KEEP"
      ELSE IF clock >= file[f].expiresAt \/ ~mutable THEN "FAIL"
      ELSE IF verdict # Clean \/ evidence # "CLEAN" THEN "LATER"
      ELSE "PUBLISH"

\* A verdict that is given is kept with the attempt.
Kept(f, verdict) == IF verdict = NoVerdict THEN file[f].verdict ELSE verdict

\* The attempt after the transaction.
Finalized(f, verdict, evidence) ==
  CASE Outcome(f, verdict, evidence) = "KEEP" -> file[f]
    [] Outcome(f, verdict, evidence) = "FAIL" -> [file[f] EXCEPT !.state = "FAILED"]
    [] Outcome(f, verdict, evidence) = "UNSAFE" ->
         [file[f] EXCEPT !.state = "FAILED", !.verdict = Kept(f, verdict)]
    [] Outcome(f, verdict, evidence) = "LATER" ->
         [file[f] EXCEPT !.verdict = Kept(f, verdict), !.recoverAfter = Earlier(Backoff)]
    [] Outcome(f, verdict, evidence) = "PUBLISH" ->
         [file[f] EXCEPT !.state = "AVAILABLE", !.verdict = verdict, !.published = TRUE]

-----------------------------------------------------------------------------
(***************************************************************************)
(* Deliveries: a verdict is read, evidence fetched for a clean one, the    *)
(* attempt finalized and the message deleted, each at its own time.        *)
(***************************************************************************)
NeedsEvidence(f, verdict) ==
  verdict = Clean /\ file[f].state = "PROCESSING" /\ clock < file[f].expiresAt

\* A deleted message can come again, and one that is given up after eight receives is
\* one that nobody receives any more.  One about a version not yet recorded stays
\* in the queue while the attempt is in processing.
Receive(s, m) ==
  /\ delivery[s].stage = "idle"
  /\ file[m[1]].recorded
  /\ delivery' = [delivery EXCEPT ![s] =
       [stage |-> IF NeedsEvidence(m[1], m[2]) THEN "fetch" ELSE "finalize",
        file |-> m[1], verdict |-> m[2], evidence |-> NotFetched]]
  /\ UNCHANGED <<clock, mutable, requirements, file, upload, external, queue, acknowledged, recovery, faults>>

\* A verdict about a version that never was recorded is stale.
Discard(s, m) ==
  /\ delivery[s].stage = "idle"
  /\ ~file[m[1]].recorded /\ file[m[1]].state # "PROCESSING"
  /\ queue' = queue \ {m} /\ acknowledged' = acknowledged \cup {m}
  /\ UNCHANGED <<clock, mutable, requirements, file, upload, external, delivery, recovery, faults>>

Fetch(s) ==
  /\ delivery[s].stage = "fetch"
  /\ delivery' = [delivery EXCEPT ![s].stage = "finalize", ![s].evidence = Evidence(delivery[s].file)]
  /\ UNCHANGED <<clock, mutable, requirements, file, upload, external, queue, acknowledged, recovery, faults>>

\* The message is deleted unless a clean verdict still waits for its tag.
Finalize(s) ==
  LET d == delivery[s]
      m == <<d.file, d.verdict>>
      retry == Outcome(d.file, d.verdict, d.evidence) = "LATER"
  IN  /\ d.stage = "finalize"
      /\ file' = [file EXCEPT ![d.file] = Finalized(d.file, d.verdict, d.evidence)]
      /\ queue' = IF retry THEN queue ELSE queue \ {m}
      /\ acknowledged' = IF retry THEN acknowledged ELSE acknowledged \cup {m}
      /\ delivery' = [delivery EXCEPT ![s] = IdleDelivery]
      /\ UNCHANGED <<clock, mutable, requirements, upload, external, recovery, faults>>

\* Storage or the transaction fails: the message stays in the queue.
DeliveryFails(s) ==
  /\ delivery[s].stage # "idle"
  /\ delivery' = [delivery EXCEPT ![s] = IdleDelivery]
  /\ UNCHANGED <<clock, mutable, requirements, file, upload, external, queue, acknowledged, recovery, faults>>

-----------------------------------------------------------------------------
(***************************************************************************)
(* Recovery: the pass reads a batch of overdue attempts and inspects them. *)
(***************************************************************************)
Overdue == {f \in Files : file[f].state = "PROCESSING" /\ file[f].recoverAfter <= clock}

\* The first by date; of two with the same date, either may have the smaller id.
Pass ==
  /\ recovery = IdleRecovery
  /\ \E batch \in SUBSET Overdue \ {{}} :
       /\ Cardinality(batch) <= BatchSize
       /\ Cardinality(batch) = BatchSize \/ batch = Overdue
       /\ \A f \in batch, g \in Overdue \ batch : file[f].recoverAfter <= file[g].recoverAfter
       /\ recovery' = [IdleRecovery EXCEPT !.batch = batch, !.known = {f \in batch : file[f].recorded}]
  /\ UNCHANGED <<clock, mutable, requirements, file, upload, external, queue, acknowledged, delivery, faults>>

\* Mutated form of HasEvidence: the deadline is left to finalization.
HasEvidenceAlways(f) == f \in recovery.known

\* Storage is asked about a version known when the batch was read, until the deadline.
HasEvidence(f) == f \in recovery.known /\ clock < file[f].expiresAt

\* The next attempt of the batch, in any order.
Inspect(f) ==
  /\ recovery.file = NoFile /\ f \in recovery.batch
  /\ recovery' = [recovery EXCEPT !.file = f, !.evidence = IF HasEvidence(f) THEN Evidence(f) ELSE NotFetched]
  /\ UNCHANGED <<clock, mutable, requirements, file, upload, external, queue, acknowledged, delivery, faults>>

\* The pass without the attempt f.
Inspected(f) ==
  IF recovery.batch = {f} THEN IdleRecovery
  ELSE [recovery EXCEPT !.batch = @ \ {f}, !.file = NoFile, !.evidence = NotFetched]

\* The verdict recovery derives from the evidence alone.
RecoveredVerdict ==
  CASE recovery.evidence = "CLEAN" -> Clean
    [] recovery.evidence = "UNSAFE" -> "RECOVERY_UNSAFE"
    [] OTHER -> NoVerdict

Recover(f) ==
  /\ recovery.file = f
  /\ file' = [file EXCEPT ![f] = Finalized(f, RecoveredVerdict, recovery.evidence)]
  /\ recovery' = Inspected(f)
  /\ UNCHANGED <<clock, mutable, requirements, upload, external, queue, acknowledged, delivery, faults>>

\* The attempt is put off, so that the others have their turn.
PutOff(f) ==
  /\ file' = IF file[f].state = "PROCESSING"
             THEN [file EXCEPT ![f].recoverAfter = Earlier(Backoff)] ELSE file
  /\ recovery' = Inspected(f)

\* Storage is out of reach, for as long as it likes.
StorageFails(f) ==
  /\ recovery.file = NoFile /\ f \in recovery.batch /\ HasEvidence(f)
  /\ PutOff(f)
  /\ UNCHANGED <<clock, mutable, requirements, upload, external, queue, acknowledged, delivery, faults>>

RecoveryFails(f) ==
  /\ recovery.file = f /\ faults < MaxFaults
  /\ faults' = faults + 1
  /\ PutOff(f)
  /\ UNCHANGED <<clock, mutable, requirements, upload, external, queue, acknowledged, delivery>>

\* The worker restarts, or an inspected attempt cannot even be put off: what the
\* worker had in hand is gone, the queue is not.
WorkerStops ==
  /\ faults < MaxFaults
  /\ faults' = faults + 1
  /\ delivery' = [s \in Slots |-> IdleDelivery]
  /\ recovery' = IdleRecovery
  /\ UNCHANGED <<clock, mutable, requirements, file, upload, external, queue, acknowledged>>

-----------------------------------------------------------------------------
\* The application or its listing leaves the process, or comes back.
Freeze ==
  /\ mutable' = ~mutable
  /\ UNCHANGED <<clock, requirements, file, upload, external, worker, faults>>

Tick ==
  /\ clock < MaxClock
  /\ clock' = clock + 1
  /\ UNCHANGED <<mutable, requirements, file, upload, external, worker, faults>>

Commands ==
  \/ \E batch \in SUBSET Identities \ {{}} : Request(batch)
  \/ \E q \in Requirements :
       \/ Cancel(q) \/ Replace(q) \/ Review(q)
       \/ \E outcome \in Outcomes, evidence \in Files \cup {NoFile} :
            Decide(q, outcome, evidence)

Uploads ==
  \E f \in Files :
    \/ \E q \in Requirements : Reserve(q, f)
    \/ Record(f) \/ PutFails(f) \/ ApiCrash(f)

Scanner ==
  \E f \in Files :
    \/ Store(f) \/ Tag(f) \/ TaggingFails(f)
    \/ \E result \in {Clean, "THREATS_FOUND"} : Scan(f, result)

Deliveries ==
  \E s \in Slots :
    \/ \E m \in queue \cup acknowledged : Receive(s, m) \/ Discard(s, m)
    \/ Fetch(s) \/ Finalize(s) \/ DeliveryFails(s)

Recovery ==
  Pass \/ \E f \in Files : Inspect(f) \/ Recover(f) \/ StorageFails(f) \/ RecoveryFails(f)

Next ==
  Commands \/ Uploads \/ Scanner \/ Deliveries \/ Recovery \/ WorkerStops \/ Freeze \/ Tick

Spec == Init /\ [][Next]_vars

\* The recovery loop of the worker goes on, and time passes.
FairSpec == Spec /\ WF_vars(Recovery) /\ WF_vars(Tick)

-----------------------------------------------------------------------------
(***************************************************************************)
(* The state of verification, derived.                                     *)
(***************************************************************************)
\* The state of an open requirement; its tests in their order.
RequirementState(q) ==
  LET d == decision[q]
      published == CurrentState(q) = "AVAILABLE" /\ WasPublished(q)
      about == published /\ d.evidence = Current(q)
  IN  IF d.outcome = "WAIVED" THEN "WAIVED"
      ELSE IF d.outcome = "NOT_SATISFIED" /\ about THEN "NOT_SATISFIED"
      ELSE IF CurrentState(q) = "PROCESSING" THEN "PROCESSING"
      ELSE IF ~published THEN "AWAITING_EVIDENCE"
      ELSE IF d.outcome = "SATISFIED" /\ about THEN "SATISFIED"
      ELSE "AWAITING_DECISION"

-----------------------------------------------------------------------------
(***************************************************************************)
(* Properties.                                                             *)
(***************************************************************************)
Verdicts == {Clean, "THREATS_FOUND", "TAGGING_FAILED"}

RequirementStates ==
  [state : {"ABSENT", "OPEN", "CANCELLED", "SUPERSEDED"}, current : Files \cup {NoFile},
   created : Nat, closed : Nat]

FileStates ==
  [request : Requirements \cup {NoRequest}, state : {"UNUSED", "PROCESSING", "AVAILABLE", "FAILED"},
   recorded : BOOLEAN, published : BOOLEAN, reviewed : BOOLEAN,
   verdict : Verdicts \cup {"RECOVERY_UNSAFE", NoVerdict}, recoverAfter : Nat, expiresAt : Nat]

\* Every variable has its type.
TypeOK ==
  /\ clock \in 0..MaxClock /\ mutable \in BOOLEAN /\ scope \in Nat
  /\ requirement \in [Requirements -> RequirementStates]
  /\ decision \in [Requirements -> [outcome : Outcomes \cup {"none"}, evidence : Files \cup {NoFile}]]
  /\ file \in [Files -> FileStates]
  /\ upload \in [Files -> {"idle", "putting", "done"}]
  /\ object \in [Files -> {"absent", "untagged", Clean, "THREATS_FOUND"}]
  /\ scan \in [Files -> {NoVerdict, Clean, "THREATS_FOUND"}] /\ scans \in 0..MaxScans
  /\ queue \subseteq Files \X Verdicts /\ acknowledged \subseteq Files \X Verdicts
  /\ delivery \in [Slots -> [stage : {"idle", "fetch", "finalize"}, file : Files \cup {NoFile},
                             verdict : Verdicts \cup {NoVerdict}, evidence : {NotFetched, "CLEAN", "PENDING", "UNSAFE"}]]
  /\ recovery \in [batch : SUBSET Files, known : SUBSET Files, file : Files \cup {NoFile},
                   evidence : {NotFetched, "CLEAN", "PENDING", "UNSAFE"}]
  /\ faults \in 0..MaxFaults

\* Once a verdict other than clean is acknowledged its attempt is out for good, in
\* whatever order verdicts, tags and the version came: it is not readable, and no
\* decision lets it satisfy its requirement.
AcknowledgedThreatIsOut ==
  \A m \in acknowledged :
    m[2] # Clean =>
      /\ file[m[1]].state = "FAILED"
      /\ \A q \in Requirements :
           Current(q) = m[1] => RequirementState(q) \notin {"SATISFIED", "NOT_SATISFIED"}

\* An attempt in processing is the current one of an open requirement, so nobody
\* waits for one that cannot be published; and what was published, or decided upon,
\* stays the evidence of its round.
EvidenceIsSettled ==
  /\ \A f \in Files :
       file[f].state = "PROCESSING" \/ file[f].published =>
         /\ Current(file[f].request) = f
         /\ file[f].state = "PROCESSING" => IsOpen(file[f].request)
  /\ \A q \in Requirements :
       decision[q].outcome \in {"SATISFIED", "NOT_SATISFIED"} =>
         decision[q].evidence = Current(q) /\ WasPublished(q)

\* Every attempt ends within the reach of recovery, whatever is lost on the way and
\* even if storage never answers again.
AttemptsEnd ==
  \A f \in Files : file[f].state = "PROCESSING" ~> file[f].state # "PROCESSING"
=============================================================================

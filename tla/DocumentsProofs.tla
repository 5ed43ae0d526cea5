--------------------------- MODULE DocumentsProofs --------------------------
(***************************************************************************)
(* What holds of the documents of an application for every number of       *)
(* requirements, rounds, upload attempts, deliveries, scans and faults.    *)
(***************************************************************************)
EXTENDS DocumentReads, FiniteSetTheorems, TLAPS

\* The rounds of an identity follow each other, and only the last can be open.
RoundsInOrder ==
  \A i \in Identities : \E k \in 0..MaxRound :
    \A n \in 1..MaxRound : /\ requirement[<<i, n>>].state = "ABSENT" <=> k < n
                           /\ IsOpen(<<i, n>>) => n = k

\* A round that has not begun has neither file nor decision, and the current file of
\* a requirement is an attempt at it.
AttemptsBelong ==
  /\ \A q \in Requirements :
       /\ requirement[q].state = "ABSENT" => Current(q) = NoFile /\ decision[q].outcome = "none"
       /\ Current(q) # NoFile => file[Current(q)].request = q /\ file[Current(q)].state # "UNUSED"
  /\ \A f \in Files :
       /\ file[f].state # "UNUSED" => file[f].request \in Requirements
       /\ file[f].recorded \/ file[f].published => file[f].state # "UNUSED"
       /\ file[f].state = "AVAILABLE" => file[f].recorded

\* Storage, scanner and queue know only of attempts.
TracesAreOfAttempts ==
  /\ \A f \in Files :
       upload[f] # "idle" \/ object[f] # "absent" \/ scan[f] # NoVerdict => file[f].state # "UNUSED"
  /\ \A m \in queue \cup acknowledged : file[m[1]].state # "UNUSED"

\* A delivery in hand is about an attempt whose version is recorded.
DeliveriesAreGiven ==
  \A s \in Slots :
    delivery[s].stage # "idle" =>
      /\ delivery[s].file \in Files /\ delivery[s].verdict \in Verdicts
      /\ file[delivery[s].file].recorded

\* A pass inspects attempts, with evidence of none but those whose version was recorded
\* when it began.
PassIsGiven ==
  /\ \A f \in recovery.batch : file[f].state # "UNUSED"
  /\ \A f \in recovery.known : file[f].recorded
  /\ recovery.file # NoFile => recovery.file \in recovery.batch
  /\ recovery.file # NoFile /\ recovery.evidence # NotFetched => recovery.file \in recovery.known

WorkIsGiven == TracesAreOfAttempts /\ DeliveriesAreGiven /\ PassIsGiven

\* What has been acknowledged as a threat has failed.
ThreatsHaveFailed == \A m \in acknowledged : m[2] # Clean => file[m[1]].state = "FAILED"

IInv ==
  TypeOK /\ RoundsInOrder /\ AttemptsBelong /\ WorkIsGiven /\ EvidenceIsSettled /\ ThreatsHaveFailed

USE DocumentsAssumption DEF Clean, NoVerdict, NotFetched, requirements, external, worker,
                            MayRequest, MayCancel, MayReplace, MayDecide, MayReview, MayReserve

\* The bounds are numbers.
LEMMA BoundsAreNat ==
  /\ MaxRound \in Nat /\ MaxRound > 0
  /\ RecoveryDelay \in Nat /\ ProcessingTimeout \in Nat /\ Backoff \in Nat /\ MaxClock \in Nat
  OBVIOUS

-----------------------------------------------------------------------------
(***************************************************************************)
(* Finalization.                                                           *)
(***************************************************************************)
\* What may become of an attempt beside being reserved: it stays in its state, it
\* fails, or, while it is the current one of an open requirement, it is published.
Progresses(f) ==
  /\ file'[f].request = file[f].request
  /\ file[f].recorded => file'[f].recorded
  /\ file'[f].recorded => file[f].recorded \/ file[f].state # "UNUSED"
  /\ \/ file'[f].state = file[f].state /\ file'[f].published = file[f].published
     \/ /\ file[f].state # "UNUSED"
        /\ file'[f].state = "FAILED" /\ file'[f].published = file[f].published
     \/ /\ file[f].state = "PROCESSING" /\ file[f].recorded
        /\ IsOpen(file[f].request) /\ Current(file[f].request) = f
        /\ file'[f].state = "AVAILABLE" /\ file'[f].published

\* Finalization keeps what it does not decide about, publishes only a clean file that
\* is current and in processing, and lets no threat pass.
LEMMA FinalizedShape ==
  ASSUME TypeOK, NEW f \in Files, file[f].state # "UNUSED",
         NEW verdict \in Verdicts \cup {"RECOVERY_UNSAFE", NoVerdict},
         NEW evidence \in {NotFetched, "CLEAN", "PENDING", "UNSAFE"},
         NEW g, g = Finalized(f, verdict, evidence)
  PROVE  /\ g \in FileStates
         /\ g.request = file[f].request /\ g.recorded = file[f].recorded
         /\ \/ g.state = file[f].state /\ g.published = file[f].published
            \/ g.state = "FAILED" /\ g.published = file[f].published
            \/ /\ verdict = Clean /\ evidence = "CLEAN"
               /\ file[f].state = "PROCESSING"
               /\ IsOpen(file[f].request) /\ Current(file[f].request) = f
               /\ g.state = "AVAILABLE" /\ g.published
         /\ verdict \notin {NoVerdict, Clean} => g.state = "FAILED"
<1> DEFINE outcome == Outcome(f, verdict, evidence)
<1>1. file[f] \in FileStates
  BY DEF TypeOK
<1>2. /\ Kept(f, verdict) \in Verdicts \cup {"RECOVERY_UNSAFE", NoVerdict}
      /\ Earlier(Backoff) \in Nat
  BY <1>1 DEF TypeOK, FileStates, Kept, Earlier
<1>3. outcome \in {"KEEP", "FAIL", "UNSAFE", "LATER", "PUBLISH"}
  BY DEF Outcome
<1>4. outcome = "PUBLISH" => /\ verdict = Clean /\ evidence = "CLEAN"
                             /\ file[f].state = "PROCESSING"
                             /\ IsOpen(file[f].request) /\ Current(file[f].request) = f
  BY DEF Outcome
<1>5. verdict \notin {NoVerdict, Clean} => outcome \in {"FAIL", "UNSAFE"}
  BY DEF Outcome
<1> HIDE DEF outcome
<1>6. CASE outcome = "KEEP"
  BY <1>1, <1>5, <1>6 DEF Finalized, outcome
<1>7. CASE outcome = "FAIL"
  BY <1>1, <1>7 DEF Finalized, outcome, FileStates
<1>8. CASE outcome = "UNSAFE"
  BY <1>1, <1>2, <1>8 DEF Finalized, outcome, FileStates
<1>9. CASE outcome = "LATER"
  BY <1>1, <1>2, <1>5, <1>9 DEF Finalized, outcome, FileStates
<1>10. CASE outcome = "PUBLISH"
  BY <1>1, <1>4, <1>10 DEF Finalized, outcome, FileStates
<1> QED BY <1>3, <1>6, <1>7, <1>8, <1>9, <1>10

-----------------------------------------------------------------------------
\* The initial states satisfy the inductive invariant.
LEMMA InitInv == Init => IInv
<1> SUFFICES ASSUME Init PROVE IInv
  OBVIOUS
<1>1. TypeOK
  BY DEF Init, TypeOK, FileStates, Unused, Absent, NoDecision, IdleDelivery, IdleRecovery, RequirementStates
<1>2. RoundsInOrder
  <2>1. \A i \in Identities, n \in 1..MaxRound : requirement[<<i, n>>] = Absent
    BY DEF Init, Requirements
  <2>2. \A i \in Identities, n \in 1..MaxRound : requirement[<<i, n>>].state = "ABSENT" /\ 0 < n
    <3>1. \A n \in 1..MaxRound : 0 < n
      BY BoundsAreNat
    <3>2. Absent.state = "ABSENT"
      BY DEF Absent
    <3> QED BY <2>1, <3>1, <3>2
  <2>3. ASSUME NEW i \in Identities
        PROVE  \A n \in 1..MaxRound : /\ requirement[<<i, n>>].state = "ABSENT" <=> 0 < n
                                      /\ IsOpen(<<i, n>>) => n = 0
    BY <2>2 DEF IsOpen
  <2> QED BY <2>3 DEF RoundsInOrder
<1>3. AttemptsBelong /\ EvidenceIsSettled
  <2>1. \A q \in Requirements : Current(q) = NoFile /\ decision[q].outcome = "none"
    BY DEF Init, Current, Absent, NoDecision
  <2>2. \A f \in Files : file[f].state = "UNUSED" /\ ~file[f].recorded /\ ~file[f].published
    BY DEF Init, Unused
  <2> QED BY <2>1, <2>2 DEF AttemptsBelong, EvidenceIsSettled
<1>4. WorkIsGiven /\ ThreatsHaveFailed
  BY DEF Init, WorkIsGiven, TracesAreOfAttempts, DeliveriesAreGiven, PassIsGiven,
         ThreatsHaveFailed, IdleDelivery, IdleRecovery
<1> QED BY <1>1, <1>2, <1>3, <1>4 DEF IInv

-----------------------------------------------------------------------------
(***************************************************************************)
(* What each step does to the attempts.                                    *)
(***************************************************************************)
\* The current file of a requirement is an attempt or none.
LEMMA CurrentType ==
  ASSUME TypeOK, NEW q \in Requirements
  PROVE  requirement[q] \in RequirementStates /\ Current(q) \in Files \cup {NoFile}
<1>1. requirement[q] \in RequirementStates
  BY DEF TypeOK
<1> QED BY <1>1 DEF RequirementStates, Current

\* Instants stay within the bound.
LEMMA EarlierType == TypeOK => Earlier(Backoff) \in Nat
  BY DEF TypeOK, Earlier

\* The end of an attempt by the provider's command.
LEMMA EndedAttempt ==
  ASSUME TypeOK, NEW q \in Requirements, EndsAttempt(q)
  PROVE  /\ file' \in [Files -> FileStates]
         /\ \A f \in Files : /\ file'[f].request = file[f].request
                             /\ file'[f].recorded = file[f].recorded
                             /\ file'[f].published = file[f].published
                             /\ file'[f].state = IF Current(q) = f /\ file[f].state = "PROCESSING"
                                                 THEN "FAILED" ELSE file[f].state
<1>1. Current(q) \in Files \cup {NoFile} /\ file \in [Files -> FileStates]
  BY CurrentType DEF TypeOK
<1>2. CASE CurrentState(q) = "PROCESSING"
  <2>1. Current(q) \in Files /\ file[Current(q)].state = "PROCESSING"
    BY <1>1, <1>2 DEF CurrentState
  <2>2. file' = [file EXCEPT ![Current(q)].state = "FAILED"]
    BY <1>2 DEF EndsAttempt
  <2> QED BY <1>1, <2>1, <2>2 DEF FileStates
<1>3. CASE CurrentState(q) # "PROCESSING"
  <2>1. file' = file /\ \A f \in Files : Current(q) = f => file[f].state # "PROCESSING"
    BY <1>3 DEF EndsAttempt, CurrentState
  <2> QED BY <1>1, <2>1
<1> QED BY <1>2, <1>3

\* Whatever is written to one attempt is written to no other.
LEMMA OneAttempt ==
  ASSUME TypeOK, NEW f \in Files, NEW g \in FileStates,
         file' = [file EXCEPT ![f] = g],
         g.request = file[f].request,
         file[f].recorded => g.recorded,
         g.recorded => file[f].recorded \/ file[f].state # "UNUSED",
         \/ g.state = file[f].state /\ g.published = file[f].published
         \/ /\ file[f].state # "UNUSED"
            /\ g.state = "FAILED" /\ g.published = file[f].published
         \/ /\ file[f].state = "PROCESSING" /\ file[f].recorded
            /\ IsOpen(file[f].request) /\ Current(file[f].request) = f
            /\ g.state = "AVAILABLE" /\ g.published
  PROVE  file' \in [Files -> FileStates] /\ \A e \in Files : Progresses(e)
<1>1. file \in [Files -> FileStates]
  BY DEF TypeOK
<1> QED BY <1>1 DEF Progresses

\* Attempts go on as they should in a step that writes to them.
FilesProgress == file' \in [Files -> FileStates] /\ \A e \in Files : Progresses(e)

LEMMA FilesRest == TypeOK /\ UNCHANGED file => FilesProgress
  BY DEF TypeOK, FilesProgress, Progresses

\* The review of a file by the provider.
LEMMA ReviewProgress ==
  ASSUME TypeOK, NEW q \in Requirements, Review(q)
  PROVE  FilesProgress
<1>1. Current(q) \in Files
  BY CurrentType DEF Review, CurrentState
<1>2. file[Current(q)] \in FileStates
  BY <1>1 DEF TypeOK
<1> DEFINE f == Current(q)
           g == [file[f] EXCEPT !.reviewed = TRUE]
<1>3. /\ f \in Files /\ g \in FileStates /\ file' = [file EXCEPT ![f] = g]
      /\ g.request = file[f].request /\ g.recorded = file[f].recorded
      /\ g.state = file[f].state /\ g.published = file[f].published
  BY <1>1, <1>2 DEF FileStates, Review
<1> HIDE DEF f, g
<1> QED BY <1>3, OneAttempt DEF FilesProgress

\* The version of an object is recorded.
LEMMA RecordProgress ==
  ASSUME TypeOK, WorkIsGiven, NEW f \in Files, Record(f)
  PROVE  FilesProgress
<1>1. file[f] \in FileStates /\ file[f].state # "UNUSED"
  BY DEF TypeOK, Record, WorkIsGiven, TracesAreOfAttempts
<1> DEFINE g == [file[f] EXCEPT !.recorded = TRUE]
<1>2. /\ g \in FileStates /\ file' = [file EXCEPT ![f] = g]
      /\ g.request = file[f].request /\ g.recorded
      /\ g.state = file[f].state /\ g.published = file[f].published
  BY <1>1 DEF FileStates, Record
<1> HIDE DEF g
<1> QED BY <1>1, <1>2, OneAttempt DEF FilesProgress

\* The write of an object fails, or seems to.
LEMMA PutFailsProgress ==
  ASSUME TypeOK, NEW f \in Files, PutFails(f)
  PROVE  FilesProgress
<1>1. CASE file[f].state = "PROCESSING"
  <2>1. file[f] \in FileStates
    BY DEF TypeOK
  <2> DEFINE g == [file[f] EXCEPT !.state = "FAILED"]
  <2>2. /\ g \in FileStates /\ file' = [file EXCEPT ![f] = g]
        /\ g.request = file[f].request /\ g.recorded = file[f].recorded
        /\ g.state = "FAILED" /\ g.published = file[f].published
    BY <1>1, <2>1 DEF FileStates, PutFails
  <2> HIDE DEF g
  <2> QED BY <1>1, <2>2, OneAttempt DEF FilesProgress
<1>2. CASE file[f].state # "PROCESSING"
  BY <1>2, FilesRest DEF PutFails
<1> QED BY <1>1, <1>2

\* An attempt is put off to a later pass.
LEMMA PutOffProgress ==
  ASSUME TypeOK, NEW f \in Files, PutOff(f)
  PROVE  FilesProgress
<1>1. CASE file[f].state = "PROCESSING"
  <2>1. file[f] \in FileStates
    BY DEF TypeOK
  <2> DEFINE g == [file[f] EXCEPT !.recoverAfter = Earlier(Backoff)]
  <2>2. /\ g \in FileStates /\ file' = [file EXCEPT ![f] = g]
        /\ g.request = file[f].request /\ g.recorded = file[f].recorded
        /\ g.state = file[f].state /\ g.published = file[f].published
    BY <1>1, <2>1, EarlierType DEF FileStates, PutOff
  <2> HIDE DEF g
  <2> QED BY <2>2, OneAttempt DEF FilesProgress
<1>2. CASE file[f].state # "PROCESSING"
  BY <1>2, FilesRest DEF PutOff
<1> QED BY <1>1, <1>2

\* A delivery is finalized.
LEMMA FinalizeProgress ==
  ASSUME TypeOK, AttemptsBelong, WorkIsGiven, NEW s \in Slots, Finalize(s)
  PROVE  /\ FilesProgress
         /\ delivery[s].file \in Files /\ delivery[s].verdict \in Verdicts
         /\ delivery[s].verdict # Clean => file'[delivery[s].file].state = "FAILED"
<1>1. PICK f \in Files, verdict \in Verdicts, evidence \in {NotFetched, "CLEAN", "PENDING", "UNSAFE"} :
        /\ f = delivery[s].file /\ verdict = delivery[s].verdict /\ evidence = delivery[s].evidence
        /\ file[f].recorded
  BY DEF Finalize, WorkIsGiven, DeliveriesAreGiven, TypeOK
<1> DEFINE g == Finalized(f, verdict, evidence)
<1>2. file[f].state # "UNUSED"
  BY <1>1 DEF AttemptsBelong
<1>3. file' = [file EXCEPT ![f] = g] /\ file \in [Files -> FileStates]
  BY <1>1 DEF Finalize, TypeOK
<1>4. verdict \in Verdicts \cup {"RECOVERY_UNSAFE", NoVerdict} /\ verdict # NoVerdict
  BY DEF Verdicts
<1> HIDE DEF g
<1>5. /\ g \in FileStates
      /\ g.request = file[f].request /\ g.recorded = file[f].recorded
      /\ \/ g.state = file[f].state /\ g.published = file[f].published
         \/ g.state = "FAILED" /\ g.published = file[f].published
         \/ /\ verdict = Clean /\ evidence = "CLEAN"
            /\ file[f].state = "PROCESSING"
            /\ IsOpen(file[f].request) /\ Current(file[f].request) = f
            /\ g.state = "AVAILABLE" /\ g.published
      /\ verdict \notin {NoVerdict, Clean} => g.state = "FAILED"
  BY <1>2, <1>4, FinalizedShape DEF g
<1>6. FilesProgress
  BY <1>1, <1>2, <1>3, <1>5, OneAttempt DEF FilesProgress
<1>7. verdict # Clean => file'[f].state = "FAILED"
  BY <1>3, <1>4, <1>5
<1> QED BY <1>1, <1>6, <1>7

\* An attempt is recovered.
LEMMA RecoverProgress ==
  ASSUME TypeOK, WorkIsGiven, NEW f \in Files, Recover(f)
  PROVE  FilesProgress
<1> DEFINE verdict == RecoveredVerdict
           evidence == recovery.evidence
           g == Finalized(f, verdict, evidence)
<1>1. /\ evidence \in {NotFetched, "CLEAN", "PENDING", "UNSAFE"}
      /\ verdict \in Verdicts \cup {"RECOVERY_UNSAFE", NoVerdict}
      /\ verdict = Clean => evidence = "CLEAN"
  BY DEF TypeOK, RecoveredVerdict, Verdicts
<1>2. recovery.file = f /\ f # NoFile
  BY DEF Recover
<1>3. file[f].state # "UNUSED" /\ (evidence # NotFetched => file[f].recorded)
  <2>1. f \in recovery.batch /\ (evidence # NotFetched => f \in recovery.known)
    BY <1>2 DEF WorkIsGiven, PassIsGiven
  <2> QED BY <2>1 DEF WorkIsGiven, PassIsGiven
<1>4. file' = [file EXCEPT ![f] = g] /\ file \in [Files -> FileStates]
  BY DEF Recover, TypeOK
<1> HIDE DEF verdict, evidence, g
<1>5. /\ g \in FileStates
      /\ g.request = file[f].request /\ g.recorded = file[f].recorded
      /\ \/ g.state = file[f].state /\ g.published = file[f].published
         \/ g.state = "FAILED" /\ g.published = file[f].published
         \/ /\ evidence = "CLEAN" /\ file[f].state = "PROCESSING"
            /\ IsOpen(file[f].request) /\ Current(file[f].request) = f
            /\ g.state = "AVAILABLE" /\ g.published
  BY <1>1, <1>3, FinalizedShape DEF g
<1>6. evidence = "CLEAN" => file[f].recorded
  BY <1>3
<1> QED BY <1>3, <1>4, <1>5, <1>6, OneAttempt DEF FilesProgress

-----------------------------------------------------------------------------
(***************************************************************************)
(* Every step keeps the types.                                             *)
(***************************************************************************)
\* A requirement closed or opened is one.
LEMMA ClosedType ==
  ASSUME TypeOK, NEW q \in Requirements, NEW state \in {"CANCELLED", "SUPERSEDED"}
  PROVE  Closed(q, state) \in RequirementStates
<1>1. requirement[q] \in RequirementStates /\ scope + 1 \in Nat
  BY DEF TypeOK
<1>2. Closed(q, state) = [requirement[q] EXCEPT !.state = state, !.closed = scope + 1]
  BY DEF Closed
<1> QED BY <1>1, <1>2 DEF RequirementStates

LEMMA OpenType == TypeOK => Open(scope + 1) \in RequirementStates
  BY DEF TypeOK, Open, RequirementStates

LEMMA CommandsType ==
  ASSUME IInv, NEW q \in Requirements,
         \/ Cancel(q) \/ Replace(q) \/ Review(q)
         \/ \E outcome \in Outcomes, evidence \in Files \cup {NoFile} : Decide(q, outcome, evidence)
  PROVE  TypeOK'
<1>0. TypeOK
  BY DEF IInv
<1>1. CASE Cancel(q)
  <2>1. file' \in [Files -> FileStates] /\ scope' \in Nat
    BY <1>0, <1>1, EndedAttempt DEF Cancel, TypeOK
  <2>2. requirement' = [requirement EXCEPT ![q] = Closed(q, "CANCELLED")]
    BY <1>1 DEF Cancel
  <2>3. requirement' \in [Requirements -> RequirementStates]
    BY <1>0, <2>2, ClosedType DEF TypeOK
  <2> QED BY <1>0, <1>1, <2>1, <2>3 DEF TypeOK, Cancel
<1>2. CASE Replace(q)
  <2>1. file' \in [Files -> FileStates] /\ scope' \in Nat
    BY <1>0, <1>2, EndedAttempt DEF Replace, TypeOK
  <2>2. /\ requirement' = [requirement EXCEPT ![q] = Closed(q, "SUPERSEDED"),
                                             ![<<q[1], q[2] + 1>>] = Open(scope + 1)]
        /\ requirement \in [Requirements -> RequirementStates]
    BY <1>0, <1>2 DEF Replace, TypeOK
  <2>3. requirement' \in [Requirements -> RequirementStates]
    BY <1>0, <2>2, ClosedType, OpenType
  <2> QED BY <1>0, <1>2, <2>1, <2>3 DEF TypeOK, Replace
<1>3. CASE Review(q)
  BY <1>0, <1>3, ReviewProgress DEF TypeOK, Review, FilesProgress
<1>4. ASSUME NEW outcome \in Outcomes, NEW evidence \in Files \cup {NoFile}, Decide(q, outcome, evidence)
      PROVE  TypeOK'
  BY <1>0, <1>4 DEF TypeOK, Decide
<1> QED BY <1>1, <1>2, <1>3, <1>4

LEMMA RequestType ==
  ASSUME TypeOK, NEW batch \in SUBSET Identities, Request(batch)
  PROVE  TypeOK'
<1>1. scope' \in Nat /\ Open(scope + 1) \in RequirementStates
  BY OpenType DEF Request, TypeOK
<1>2. requirement' \in [Requirements -> RequirementStates]
  BY <1>1 DEF Request, TypeOK
<1> QED BY <1>1, <1>2 DEF TypeOK, Request

LEMMA UploadsType ==
  ASSUME IInv, NEW f \in Files,
         (\E q \in Requirements : Reserve(q, f)) \/ Record(f) \/ PutFails(f) \/ ApiCrash(f)
  PROVE  TypeOK'
<1>0. TypeOK /\ WorkIsGiven
  BY DEF IInv
<1>1. ASSUME NEW q \in Requirements, Reserve(q, f) PROVE TypeOK'
  <2> DEFINE g == [Unused EXCEPT !.request = q, !.state = "PROCESSING",
                                 !.recoverAfter = clock + RecoveryDelay, !.expiresAt = clock + ProcessingTimeout]
  <2>1. g \in FileStates
    <3>1. clock + RecoveryDelay \in Nat /\ clock + ProcessingTimeout \in Nat
      BY <1>0, BoundsAreNat DEF TypeOK
    <3>2. Unused \in FileStates
      BY DEF Unused, FileStates
    <3>3. [Unused EXCEPT !.request = q] \in FileStates
      BY <3>2 DEF FileStates
    <3>4. [Unused EXCEPT !.request = q, !.state = "PROCESSING"] \in FileStates
      BY <3>3 DEF FileStates
    <3>5. [Unused EXCEPT !.request = q, !.state = "PROCESSING", !.recoverAfter = clock + RecoveryDelay] \in FileStates
      BY <3>1, <3>4 DEF FileStates
    <3> QED BY <3>1, <3>5 DEF FileStates
  <2>2. file' = [file EXCEPT ![f] = g]
    BY <1>1 DEF Reserve
  <2> HIDE DEF g
  <2>3. file' \in [Files -> FileStates]
    BY <1>0, <2>1, <2>2 DEF TypeOK
  <2>4. requirement' \in [Requirements -> RequirementStates]
    <3>1. requirement' = [requirement EXCEPT ![q].current = f]
      BY <1>1 DEF Reserve
    <3>2. [requirement[q] EXCEPT !.current = f] \in RequirementStates
      BY <1>0, CurrentType DEF RequirementStates
    <3> QED BY <1>0, <3>1, <3>2 DEF TypeOK
  <2> QED BY <1>0, <1>1, <2>3, <2>4 DEF TypeOK, Reserve
<1>2. CASE Record(f)
  BY <1>0, <1>2, RecordProgress DEF TypeOK, Record, FilesProgress
<1>3. CASE PutFails(f)
  <2>1. file' \in [Files -> FileStates]
    BY <1>0, <1>3, PutFailsProgress DEF FilesProgress
  <2>2. /\ faults' \in 0..MaxFaults /\ upload' = [upload EXCEPT ![f] = "done"]
        /\ UNCHANGED <<clock, mutable, requirements, external, worker>>
    BY <1>0, <1>3 DEF TypeOK, PutFails
  <2> QED BY <1>0, <2>1, <2>2 DEF TypeOK
<1>4. CASE ApiCrash(f)
  BY <1>0, <1>4 DEF TypeOK, ApiCrash
<1> QED BY <1>1, <1>2, <1>3, <1>4

LEMMA ScannerType ==
  ASSUME TypeOK, NEW f \in Files,
         Store(f) \/ Tag(f) \/ TaggingFails(f) \/ \E result \in {Clean, "THREATS_FOUND"} : Scan(f, result)
  PROVE  TypeOK'
<1>1. CASE Store(f)
  BY <1>1 DEF TypeOK, Store
<1>2. CASE Tag(f)
  BY <1>2 DEF TypeOK, Tag
<1>3. CASE TaggingFails(f)
  <2>1. <<f, "TAGGING_FAILED">> \in Files \X Verdicts
    BY DEF Verdicts
  <2> QED BY <1>3, <2>1 DEF TypeOK, TaggingFails
<1>4. ASSUME NEW result \in {Clean, "THREATS_FOUND"}, Scan(f, result) PROVE TypeOK'
  <2>1. <<f, result>> \in Files \X Verdicts
    BY DEF Verdicts
  <2>2. queue' \subseteq Files \X Verdicts /\ scans' \in 0..MaxScans
    BY <1>4, <2>1 DEF TypeOK, Scan
  <2> QED BY <1>4, <2>2 DEF TypeOK, Scan
<1> QED BY <1>1, <1>2, <1>3, <1>4

\* What a tag tells.
LEMMA EvidenceType == ASSUME NEW f PROVE Evidence(f) \in {"CLEAN", "PENDING", "UNSAFE"}
  BY DEF Evidence

LEMMA DeliveriesType ==
  ASSUME IInv, NEW s \in Slots,
         \/ \E m \in queue \cup acknowledged : Receive(s, m) \/ Discard(s, m)
         \/ Fetch(s) \/ Finalize(s) \/ DeliveryFails(s)
  PROVE  TypeOK'
<1>0. TypeOK /\ WorkIsGiven /\ AttemptsBelong
  BY DEF IInv
<1> DEFINE Kind == [stage : {"idle", "fetch", "finalize"}, file : Files \cup {NoFile},
                           verdict : Verdicts \cup {NoVerdict}, evidence : {NotFetched, "CLEAN", "PENDING", "UNSAFE"}]
<1>1. ASSUME NEW m \in queue \cup acknowledged, Receive(s, m) PROVE TypeOK'
  <2>1. m \in Files \X Verdicts
    BY <1>0 DEF TypeOK
  <2>2. m[1] \in Files /\ m[2] \in Verdicts
    BY <2>1
  <2> DEFINE stage == IF NeedsEvidence(m[1], m[2]) THEN "fetch" ELSE "finalize"
             d == [stage |-> stage, file |-> m[1], verdict |-> m[2], evidence |-> NotFetched]
  <2>3. stage \in {"fetch", "finalize"}
    OBVIOUS
  <2> HIDE DEF stage
  <2>4. d \in Kind
    BY <2>2, <2>3
  <2>5. delivery' = [delivery EXCEPT ![s] = d]
    BY <1>1 DEF Receive, stage
  <2> HIDE DEF d
  <2>6. delivery' \in [Slots -> Kind]
    BY <1>0, <2>4, <2>5 DEF TypeOK
  <2> QED BY <1>0, <1>1, <2>6 DEF TypeOK, Receive
<1>2. ASSUME NEW m \in queue \cup acknowledged, Discard(s, m) PROVE TypeOK'
  <2>1. queue' \subseteq Files \X Verdicts /\ acknowledged' \subseteq Files \X Verdicts
    BY <1>0, <1>2 DEF TypeOK, Discard
  <2> QED BY <1>0, <1>2, <2>1 DEF TypeOK, Discard
<1>3. CASE Fetch(s)
  <2>1. delivery[s] \in Kind /\ Evidence(delivery[s].file) \in {NotFetched, "CLEAN", "PENDING", "UNSAFE"}
    BY <1>0, EvidenceType DEF TypeOK
  <2> DEFINE d == [delivery[s] EXCEPT !.stage = "finalize", !.evidence = Evidence(delivery[s].file)]
  <2>2. d \in Kind
    BY <2>1
  <2>3. delivery' = [delivery EXCEPT ![s] = d]
    BY <1>3 DEF Fetch
  <2> HIDE DEF d
  <2>4. delivery' \in [Slots -> Kind]
    BY <1>0, <2>2, <2>3 DEF TypeOK
  <2> QED BY <1>0, <1>3, <2>4 DEF TypeOK, Fetch
<1>4. IdleDelivery \in Kind
  BY DEF IdleDelivery
<1>5. CASE Finalize(s)
  <2> DEFINE m == <<delivery[s].file, delivery[s].verdict>>
  <2>1. m \in Files \X Verdicts /\ file' \in [Files -> FileStates]
    BY <1>0, <1>5, FinalizeProgress DEF FilesProgress
  <2>2. queue' \subseteq queue /\ acknowledged' \subseteq acknowledged \cup {m}
    BY <1>5 DEF Finalize
  <2>3. /\ delivery' = [delivery EXCEPT ![s] = IdleDelivery]
        /\ UNCHANGED <<clock, mutable, requirements, upload, external, recovery, faults>>
    BY <1>5 DEF Finalize
  <2> HIDE DEF m
  <2> QED BY <1>0, <1>4, <2>1, <2>2, <2>3 DEF TypeOK
<1>6. CASE DeliveryFails(s)
  BY <1>0, <1>4, <1>6 DEF TypeOK, DeliveryFails
<1> QED BY <1>1, <1>2, <1>3, <1>5, <1>6

\* The pass without an attempt.
LEMMA InspectedType ==
  ASSUME TypeOK, NEW f
  PROVE  Inspected(f) \in [batch : SUBSET Files, known : SUBSET Files, file : Files \cup {NoFile},
                           evidence : {NotFetched, "CLEAN", "PENDING", "UNSAFE"}]
  BY DEF TypeOK, Inspected, IdleRecovery

LEMMA RecoveryType ==
  ASSUME IInv, Recovery PROVE TypeOK'
<1>0. TypeOK /\ WorkIsGiven
  BY DEF IInv
<1> DEFINE Passes == [batch : SUBSET Files, known : SUBSET Files, file : Files \cup {NoFile},
                      evidence : {NotFetched, "CLEAN", "PENDING", "UNSAFE"}]
<1>1. CASE Pass
  <2>1. PICK batch \in SUBSET Overdue :
          recovery' = [IdleRecovery EXCEPT !.batch = batch, !.known = {f \in batch : file[f].recorded}]
    BY <1>1 DEF Pass
  <2>2. batch \subseteq Files
    BY DEF Overdue
  <2>3. recovery' \in Passes
    BY <2>1, <2>2 DEF IdleRecovery
  <2> QED BY <1>0, <1>1, <2>3 DEF TypeOK, Pass
<1>2. ASSUME NEW f \in Files, Inspect(f) PROVE TypeOK'
  <2>1. (IF HasEvidence(f) THEN Evidence(f) ELSE NotFetched) \in {NotFetched, "CLEAN", "PENDING", "UNSAFE"}
    BY EvidenceType
  <2>2. recovery' \in Passes
    BY <1>0, <1>2, <2>1 DEF TypeOK, Inspect
  <2> QED BY <1>0, <1>2, <2>2 DEF TypeOK, Inspect
<1>3. ASSUME NEW f \in Files, Recover(f) PROVE TypeOK'
  <2>1. file' \in [Files -> FileStates] /\ recovery' \in Passes
    BY <1>0, <1>3, RecoverProgress, InspectedType DEF FilesProgress, Recover
  <2> QED BY <1>0, <1>3, <2>1 DEF TypeOK, Recover
<1>4. ASSUME NEW f \in Files, StorageFails(f) \/ RecoveryFails(f) PROVE TypeOK'
  <2>1. PutOff(f)
    BY <1>4 DEF StorageFails, RecoveryFails
  <2>2. file' \in [Files -> FileStates] /\ recovery' \in Passes
    BY <1>0, <2>1, PutOffProgress, InspectedType DEF FilesProgress, PutOff
  <2>3. faults' \in 0..MaxFaults
    BY <1>0, <1>4 DEF TypeOK, StorageFails, RecoveryFails
  <2>4. UNCHANGED <<clock, mutable, requirements, upload, external, queue, acknowledged, delivery>>
    BY <1>4 DEF StorageFails, RecoveryFails
  <2> QED BY <1>0, <2>2, <2>3, <2>4 DEF TypeOK
<1> QED BY <1>1, <1>2, <1>3, <1>4 DEF Recovery

LEMMA StepType == IInv /\ [Next]_vars => TypeOK'
<1> SUFFICES ASSUME IInv, [Next]_vars PROVE TypeOK'
  OBVIOUS
<1>0. TypeOK
  BY DEF IInv
<1>1. CASE Commands
  BY <1>0, <1>1, CommandsType, RequestType DEF Commands
<1>2. CASE Uploads
  BY <1>2, UploadsType DEF Uploads
<1>3. CASE Scanner
  BY <1>0, <1>3, ScannerType DEF Scanner
<1>4. CASE Deliveries
  BY <1>4, DeliveriesType DEF Deliveries
<1>5. CASE Recovery
  BY <1>5, RecoveryType
<1>6. CASE WorkerStops
  <2>1. /\ delivery' = [s \in Slots |-> IdleDelivery] /\ recovery' = IdleRecovery /\ faults' \in 0..MaxFaults
        /\ UNCHANGED <<clock, mutable, requirements, file, upload, external, queue, acknowledged>>
    BY <1>0, <1>6 DEF WorkerStops, TypeOK
  <2> QED BY <1>0, <2>1 DEF TypeOK, IdleDelivery, IdleRecovery
<1>7. CASE Freeze
  <2>1. mutable' \in BOOLEAN /\ UNCHANGED <<clock, requirements, file, upload, external, worker, faults>>
    BY <1>7 DEF Freeze
  <2> QED BY <1>0, <2>1 DEF TypeOK
<1>9. CASE Tick
  <2>1. clock' \in 0..MaxClock /\ UNCHANGED <<mutable, requirements, file, upload, external, worker, faults>>
    BY <1>0, <1>9, BoundsAreNat DEF TypeOK, Tick
  <2> QED BY <1>0, <2>1 DEF TypeOK
<1>8. CASE UNCHANGED vars
  BY <1>0, <1>8 DEF TypeOK, vars
<1> QED BY <1>1, <1>2, <1>3, <1>4, <1>5, <1>6, <1>7, <1>8, <1>9 DEF Next

-----------------------------------------------------------------------------
(***************************************************************************)
(* The steps, by what they do to requirements, decisions and attempts.     *)
(***************************************************************************)
\* Requirements and decisions are left alone, and attempts go on.
Proceeds == FilesProgress /\ UNCHANGED <<requirement, decision>>

LEMMA UploadsProceed ==
  ASSUME TypeOK, WorkIsGiven, NEW f \in Files, Record(f) \/ PutFails(f) \/ ApiCrash(f)
  PROVE  Proceeds
<1>1. FilesProgress
  <2>1. CASE ApiCrash(f)
    BY <2>1, FilesRest DEF ApiCrash
  <2> QED BY <2>1, RecordProgress, PutFailsProgress
<1>2. UNCHANGED <<requirement, decision>>
  BY DEF Record, PutFails, ApiCrash, requirements
<1> QED BY <1>1, <1>2 DEF Proceeds

LEMMA ScannerProceeds ==
  ASSUME TypeOK, NEW f \in Files,
         Store(f) \/ Tag(f) \/ TaggingFails(f) \/ \E result \in {Clean, "THREATS_FOUND"} : Scan(f, result)
  PROVE  Proceeds
<1>1. UNCHANGED <<file, requirement, decision>>
  BY DEF Store, Tag, TaggingFails, Scan, requirements
<1> QED BY <1>1, FilesRest DEF Proceeds

LEMMA DeliveriesProceed ==
  ASSUME TypeOK, AttemptsBelong, WorkIsGiven, NEW s \in Slots,
         \/ \E m \in queue \cup acknowledged : Receive(s, m) \/ Discard(s, m)
         \/ Fetch(s) \/ Finalize(s) \/ DeliveryFails(s)
  PROVE  Proceeds
<1>1. CASE Finalize(s)
  <2>1. UNCHANGED <<requirement, decision>>
    BY <1>1 DEF Finalize, requirements
  <2> QED BY <1>1, <2>1, FinalizeProgress DEF Proceeds
<1>2. CASE \/ \E m \in queue \cup acknowledged : Receive(s, m) \/ Discard(s, m)
           \/ Fetch(s) \/ DeliveryFails(s)
  <2>1. UNCHANGED <<file, requirement, decision>>
    BY <1>2 DEF Receive, Discard, Fetch, DeliveryFails, requirements
  <2> QED BY <2>1, FilesRest DEF Proceeds
<1> QED BY <1>1, <1>2

LEMMA RecoveryProceeds ==
  ASSUME TypeOK, WorkIsGiven, Recovery
  PROVE  Proceeds
<1>1. CASE Pass
  <2>1. UNCHANGED <<file, requirement, decision>>
    BY <1>1 DEF Pass, requirements
  <2> QED BY <2>1, FilesRest DEF Proceeds
<1>2. ASSUME NEW f \in Files, Inspect(f) \/ Recover(f) \/ StorageFails(f) \/ RecoveryFails(f)
      PROVE  Proceeds
  <2>1. UNCHANGED <<requirement, decision>>
    BY <1>2 DEF Inspect, Recover, StorageFails, RecoveryFails, requirements
  <2>2. CASE Inspect(f)
    BY <2>1, <2>2, FilesRest DEF Proceeds, Inspect
  <2>3. CASE Recover(f)
    BY <2>1, <2>3, RecoverProgress DEF Proceeds
  <2>4. CASE StorageFails(f) \/ RecoveryFails(f)
    <3>1. PutOff(f)
      BY <2>4 DEF StorageFails, RecoveryFails
    <3> QED BY <2>1, <3>1, PutOffProgress DEF Proceeds
  <2> QED BY <1>2, <2>2, <2>3, <2>4
<1> QED BY <1>1, <1>2 DEF Recovery

\* A step opens rounds, closes one, takes a decision or reserves an attempt; or
\* requirements and decisions rest and attempts go on.
LEMMA StepKinds ==
  ASSUME IInv, [Next]_vars
  PROVE  \/ Proceeds
         \/ \E batch \in SUBSET Identities : Request(batch)
         \/ \E q \in Requirements : Cancel(q) \/ Replace(q)
         \/ \E q \in Requirements, outcome \in Outcomes, evidence \in Files \cup {NoFile} :
              Decide(q, outcome, evidence)
         \/ \E q \in Requirements, f \in Files : Reserve(q, f)
<1>0. TypeOK /\ AttemptsBelong /\ WorkIsGiven
  BY DEF IInv
<1>1. ASSUME NEW q \in Requirements, Review(q) PROVE Proceeds
  <2>1. UNCHANGED <<requirement, decision>>
    BY <1>1 DEF Review, requirements
  <2> QED BY <1>0, <1>1, <2>1, ReviewProgress DEF Proceeds
<1>2. CASE Commands
  BY <1>1, <1>2 DEF Commands
<1>3. CASE Uploads
  BY <1>0, <1>3, UploadsProceed DEF Uploads
<1>4. CASE Scanner
  BY <1>0, <1>4, ScannerProceeds DEF Scanner
<1>5. CASE Deliveries
  BY <1>0, <1>5, DeliveriesProceed DEF Deliveries
<1>6. CASE Recovery
  BY <1>0, <1>6, RecoveryProceeds
<1>7. CASE WorkerStops \/ Freeze \/ Tick \/ UNCHANGED vars
  <2>1. UNCHANGED <<file, requirement, decision>>
    BY <1>7 DEF WorkerStops, Freeze, Tick, vars, requirements
  <2> QED BY <1>0, <2>1, FilesRest DEF Proceeds
<1> QED BY <1>2, <1>3, <1>4, <1>5, <1>6, <1>7 DEF Next

-----------------------------------------------------------------------------
(***************************************************************************)
(* Rounds follow each other.                                               *)
(***************************************************************************)
\* A requirement is a round of an identity.
LEMMA RequirementShape ==
  ASSUME NEW q \in Requirements
  PROVE  q[1] \in Identities /\ q[2] \in 1..MaxRound /\ q = <<q[1], q[2]>>
  BY DEF Requirements

\* The number of rounds of an identity is the number of the last of them.
LEMMA LastRound ==
  ASSUME NEW i \in Identities, NEW k \in 0..MaxRound,
         \A n \in 1..MaxRound : requirement[<<i, n>>].state = "ABSENT" <=> k < n
  PROVE  Last(i) = k
<1>1. k \in Nat /\ MaxRound \in Nat
  BY BoundsAreNat
<1>2. {n \in 1..MaxRound : requirement[<<i, n>>].state # "ABSENT"} = 1..k
  BY <1>1
<1>3. Cardinality(1..k) = k
  BY <1>1, FS_Interval
<1> QED BY <1>2, <1>3 DEF Last

\* Rounds stay in order as long as none opens.
LEMMA RoundsRest ==
  ASSUME RoundsInOrder,
         \A q \in Requirements : /\ requirement'[q].state = "ABSENT" <=> requirement[q].state = "ABSENT"
                                 /\ requirement'[q].state = "OPEN" => requirement[q].state = "OPEN"
  PROVE  RoundsInOrder'
<1>1. \A i \in Identities, n \in 1..MaxRound : <<i, n>> \in Requirements
  BY DEF Requirements
<1>2. ASSUME NEW i \in Identities
      PROVE  \E k \in 0..MaxRound :
               \A n \in 1..MaxRound : /\ requirement'[<<i, n>>].state = "ABSENT" <=> k < n
                                      /\ requirement'[<<i, n>>].state = "OPEN" => n = k
  BY <1>1 DEF RoundsInOrder, IsOpen
<1> QED BY <1>2 DEF RoundsInOrder, IsOpen

\* The requirement closed by a command has begun and is not open.
LEMMA ClosedState ==
  ASSUME TypeOK, NEW q \in Requirements, NEW state
  PROVE  Closed(q, state).state = state /\ Closed(q, state).current = Current(q)
<1>1. requirement[q] \in RequirementStates
  BY DEF TypeOK
<1> QED BY <1>1 DEF Closed, Current, RequirementStates

LEMMA CancelRounds ==
  ASSUME TypeOK, RoundsInOrder, NEW q \in Requirements, Cancel(q)
  PROVE  RoundsInOrder'
<1>1. requirement' = [requirement EXCEPT ![q] = Closed(q, "CANCELLED")] /\ requirement[q].state = "OPEN"
  BY DEF Cancel, IsOpen
<1>2. requirement \in [Requirements -> RequirementStates]
  BY DEF TypeOK
<1>3. Closed(q, "CANCELLED").state = "CANCELLED"
  BY ClosedState
<1> QED BY <1>1, <1>2, <1>3, RoundsRest

LEMMA ReserveRounds ==
  ASSUME TypeOK, RoundsInOrder, NEW q \in Requirements, NEW f \in Files, Reserve(q, f)
  PROVE  RoundsInOrder'
<1>1. requirement' = [requirement EXCEPT ![q].current = f]
  BY DEF Reserve
<1>2. requirement \in [Requirements -> RequirementStates]
  BY DEF TypeOK
<1>3. \A r \in Requirements : requirement'[r].state = requirement[r].state
  BY <1>1, <1>2 DEF RequirementStates
<1> QED BY <1>3, RoundsRest

\* The open round is the last, so the one that supersedes it is the next.
LEMMA ReplaceRounds ==
  ASSUME TypeOK, RoundsInOrder, NEW q \in Requirements, Replace(q)
  PROVE  /\ RoundsInOrder'
         /\ <<q[1], q[2] + 1>> \in Requirements
         /\ requirement[<<q[1], q[2] + 1>>].state = "ABSENT"
<1>1. PICK i \in Identities, n \in 1..MaxRound : q = <<i, n>> /\ i = q[1] /\ n = q[2]
  BY RequirementShape
<1>2. /\ requirement[<<i, n>>].state = "OPEN" /\ n < MaxRound
      /\ requirement' = [requirement EXCEPT ![<<i, n>>] = Closed(q, "SUPERSEDED"), ![<<i, n + 1>>] = Open(scope + 1)]
  BY <1>1 DEF Replace, IsOpen
<1>3. \A m \in 1..MaxRound : /\ requirement[<<i, m>>].state = "ABSENT" <=> n < m
                             /\ requirement[<<i, m>>].state = "OPEN" => m = n
  <2>1. PICK k \in 0..MaxRound :
          \A m \in 1..MaxRound : /\ requirement[<<i, m>>].state = "ABSENT" <=> k < m
                                 /\ requirement[<<i, m>>].state = "OPEN" => m = k
    BY DEF RoundsInOrder, IsOpen
  <2>2. n = k
    BY <1>2, <2>1
  <2> QED BY <2>1, <2>2
<1>4. n + 1 \in 1..MaxRound /\ n < n + 1
  BY <1>2, BoundsAreNat
<1>5. requirement[<<i, n + 1>>].state = "ABSENT" /\ <<i, n + 1>> \in Requirements
  BY <1>3, <1>4 DEF Requirements
<1>6. requirement \in [Requirements -> RequirementStates]
  BY DEF TypeOK
<1>7. Open(scope + 1).state = "OPEN" /\ Closed(q, "SUPERSEDED").state = "SUPERSEDED"
  BY ClosedState DEF Open
<1>8. ASSUME NEW j \in Identities
      PROVE  \E k \in 0..MaxRound :
               \A m \in 1..MaxRound : /\ requirement'[<<j, m>>].state = "ABSENT" <=> k < m
                                      /\ requirement'[<<j, m>>].state = "OPEN" => m = k
  <2>1. CASE j = i
    <3>1. ASSUME NEW m \in 1..MaxRound
          PROVE  /\ requirement'[<<i, m>>].state = "ABSENT" <=> n + 1 < m
                 /\ requirement'[<<i, m>>].state = "OPEN" => m = n + 1
      <4>1. <<i, m>> \in Requirements
        BY DEF Requirements
      <4>2. CASE m = n
        BY <1>2, <1>4, <1>6, <1>7, <4>1, <4>2
      <4>3. CASE m = n + 1
        BY <1>2, <1>4, <1>6, <1>7, <4>1, <4>3
      <4>4. CASE m # n /\ m # n + 1
        <5>1. requirement'[<<i, m>>] = requirement[<<i, m>>]
          BY <1>2, <1>6, <4>1, <4>4
        <5>2. n < m <=> n + 1 < m
          BY <4>4
        <5> QED BY <1>3, <4>4, <5>1, <5>2
      <4> QED BY <4>2, <4>3, <4>4
    <3>2. n + 1 \in 0..MaxRound
      BY <1>4
    <3> QED BY <2>1, <3>1, <3>2
  <2>2. CASE j # i
    <3>1. \A m \in 1..MaxRound : requirement'[<<j, m>>] = requirement[<<j, m>>]
      BY <1>2, <1>6, <2>2 DEF Requirements
    <3>2. \E k \in 0..MaxRound :
            \A m \in 1..MaxRound : /\ requirement[<<j, m>>].state = "ABSENT" <=> k < m
                                   /\ requirement[<<j, m>>].state = "OPEN" => m = k
      BY DEF RoundsInOrder, IsOpen
    <3> QED BY <3>1, <3>2
  <2> QED BY <2>1, <2>2
<1> QED BY <1>1, <1>5, <1>8 DEF RoundsInOrder, IsOpen

\* A batch opens the next round of each of its identities, which had not begun.
LEMMA RequestRounds ==
  ASSUME TypeOK, RoundsInOrder, NEW batch \in SUBSET Identities, Request(batch)
  PROVE  /\ RoundsInOrder'
         /\ \A q \in Requirements :
              \/ requirement'[q] = requirement[q]
              \/ requirement[q].state = "ABSENT" /\ requirement'[q] = Open(scope + 1)
<1>1. Open(scope + 1).state = "OPEN"
  BY DEF Open
<1>2. ASSUME NEW i \in Identities
      PROVE  /\ \E k \in 0..MaxRound :
                  \A m \in 1..MaxRound : /\ requirement'[<<i, m>>].state = "ABSENT" <=> k < m
                                         /\ requirement'[<<i, m>>].state = "OPEN" => m = k
             /\ \A m \in 1..MaxRound :
                  \/ requirement'[<<i, m>>] = requirement[<<i, m>>]
                  \/ requirement[<<i, m>>].state = "ABSENT" /\ requirement'[<<i, m>>] = Open(scope + 1)
  <2>1. PICK k \in 0..MaxRound :
          \A m \in 1..MaxRound : /\ requirement[<<i, m>>].state = "ABSENT" <=> k < m
                                 /\ requirement[<<i, m>>].state = "OPEN" => m = k
    BY DEF RoundsInOrder, IsOpen
  <2>2. Last(i) = k
    BY <2>1, LastRound
  <2>3. ASSUME NEW m \in 1..MaxRound
        PROVE  requirement'[<<i, m>>] =
                 IF i \in batch /\ m = k + 1 THEN Open(scope + 1) ELSE requirement[<<i, m>>]
    <3>1. <<i, m>> \in Requirements
      BY DEF Requirements
    <3> QED BY <2>2, <3>1 DEF Request
  <2>4. CASE i \in batch
    <3>1. k < MaxRound /\ (k # 0 => requirement[<<i, k>>].state # "OPEN")
      BY <2>2, <2>4 DEF Request, IsOpen
    <3>2. k + 1 \in 1..MaxRound /\ k < k + 1
      BY <3>1, BoundsAreNat
    <3>3. ASSUME NEW m \in 1..MaxRound
          PROVE  /\ requirement'[<<i, m>>].state = "ABSENT" <=> k + 1 < m
                 /\ requirement'[<<i, m>>].state = "OPEN" => m = k + 1
      <4>1. CASE m = k + 1
        BY <1>1, <2>3, <2>4, <4>1
      <4>2. CASE m # k + 1
        <5>1. requirement'[<<i, m>>] = requirement[<<i, m>>] /\ (k < m <=> k + 1 < m)
          BY <2>3, <4>2
        <5>2. requirement[<<i, m>>].state # "OPEN"
          BY <2>1, <3>1
        <5> QED BY <2>1, <5>1, <5>2
      <4> QED BY <4>1, <4>2
    <3>4. k + 1 \in 0..MaxRound /\ requirement[<<i, k + 1>>].state = "ABSENT"
      BY <2>1, <3>2
    <3>5. \E l \in 0..MaxRound :
            \A m \in 1..MaxRound : /\ requirement'[<<i, m>>].state = "ABSENT" <=> l < m
                                   /\ requirement'[<<i, m>>].state = "OPEN" => m = l
      BY <3>3, <3>4
    <3> QED BY <2>3, <3>4, <3>5
  <2>5. CASE i \notin batch
    <3>1. \A m \in 1..MaxRound : requirement'[<<i, m>>] = requirement[<<i, m>>]
      BY <2>3, <2>5
    <3> QED BY <2>1, <3>1
  <2> QED BY <2>4, <2>5
<1>3. RoundsInOrder'
  BY <1>2 DEF RoundsInOrder, IsOpen
<1>4. ASSUME NEW q \in Requirements
      PROVE  \/ requirement'[q] = requirement[q]
             \/ requirement[q].state = "ABSENT" /\ requirement'[q] = Open(scope + 1)
  <2>1. PICK i \in Identities, m \in 1..MaxRound : q = <<i, m>>
    BY RequirementShape
  <2> QED BY <1>2, <2>1
<1> QED BY <1>3, <1>4

-----------------------------------------------------------------------------
(***************************************************************************)
(* Requirements, decisions and attempts belong together.                   *)
(***************************************************************************)
\* Attempts that go on keep to their requirements, and the evidence stays settled.
LEMMA ProceedsSettled ==
  ASSUME TypeOK, AttemptsBelong, EvidenceIsSettled, Proceeds
  PROVE  AttemptsBelong' /\ EvidenceIsSettled'
<1>1. requirement' = requirement /\ decision' = decision
  BY DEF Proceeds
<1>2. ASSUME NEW f \in Files
      PROVE  /\ file'[f].request = file[f].request
             /\ file[f].state # "UNUSED" => file'[f].state # "UNUSED"
             /\ file'[f].state # "UNUSED" => file[f].state # "UNUSED"
             /\ file'[f].recorded \/ file'[f].published => file'[f].state # "UNUSED"
             /\ file'[f].state = "AVAILABLE" => file'[f].recorded
             /\ file'[f].state = "PROCESSING" => file[f].state = "PROCESSING"
             /\ file[f].published => file'[f].published
             /\ file'[f].published => file[f].published \/ file[f].state = "PROCESSING"
  <2>1. Progresses(f)
    BY DEF Proceeds, FilesProgress
  <2>2. /\ file[f].recorded \/ file[f].published => file[f].state # "UNUSED"
        /\ file[f].state = "AVAILABLE" => file[f].recorded
    BY DEF AttemptsBelong
  <2> QED BY <2>1, <2>2 DEF Progresses
<1>3. \A q \in Requirements : Current(q)' = Current(q) /\ Current(q) \in Files \cup {NoFile}
  BY <1>1, CurrentType DEF Current
<1>4. AttemptsBelong'
  BY <1>1, <1>2, <1>3 DEF AttemptsBelong
<1>5. EvidenceIsSettled'
  <2>1. ASSUME NEW f \in Files, file'[f].state = "PROCESSING" \/ file'[f].published
        PROVE  /\ requirement'[file'[f].request].current = f
               /\ file'[f].state = "PROCESSING" => requirement'[file'[f].request].state = "OPEN"
    <3>1. file'[f].request = file[f].request /\ (file[f].state = "PROCESSING" \/ file[f].published)
      BY <1>2, <2>1
    <3>2. /\ Current(file[f].request) = f
          /\ file[f].state = "PROCESSING" => IsOpen(file[f].request)
      BY <3>1 DEF EvidenceIsSettled
    <3> QED BY <1>1, <1>2, <3>1, <3>2 DEF Current, IsOpen
  <2>2. ASSUME NEW q \in Requirements, decision'[q].outcome \in {"SATISFIED", "NOT_SATISFIED"}
        PROVE  decision'[q].evidence = Current(q)' /\ WasPublished(q)'
    <3>1. decision[q].evidence = Current(q) /\ Current(q) # NoFile /\ file[Current(q)].published
      BY <1>1, <2>2 DEF EvidenceIsSettled, WasPublished
    <3>2. Current(q) \in Files /\ Current(q)' = Current(q)
      BY <1>3, <3>1
    <3>3. file'[Current(q)].published
      BY <1>2, <3>1, <3>2
    <3> QED BY <1>1, <3>1, <3>2, <3>3 DEF WasPublished
  <2> QED BY <2>1, <2>2 DEF EvidenceIsSettled, Current, IsOpen
<1> QED BY <1>4, <1>5

\* A command that keeps the current files, and fails what it leaves behind in
\* processing, leaves everything settled.
LEMMA CommandSettled ==
  ASSUME TypeOK, AttemptsBelong, EvidenceIsSettled,
         decision' = decision,
         \A q \in Requirements : /\ requirement'[q].current = Current(q)
                                 /\ requirement'[q].state = "ABSENT" => requirement[q].state = "ABSENT",
         \A f \in Files : /\ file'[f].request = file[f].request
                          /\ file'[f].recorded = file[f].recorded
                          /\ file'[f].published = file[f].published
                          /\ \/ file'[f].state = file[f].state
                             \/ file[f].state = "PROCESSING" /\ file'[f].state = "FAILED",
         \A f \in Files : file'[f].state = "PROCESSING" => requirement'[file[f].request].state = "OPEN"
  PROVE  AttemptsBelong' /\ EvidenceIsSettled'
<1>1. \A q \in Requirements : Current(q)' = Current(q) /\ Current(q) \in Files \cup {NoFile}
  BY CurrentType DEF Current
<1>2. ASSUME NEW f \in Files
      PROVE  /\ file'[f].state # "UNUSED" <=> file[f].state # "UNUSED"
             /\ file'[f].state = "AVAILABLE" => file[f].state = "AVAILABLE"
             /\ file'[f].state = "PROCESSING" => file[f].state = "PROCESSING"
  OBVIOUS
<1>3. AttemptsBelong'
  <2>1. ASSUME NEW q \in Requirements
        PROVE  /\ requirement'[q].state = "ABSENT" => Current(q)' = NoFile /\ decision'[q].outcome = "none"
               /\ Current(q)' # NoFile => file'[Current(q)'].request = q /\ file'[Current(q)'].state # "UNUSED"
    BY <1>1, <1>2 DEF AttemptsBelong
  <2>2. ASSUME NEW f \in Files
        PROVE  /\ file'[f].state # "UNUSED" => file'[f].request \in Requirements
               /\ file'[f].recorded \/ file'[f].published => file'[f].state # "UNUSED"
               /\ file'[f].state = "AVAILABLE" => file'[f].recorded
    BY <1>2 DEF AttemptsBelong
  <2> QED BY <2>1, <2>2 DEF AttemptsBelong
<1>4. EvidenceIsSettled'
  <2>1. ASSUME NEW f \in Files, file'[f].state = "PROCESSING" \/ file'[f].published
        PROVE  /\ requirement'[file'[f].request].current = f
               /\ file'[f].state = "PROCESSING" => requirement'[file'[f].request].state = "OPEN"
    <3>1. file'[f].request = file[f].request /\ (file[f].state = "PROCESSING" \/ file[f].published)
      BY <1>2, <2>1
    <3>2. Current(file[f].request) = f
      BY <3>1 DEF EvidenceIsSettled
    <3>3. file[f].request \in Requirements
      BY <3>1 DEF AttemptsBelong
    <3> QED BY <1>1, <3>1, <3>2, <3>3
  <2>2. ASSUME NEW q \in Requirements, decision'[q].outcome \in {"SATISFIED", "NOT_SATISFIED"}
        PROVE  decision'[q].evidence = Current(q)' /\ WasPublished(q)'
    <3>1. decision[q].evidence = Current(q) /\ Current(q) # NoFile /\ file[Current(q)].published
      BY <2>2 DEF EvidenceIsSettled, WasPublished
    <3>2. Current(q) \in Files /\ Current(q)' = Current(q)
      BY <1>1, <3>1
    <3>3. file'[Current(q)].published
      BY <3>1, <3>2
    <3> QED BY <3>1, <3>2, <3>3 DEF WasPublished
  <2> QED BY <2>1, <2>2 DEF EvidenceIsSettled, Current, IsOpen
<1> QED BY <1>3, <1>4

\* The attempts that a command does not fail are in requirements it does not close.
LEMMA EndsSettled ==
  ASSUME TypeOK, RoundsInOrder, AttemptsBelong, EvidenceIsSettled,
         NEW q \in Requirements, Cancel(q) \/ Replace(q)
  PROVE  AttemptsBelong' /\ EvidenceIsSettled'
<1>1. EndsAttempt(q) /\ decision' = decision
  BY DEF Cancel, Replace
<1>2. \A f \in Files : /\ file'[f].request = file[f].request
                       /\ file'[f].recorded = file[f].recorded
                       /\ file'[f].published = file[f].published
                       /\ file'[f].state = IF Current(q) = f /\ file[f].state = "PROCESSING"
                                           THEN "FAILED" ELSE file[f].state
  BY <1>1, EndedAttempt
<1>3. requirement \in [Requirements -> RequirementStates]
  BY DEF TypeOK
<1>4. /\ \A r \in Requirements : /\ requirement'[r].current = Current(r)
                                 /\ requirement'[r].state = "ABSENT" => requirement[r].state = "ABSENT"
      /\ \A r \in Requirements : r # q /\ IsOpen(r) => requirement'[r].state = "OPEN"
  <2>1. CASE Cancel(q)
    <3>1. requirement' = [requirement EXCEPT ![q] = Closed(q, "CANCELLED")]
      BY <2>1 DEF Cancel
    <3>2. Closed(q, "CANCELLED").state = "CANCELLED" /\ Closed(q, "CANCELLED").current = Current(q)
      BY ClosedState
    <3> QED BY <1>3, <3>1, <3>2 DEF Current, IsOpen
  <2>2. CASE Replace(q)
    <3>1. PICK n \in Requirements : n = <<q[1], q[2] + 1>> /\ requirement[n].state = "ABSENT"
      BY <2>2, ReplaceRounds
    <3>2. requirement' = [requirement EXCEPT ![q] = Closed(q, "SUPERSEDED"), ![n] = Open(scope + 1)]
      BY <2>2, <3>1 DEF Replace
    <3>3. Closed(q, "SUPERSEDED").state = "SUPERSEDED" /\ Closed(q, "SUPERSEDED").current = Current(q)
      BY ClosedState
    <3>4. Open(scope + 1).state = "OPEN" /\ Open(scope + 1).current = NoFile /\ Current(n) = NoFile
      BY <3>1 DEF Open, AttemptsBelong
    <3>5. requirement[q].state = "OPEN" /\ n # q
      BY <2>2, <3>1 DEF Replace, IsOpen
    <3> QED BY <1>3, <3>2, <3>3, <3>4, <3>5 DEF Current, IsOpen
  <2> QED BY <2>1, <2>2
<1>5. ASSUME NEW f \in Files, file'[f].state = "PROCESSING"
      PROVE  requirement'[file[f].request].state = "OPEN"
  <2>1. file[f].state = "PROCESSING" /\ Current(q) # f
    BY <1>2, <1>5
  <2>2. /\ file[f].request \in Requirements /\ Current(file[f].request) = f
        /\ IsOpen(file[f].request)
    BY <2>1 DEF AttemptsBelong, EvidenceIsSettled
  <2>3. file[f].request # q
    BY <2>1, <2>2
  <2> QED BY <1>4, <2>2, <2>3
<1> QED BY <1>1, <1>2, <1>4, <1>5, CommandSettled

LEMMA RequestSettled ==
  ASSUME TypeOK, RoundsInOrder, AttemptsBelong, EvidenceIsSettled,
         NEW batch \in SUBSET Identities, Request(batch)
  PROVE  AttemptsBelong' /\ EvidenceIsSettled'
<1>1. file' = file /\ decision' = decision
  BY DEF Request
<1>2. \A q \in Requirements :
        \/ requirement'[q] = requirement[q]
        \/ requirement[q].state = "ABSENT" /\ requirement'[q] = Open(scope + 1)
  BY RequestRounds
<1>3. Open(scope + 1).current = NoFile /\ Open(scope + 1).state = "OPEN"
  BY DEF Open
<1>4. \A q \in Requirements : /\ requirement'[q].current = Current(q)
                              /\ requirement'[q].state = "ABSENT" => requirement[q].state = "ABSENT"
                              /\ IsOpen(q) => requirement'[q].state = "OPEN"
  BY <1>2, <1>3 DEF AttemptsBelong, Current, IsOpen
<1>5. \A f \in Files : file'[f].state = "PROCESSING" => requirement'[file[f].request].state = "OPEN"
  BY <1>1, <1>4 DEF AttemptsBelong, EvidenceIsSettled
<1> QED BY <1>1, <1>4, <1>5, CommandSettled

\* A decision other than a waiver is about the published current file.
LEMMA DecideSettled ==
  ASSUME TypeOK, AttemptsBelong, EvidenceIsSettled,
         NEW q \in Requirements, NEW outcome \in Outcomes, NEW evidence \in Files \cup {NoFile},
         Decide(q, outcome, evidence)
  PROVE  AttemptsBelong' /\ EvidenceIsSettled'
<1> DEFINE d == [outcome |-> outcome, evidence |-> evidence]
<1>1. UNCHANGED <<requirement, file>> /\ decision' = [decision EXCEPT ![q] = d]
  BY DEF Decide, requirements
<1>2. d.outcome = outcome /\ d.evidence = evidence
  OBVIOUS
<1>3. outcome # "WAIVED" => evidence = Current(q) /\ WasPublished(q)
  BY DEF Decide, Evidenced
<1> HIDE DEF d
<1>4. \A r \in Requirements : decision'[r] = IF r = q THEN d ELSE decision[r]
  BY <1>1 DEF TypeOK
<1>5. AttemptsBelong'
  <2>1. requirement[q].state # "ABSENT"
    BY DEF Decide, IsOpen
  <2> QED BY <1>1, <1>4, <2>1 DEF AttemptsBelong, Current
<1>6. EvidenceIsSettled'
  <2>1. ASSUME NEW r \in Requirements, decision'[r].outcome \in {"SATISFIED", "NOT_SATISFIED"}
        PROVE  decision'[r].evidence = Current(r) /\ WasPublished(r)
    <3>1. CASE r = q
      BY <1>2, <1>3, <1>4, <2>1, <3>1
    <3>2. CASE r # q
      BY <1>4, <2>1, <3>2 DEF EvidenceIsSettled
    <3> QED BY <3>1, <3>2
  <2> QED BY <1>1, <2>1 DEF EvidenceIsSettled, Current, IsOpen, WasPublished
<1> QED BY <1>5, <1>6

\* An attempt is reserved only where none was, or where one failed that nobody saw.
LEMMA ReserveShape ==
  ASSUME TypeOK, NEW q \in Requirements, NEW f \in Files, Reserve(q, f)
  PROVE  /\ decision' = decision
         /\ \A e \in Files : e # f => file'[e] = file[e]
         /\ file[f].state = "UNUSED" /\ ~file[f].recorded /\ ~file[f].published
         /\ file'[f].request = q /\ file'[f].state = "PROCESSING"
         /\ ~file'[f].recorded /\ ~file'[f].published
         /\ \A r \in Requirements : /\ requirement'[r].state = requirement[r].state
                                   /\ requirement'[r].current = IF r = q THEN f ELSE Current(r)
         /\ requirement[q].state = "OPEN"
         /\ Current(q) # NoFile =>
              /\ Current(q) \in Files /\ file[Current(q)].state = "FAILED"
              /\ ~file[Current(q)].published
<1>1. file[f] = Unused /\ file \in [Files -> FileStates]
  BY DEF Reserve, TypeOK
<1>2. /\ Unused.state = "UNUSED" /\ Unused.recorded = FALSE /\ Unused.published = FALSE
  BY DEF Unused
<1> DEFINE g == [Unused EXCEPT !.request = q, !.state = "PROCESSING",
                               !.recoverAfter = clock + RecoveryDelay, !.expiresAt = clock + ProcessingTimeout]
<1>3. g.request = q /\ g.state = "PROCESSING" /\ g.recorded = FALSE /\ g.published = FALSE
  BY DEF Unused
<1>4. file' = [file EXCEPT ![f] = g]
  BY DEF Reserve
<1> HIDE DEF g
<1>5. file'[f] = g /\ \A e \in Files : e # f => file'[e] = file[e]
  BY <1>1, <1>4
<1>6. \A r \in Requirements : /\ requirement'[r].state = requirement[r].state
                             /\ requirement'[r].current = IF r = q THEN f ELSE Current(r)
  <2>1. requirement' = [requirement EXCEPT ![q].current = f] /\ requirement \in [Requirements -> RequirementStates]
    BY DEF Reserve, TypeOK
  <2> QED BY <2>1 DEF RequirementStates, Current
<1>7. requirement[q].state = "OPEN" /\ decision' = decision
  BY DEF Reserve, IsOpen
<1>8. ASSUME Current(q) # NoFile
      PROVE  Current(q) \in Files /\ file[Current(q)].state = "FAILED" /\ ~file[Current(q)].published
  <2>1. Current(q) \in Files /\ file[Current(q)].state \in {"UNUSED", "PROCESSING", "AVAILABLE", "FAILED"}
    BY <1>1, <1>8, CurrentType DEF FileStates
  <2> QED BY <1>8, <2>1 DEF Reserve, UploadAllowed, CurrentState, WasPublished
<1> QED BY <1>1, <1>2, <1>3, <1>5, <1>6, <1>7, <1>8

LEMMA ReserveSettled ==
  ASSUME TypeOK, AttemptsBelong, EvidenceIsSettled,
         NEW q \in Requirements, NEW f \in Files, Reserve(q, f)
  PROVE  AttemptsBelong' /\ EvidenceIsSettled'
<1>1. /\ decision' = decision
      /\ \A e \in Files : e # f => file'[e] = file[e]
      /\ file[f].state = "UNUSED" /\ ~file[f].recorded /\ ~file[f].published
      /\ file'[f].request = q /\ file'[f].state = "PROCESSING"
      /\ ~file'[f].recorded /\ ~file'[f].published
      /\ \A r \in Requirements : /\ requirement'[r].state = requirement[r].state
                                /\ requirement'[r].current = IF r = q THEN f ELSE Current(r)
      /\ requirement[q].state = "OPEN"
      /\ Current(q) # NoFile =>
           /\ Current(q) \in Files /\ file[Current(q)].state = "FAILED"
           /\ ~file[Current(q)].published
  BY ReserveShape
<1>2. \A r \in Requirements : Current(r) \in Files \cup {NoFile} /\ Current(r) # f
  BY <1>1, CurrentType DEF AttemptsBelong
<1>3. f # NoFile
  OBVIOUS
<1>4. AttemptsBelong'
  <2>1. ASSUME NEW r \in Requirements
        PROVE  /\ requirement'[r].state = "ABSENT" =>
                    requirement'[r].current = NoFile /\ decision'[r].outcome = "none"
               /\ requirement'[r].current # NoFile =>
                    /\ file'[requirement'[r].current].request = r
                    /\ file'[requirement'[r].current].state # "UNUSED"
    <3>1. CASE r = q
      BY <1>1, <3>1
    <3>2. CASE r # q
      BY <1>1, <1>2, <3>2 DEF AttemptsBelong
    <3> QED BY <3>1, <3>2
  <2>2. ASSUME NEW e \in Files
        PROVE  /\ file'[e].state # "UNUSED" => file'[e].request \in Requirements
               /\ file'[e].recorded \/ file'[e].published => file'[e].state # "UNUSED"
               /\ file'[e].state = "AVAILABLE" => file'[e].recorded
    <3>1. CASE e = f
      BY <1>1, <3>1
    <3>2. CASE e # f
      BY <1>1, <3>2 DEF AttemptsBelong
    <3> QED BY <3>1, <3>2
  <2> QED BY <2>1, <2>2 DEF AttemptsBelong, Current
<1>5. EvidenceIsSettled'
  <2>1. ASSUME NEW e \in Files, file'[e].state = "PROCESSING" \/ file'[e].published
        PROVE  /\ requirement'[file'[e].request].current = e
               /\ file'[e].state = "PROCESSING" => requirement'[file'[e].request].state = "OPEN"
    <3>1. CASE e = f
      BY <1>1, <3>1
    <3>2. CASE e # f
      <4>1. file'[e] = file[e] /\ (file[e].state = "PROCESSING" \/ file[e].published)
        BY <1>1, <2>1, <3>2
      <4>2. /\ file[e].request \in Requirements /\ Current(file[e].request) = e
            /\ file[e].state = "PROCESSING" => requirement[file[e].request].state = "OPEN"
        BY <4>1 DEF AttemptsBelong, EvidenceIsSettled, IsOpen
      <4>3. file[e].request # q
        BY <1>1, <4>1, <4>2
      <4> QED BY <1>1, <4>1, <4>2, <4>3
    <3> QED BY <3>1, <3>2
  <2>2. ASSUME NEW r \in Requirements, decision'[r].outcome \in {"SATISFIED", "NOT_SATISFIED"}
        PROVE  decision'[r].evidence = Current(r)' /\ WasPublished(r)'
    <3>1. decision[r].evidence = Current(r) /\ Current(r) # NoFile /\ file[Current(r)].published
      BY <1>1, <2>2 DEF EvidenceIsSettled, WasPublished
    <3>2. r # q /\ Current(r) \in Files
      BY <1>1, <1>2, <3>1
    <3>3. Current(r)' = Current(r) /\ file'[Current(r)] = file[Current(r)]
      BY <1>1, <1>2, <3>2 DEF Current
    <3> QED BY <1>1, <3>1, <3>3 DEF WasPublished
  <2> QED BY <2>1, <2>2 DEF EvidenceIsSettled, Current, IsOpen
<1> QED BY <1>4, <1>5

\* Every step leaves rounds, attempts, decisions and evidence in order.
LEMMA StepSettled ==
  ASSUME IInv, [Next]_vars
  PROVE  RoundsInOrder' /\ AttemptsBelong' /\ EvidenceIsSettled'
<1>0. TypeOK /\ RoundsInOrder /\ AttemptsBelong /\ EvidenceIsSettled
  BY DEF IInv
<1>1. CASE Proceeds
  <2>1. RoundsInOrder'
    BY <1>0, <1>1, RoundsRest DEF Proceeds
  <2> QED BY <1>0, <1>1, <2>1, ProceedsSettled
<1>2. ASSUME NEW batch \in SUBSET Identities, Request(batch)
      PROVE  RoundsInOrder' /\ AttemptsBelong' /\ EvidenceIsSettled'
  BY <1>0, <1>2, RequestRounds, RequestSettled
<1>3. ASSUME NEW q \in Requirements, Cancel(q) \/ Replace(q)
      PROVE  RoundsInOrder' /\ AttemptsBelong' /\ EvidenceIsSettled'
  BY <1>0, <1>3, CancelRounds, ReplaceRounds, EndsSettled
<1>4. ASSUME NEW q \in Requirements, NEW outcome \in Outcomes, NEW evidence \in Files \cup {NoFile},
             Decide(q, outcome, evidence)
      PROVE  RoundsInOrder' /\ AttemptsBelong' /\ EvidenceIsSettled'
  <2>1. RoundsInOrder'
    BY <1>0, <1>4, RoundsRest DEF Decide
  <2> QED BY <1>0, <1>4, <2>1, DecideSettled
<1>5. ASSUME NEW q \in Requirements, NEW f \in Files, Reserve(q, f)
      PROVE  RoundsInOrder' /\ AttemptsBelong' /\ EvidenceIsSettled'
  BY <1>0, <1>5, ReserveRounds, ReserveSettled
<1> QED BY <1>1, <1>2, <1>3, <1>4, <1>5, StepKinds

-----------------------------------------------------------------------------
(***************************************************************************)
(* What an attempt has been it does not cease to be.                       *)
(***************************************************************************)
\* An attempt stays one, its recorded version stays recorded, a failure is final, and
\* only processing ends in a publication.
LEMMA StepGoesOn ==
  ASSUME IInv, [Next]_vars, NEW f \in Files
  PROVE  /\ file[f].state # "UNUSED" => file'[f].state # "UNUSED" /\ file'[f].request = file[f].request
         /\ file[f].recorded => file'[f].recorded
         /\ file[f].state = "FAILED" => file'[f].state = "FAILED" /\ file'[f].published = file[f].published
         /\ file[f].published => file'[f].published
<1>0. TypeOK /\ AttemptsBelong
  BY DEF IInv
<1>1. file[f].recorded \/ file[f].published => file[f].state # "UNUSED"
  BY <1>0 DEF AttemptsBelong
<1>2. CASE Proceeds
  <2>1. Progresses(f)
    BY <1>2 DEF Proceeds, FilesProgress
  <2> QED BY <1>1, <2>1 DEF Progresses
<1>3. ASSUME NEW batch \in SUBSET Identities, Request(batch) PROVE file' = file
  BY <1>3 DEF Request
<1>4. ASSUME NEW q \in Requirements, Cancel(q) \/ Replace(q)
      PROVE  /\ file'[f].request = file[f].request /\ file'[f].recorded = file[f].recorded
             /\ file'[f].published = file[f].published
             /\ file'[f].state = file[f].state \/ (file[f].state = "PROCESSING" /\ file'[f].state = "FAILED")
  <2>1. EndsAttempt(q)
    BY <1>4 DEF Cancel, Replace
  <2> QED BY <1>0, <2>1, EndedAttempt
<1>5. ASSUME NEW q \in Requirements, NEW outcome \in Outcomes, NEW evidence \in Files \cup {NoFile},
             Decide(q, outcome, evidence)
      PROVE  file' = file
  BY <1>5 DEF Decide
<1>6. ASSUME NEW q \in Requirements, NEW e \in Files, Reserve(q, e)
      PROVE  file'[f] = file[f] \/ file[f].state = "UNUSED"
  BY <1>0, <1>6, ReserveShape
<1>7. \/ file' = file \/ file'[f] = file[f] \/ file[f].state = "UNUSED"
      \/ Proceeds
      \/ /\ file'[f].request = file[f].request /\ file'[f].recorded = file[f].recorded
         /\ file'[f].published = file[f].published
         /\ file'[f].state = file[f].state \/ (file[f].state = "PROCESSING" /\ file'[f].state = "FAILED")
  BY <1>3, <1>4, <1>5, <1>6, StepKinds
<1> QED BY <1>1, <1>2, <1>7

-----------------------------------------------------------------------------
(***************************************************************************)
(* Storage, scanner, queue and worker know only of attempts.               *)
(***************************************************************************)
\* What is in hand remains given while attempts go on.
LEMMA WorkRests ==
  ASSUME IInv, [Next]_vars
  PROVE  /\ UNCHANGED <<upload, object, scan, queue, acknowledged>> => TracesAreOfAttempts'
         /\ UNCHANGED delivery => DeliveriesAreGiven'
         /\ UNCHANGED recovery => PassIsGiven'
<1>0. TypeOK /\ WorkIsGiven
  BY DEF IInv
<1>1. \A f \in Files : /\ file[f].state # "UNUSED" => file'[f].state # "UNUSED"
                       /\ file[f].recorded => file'[f].recorded
  BY StepGoesOn
<1>2. ASSUME UNCHANGED <<upload, object, scan, queue, acknowledged>> PROVE TracesAreOfAttempts'
  <2>1. \A m \in queue \cup acknowledged : m[1] \in Files
    BY <1>0 DEF TypeOK
  <2> QED BY <1>0, <1>1, <1>2, <2>1 DEF WorkIsGiven, TracesAreOfAttempts
<1>3. ASSUME UNCHANGED delivery PROVE DeliveriesAreGiven'
  BY <1>0, <1>1, <1>3 DEF WorkIsGiven, DeliveriesAreGiven
<1>4. ASSUME UNCHANGED recovery PROVE PassIsGiven'
  <2>1. recovery.batch \subseteq Files /\ recovery.known \subseteq Files
    BY <1>0 DEF TypeOK
  <2> QED BY <1>0, <1>1, <1>4, <2>1 DEF WorkIsGiven, PassIsGiven
<1> QED BY <1>2, <1>3, <1>4

LEMMA UploadsWork ==
  ASSUME IInv, [Next]_vars, NEW f \in Files,
         (\E q \in Requirements : Reserve(q, f)) \/ Record(f) \/ PutFails(f) \/ ApiCrash(f)
  PROVE  WorkIsGiven'
<1>0. TypeOK /\ WorkIsGiven
  BY DEF IInv
<1>1. /\ UNCHANGED <<object, scan, queue, acknowledged, delivery, recovery>>
      /\ \E task : upload' = [upload EXCEPT ![f] = task]
  BY DEF Reserve, Record, PutFails, ApiCrash
<1>2. file'[f].state # "UNUSED"
  <2>1. ASSUME NEW q \in Requirements, Reserve(q, f) PROVE file'[f].state # "UNUSED"
    BY <1>0, <2>1, ReserveShape
  <2>2. CASE Record(f) \/ PutFails(f) \/ ApiCrash(f)
    <3>1. file[f].state # "UNUSED"
      BY <1>0, <2>2 DEF Record, PutFails, ApiCrash, WorkIsGiven, TracesAreOfAttempts
    <3> QED BY <3>1, StepGoesOn
  <2> QED BY <2>1, <2>2
<1>3. TracesAreOfAttempts'
  <2>1. \A m \in queue \cup acknowledged : m[1] \in Files
    BY <1>0 DEF TypeOK
  <2>2. \A e \in Files : e # f => upload'[e] = upload[e]
    BY <1>0, <1>1 DEF TypeOK
  <2>3. \A e \in Files : file[e].state # "UNUSED" => file'[e].state # "UNUSED"
    BY StepGoesOn
  <2>4. \A e \in Files : upload'[e] # "idle" \/ object[e] # "absent" \/ scan[e] # NoVerdict => file'[e].state # "UNUSED"
    BY <1>0, <1>2, <2>2, <2>3 DEF WorkIsGiven, TracesAreOfAttempts
  <2> QED BY <1>0, <1>1, <2>1, <2>3, <2>4 DEF WorkIsGiven, TracesAreOfAttempts
<1> QED BY <1>1, <1>3, WorkRests DEF WorkIsGiven

LEMMA ScannerWork ==
  ASSUME IInv, [Next]_vars, NEW f \in Files,
         Store(f) \/ Tag(f) \/ TaggingFails(f) \/ \E result \in {Clean, "THREATS_FOUND"} : Scan(f, result)
  PROVE  WorkIsGiven'
<1>0. TypeOK /\ WorkIsGiven
  BY DEF IInv
<1>1. UNCHANGED <<file, upload, acknowledged, delivery, recovery>>
  BY DEF Store, Tag, TaggingFails, Scan
<1>2. file[f].state # "UNUSED"
  BY <1>0 DEF Store, Tag, TaggingFails, Scan, WorkIsGiven, TracesAreOfAttempts
<1>3. /\ \A e \in Files : e # f => object'[e] = object[e] /\ scan'[e] = scan[e]
      /\ \A m \in queue' : m \in queue \/ m[1] = f
  BY <1>0 DEF Store, Tag, TaggingFails, Scan, TypeOK
<1>4. TracesAreOfAttempts'
  BY <1>0, <1>1, <1>2, <1>3 DEF WorkIsGiven, TracesAreOfAttempts
<1> QED BY <1>1, <1>4, WorkRests DEF WorkIsGiven

LEMMA DeliveriesWork ==
  ASSUME IInv, [Next]_vars, NEW s \in Slots,
         \/ \E m \in queue \cup acknowledged : Receive(s, m) \/ Discard(s, m)
         \/ Fetch(s) \/ Finalize(s) \/ DeliveryFails(s)
  PROVE  WorkIsGiven'
<1>0. TypeOK /\ WorkIsGiven
  BY DEF IInv
<1>1. UNCHANGED <<upload, object, scan, recovery>>
  BY DEF Receive, Discard, Fetch, Finalize, DeliveryFails
<1>2. \A f \in Files : /\ file[f].state # "UNUSED" => file'[f].state # "UNUSED"
                       /\ file[f].recorded => file'[f].recorded
  BY StepGoesOn
<1>3. \A m \in queue' \cup acknowledged' : m[1] \in Files /\ file[m[1]].state # "UNUSED"
  <2>1. \A m \in queue \cup acknowledged : m[1] \in Files /\ file[m[1]].state # "UNUSED"
    BY <1>0 DEF TypeOK, WorkIsGiven, TracesAreOfAttempts
  <2>2. CASE Finalize(s)
    <3>1. PICK f \in Files : f = delivery[s].file /\ file[f].state # "UNUSED"
      BY <1>0, <2>2 DEF Finalize, WorkIsGiven, DeliveriesAreGiven, IInv, AttemptsBelong
    <3>2. \A m \in queue' \cup acknowledged' : m \in queue \cup acknowledged \/ m[1] = f
      BY <2>2, <3>1 DEF Finalize
    <3> QED BY <2>1, <3>1, <3>2
  <2>3. ASSUME NEW m \in queue \cup acknowledged, Discard(s, m)
        PROVE  queue' \cup acknowledged' \subseteq queue \cup acknowledged
    BY <2>3 DEF Discard
  <2>4. CASE (\E m \in queue \cup acknowledged : Receive(s, m)) \/ Fetch(s) \/ DeliveryFails(s)
    <3>1. UNCHANGED <<queue, acknowledged>>
      BY <2>4 DEF Receive, Fetch, DeliveryFails
    <3> QED BY <2>1, <3>1
  <2> QED BY <2>1, <2>2, <2>3, <2>4
<1>4. TracesAreOfAttempts'
  BY <1>0, <1>1, <1>2, <1>3 DEF WorkIsGiven, TracesAreOfAttempts
<1>5. DeliveriesAreGiven'
  <2>1. delivery \in [Slots -> [stage : {"idle", "fetch", "finalize"}, file : Files \cup {NoFile},
                             verdict : Verdicts \cup {NoVerdict}, evidence : {NotFetched, "CLEAN", "PENDING", "UNSAFE"}]]
    BY <1>0 DEF TypeOK
  <2>2. \/ delivery'[s].stage = "idle"
        \/ /\ delivery'[s].file \in Files /\ delivery'[s].verdict \in Verdicts
           /\ file[delivery'[s].file].recorded
    <3>1. ASSUME NEW m \in queue \cup acknowledged, Receive(s, m)
          PROVE  /\ delivery'[s].file \in Files /\ delivery'[s].verdict \in Verdicts
                 /\ file[delivery'[s].file].recorded
      <4>1. m[1] \in Files /\ m[2] \in Verdicts
        BY <1>0 DEF TypeOK
      <4>2. delivery'[s].file = m[1] /\ delivery'[s].verdict = m[2]
        BY <2>1, <3>1 DEF Receive
      <4> QED BY <3>1, <4>1, <4>2 DEF Receive
    <3>2. ASSUME NEW m, Discard(s, m) PROVE delivery' = delivery
      BY <3>2 DEF Discard
    <3>3. CASE Fetch(s)
      <4>1. delivery'[s].file = delivery[s].file /\ delivery'[s].verdict = delivery[s].verdict
        BY <2>1, <3>3 DEF Fetch
      <4> QED BY <1>0, <3>3, <4>1 DEF Fetch, WorkIsGiven, DeliveriesAreGiven
    <3>4. CASE Finalize(s) \/ DeliveryFails(s)
      BY <2>1, <3>4 DEF Finalize, DeliveryFails, IdleDelivery
    <3> QED BY <1>0, <3>1, <3>2, <3>3, <3>4 DEF WorkIsGiven, DeliveriesAreGiven
  <2>3. \A r \in Slots : r # s => delivery'[r] = delivery[r]
    BY <2>1 DEF Receive, Discard, Fetch, Finalize, DeliveryFails
  <2> QED BY <1>0, <1>2, <2>2, <2>3 DEF WorkIsGiven, DeliveriesAreGiven
<1> QED BY <1>1, <1>4, <1>5, WorkRests DEF WorkIsGiven

\* A pass goes on with fewer attempts, or ends.
LEMMA InspectedGiven ==
  ASSUME TypeOK, PassIsGiven, NEW f
  PROVE  /\ Inspected(f).batch \subseteq recovery.batch /\ Inspected(f).known \subseteq recovery.known
         /\ Inspected(f).file = NoFile
<1>1. CASE recovery.batch = {f}
  BY <1>1 DEF Inspected, IdleRecovery
<1>2. CASE recovery.batch # {f}
  BY <1>2 DEF Inspected, TypeOK
<1> QED BY <1>1, <1>2

LEMMA RecoveryWork ==
  ASSUME IInv, [Next]_vars, Recovery
  PROVE  WorkIsGiven'
<1>0. TypeOK /\ WorkIsGiven
  BY DEF IInv
<1>1. UNCHANGED <<upload, object, scan, queue, acknowledged, delivery>>
  BY DEF Recovery, Pass, Inspect, Recover, StorageFails, RecoveryFails
<1>2. \A f \in Files : /\ file[f].state # "UNUSED" => file'[f].state # "UNUSED"
                       /\ file[f].recorded => file'[f].recorded
  BY StepGoesOn
<1>3. recovery.batch \subseteq Files /\ recovery.known \subseteq Files
  BY <1>0 DEF TypeOK
<1>4. CASE Pass
  <2>1. PICK batch \in SUBSET Overdue :
          recovery' = [IdleRecovery EXCEPT !.batch = batch, !.known = {f \in batch : file[f].recorded}]
    BY <1>4 DEF Pass
  <2>2. \A f \in batch : f \in Files /\ file[f].state # "UNUSED"
    BY DEF Overdue
  <2>3. /\ recovery'.batch = batch /\ recovery'.file = NoFile
        /\ recovery'.known = {f \in batch : file[f].recorded}
    BY <2>1 DEF IdleRecovery
  <2>4. PassIsGiven'
    BY <1>2, <2>2, <2>3 DEF PassIsGiven
  <2> QED BY <1>1, <2>4, WorkRests DEF WorkIsGiven
<1>5. ASSUME NEW f \in Files, Inspect(f) PROVE WorkIsGiven'
  <2>1. /\ recovery'.batch = recovery.batch /\ recovery'.known = recovery.known /\ recovery'.file = f
        /\ recovery'.evidence # NotFetched => f \in recovery.known
    BY <1>0, <1>5 DEF TypeOK, Inspect, HasEvidence
  <2>2. PassIsGiven'
    BY <1>0, <1>2, <1>3, <1>5, <2>1 DEF WorkIsGiven, PassIsGiven, Inspect
  <2> QED BY <1>1, <2>2, WorkRests DEF WorkIsGiven
<1>6. ASSUME NEW f \in Files, Recover(f) \/ StorageFails(f) \/ RecoveryFails(f) PROVE WorkIsGiven'
  <2>1. recovery' = Inspected(f)
    BY <1>6 DEF Recover, StorageFails, RecoveryFails, PutOff
  <2>2. recovery'.batch \subseteq recovery.batch /\ recovery'.known \subseteq recovery.known /\ recovery'.file = NoFile
    BY <1>0, <2>1, InspectedGiven DEF WorkIsGiven
  <2>3. PassIsGiven'
    BY <1>0, <1>2, <1>3, <2>2 DEF WorkIsGiven, PassIsGiven
  <2> QED BY <1>1, <2>3, WorkRests DEF WorkIsGiven
<1> QED BY <1>4, <1>5, <1>6 DEF Recovery

LEMMA StepWork ==
  ASSUME IInv, [Next]_vars
  PROVE  WorkIsGiven'
<1>1. CASE Commands \/ Freeze \/ Tick \/ UNCHANGED vars
  <2>1. UNCHANGED <<upload, object, scan, queue, acknowledged, delivery, recovery>>
    BY <1>1 DEF Commands, Request, Cancel, Replace, Review, Decide, Freeze, Tick, vars
  <2> QED BY <2>1, WorkRests DEF WorkIsGiven
<1>2. CASE Uploads
  BY <1>2, UploadsWork DEF Uploads
<1>3. CASE Scanner
  BY <1>3, ScannerWork DEF Scanner
<1>4. CASE Deliveries
  BY <1>4, DeliveriesWork DEF Deliveries
<1>5. CASE Recovery
  BY <1>5, RecoveryWork
<1>6. CASE WorkerStops
  <2>1. UNCHANGED <<upload, object, scan, queue, acknowledged>>
    BY <1>6 DEF WorkerStops
  <2>2. DeliveriesAreGiven' /\ PassIsGiven'
    BY <1>6 DEF WorkerStops, DeliveriesAreGiven, PassIsGiven, IdleDelivery, IdleRecovery
  <2> QED BY <2>1, <2>2, WorkRests DEF WorkIsGiven
<1> QED BY <1>1, <1>2, <1>3, <1>4, <1>5, <1>6 DEF Next

-----------------------------------------------------------------------------
(***************************************************************************)
(* Threats.                                                                *)
(***************************************************************************)
\* A verdict is acknowledged when the attempt is finalized, or when its version never
\* was recorded and the attempt is over.
LEMMA StepAcknowledges ==
  ASSUME IInv, [Next]_vars, NEW m \in acknowledged', m \notin acknowledged, m[2] # Clean
  PROVE  file'[m[1]].state = "FAILED"
<1>0. TypeOK /\ AttemptsBelong /\ WorkIsGiven
  BY DEF IInv
<1>1. PICK s \in Slots : (\E n \in queue \cup acknowledged : Discard(s, n)) \/ Finalize(s)
  BY DEF Next, Commands, Uploads, Scanner, Deliveries, Recovery, WorkerStops, Freeze, Tick, vars,
         Request, Cancel, Replace, Review, Decide, Reserve, Record, PutFails, ApiCrash,
         Store, Tag, TaggingFails, Scan, Receive, Fetch, DeliveryFails,
         Pass, Inspect, Recover, StorageFails, RecoveryFails
<1>2. ASSUME NEW n \in queue \cup acknowledged, Discard(s, n) PROVE file'[m[1]].state = "FAILED"
  <2>1. m = n /\ file' = file
    BY <1>2 DEF Discard
  <2>2. m[1] \in Files /\ file[m[1]].state \in {"UNUSED", "PROCESSING", "AVAILABLE", "FAILED"}
    BY <1>0, <2>1 DEF TypeOK, FileStates
  <2>3. file[m[1]].state # "UNUSED" /\ file[m[1]].state # "PROCESSING" /\ ~file[m[1]].recorded
    BY <1>0, <1>2, <2>1 DEF Discard, WorkIsGiven, TracesAreOfAttempts
  <2> QED BY <1>0, <2>1, <2>2, <2>3 DEF AttemptsBelong
<1>3. CASE Finalize(s)
  <2>1. m = <<delivery[s].file, delivery[s].verdict>>
    BY <1>3 DEF Finalize
  <2> QED BY <1>0, <1>3, <2>1, FinalizeProgress
<1> QED BY <1>1, <1>2, <1>3

LEMMA StepThreats ==
  ASSUME IInv, [Next]_vars
  PROVE  ThreatsHaveFailed'
<1>1. ASSUME NEW m \in acknowledged', m[2] # Clean PROVE file'[m[1]].state = "FAILED"
  <2>1. CASE m \in acknowledged
    <3>1. m[1] \in Files /\ file[m[1]].state = "FAILED"
      BY <1>1, <2>1 DEF IInv, TypeOK, ThreatsHaveFailed
    <3> QED BY <3>1, StepGoesOn
  <2>2. CASE m \notin acknowledged
    BY <1>1, <2>2, StepAcknowledges
  <2> QED BY <2>1, <2>2
<1> QED BY <1>1 DEF ThreatsHaveFailed

-----------------------------------------------------------------------------
(***************************************************************************)
(* What holds of every behaviour.                                          *)
(***************************************************************************)
LEMMA Inductive == Spec => []IInv
<1>1. IInv /\ [Next]_vars => IInv'
  <2> SUFFICES ASSUME IInv, [Next]_vars PROVE IInv'
    OBVIOUS
  <2>1. TypeOK'
    BY StepType
  <2>2. RoundsInOrder' /\ AttemptsBelong' /\ EvidenceIsSettled'
    BY StepSettled
  <2>3. WorkIsGiven' /\ ThreatsHaveFailed'
    BY StepWork, StepThreats
  <2> QED BY <2>1, <2>2, <2>3 DEF IInv
<1> QED BY <1>1, InitInv, PTL DEF Spec

\* Every variable keeps its type, whatever commands, uploads, verdicts, recovery and
\* faults do.
THEOREM TypeCorrect == Spec => []TypeOK
<1>1. IInv => TypeOK
  BY DEF IInv
<1> QED BY <1>1, Inductive, PTL

\* An attempt in processing is the current one of an open requirement, and published or
\* decided evidence stays that of its round.
THEOREM EvidenceSettled == Spec => []EvidenceIsSettled
<1>1. IInv => EvidenceIsSettled
  BY DEF IInv
<1> QED BY <1>1, Inductive, PTL

\* A threat the worker has acknowledged has failed its attempt, in whatever order verdict,
\* tag and version came, and no decision about that attempt counts.
THEOREM ThreatsStayOut == Spec => []AcknowledgedThreatIsOut
<1>1. ASSUME IInv PROVE AcknowledgedThreatIsOut
  <2>1. ASSUME NEW m \in acknowledged, m[2] # Clean
        PROVE  /\ file[m[1]].state = "FAILED"
               /\ \A q \in Requirements :
                    Current(q) = m[1] => RequirementState(q) \notin {"SATISFIED", "NOT_SATISFIED"}
    <3>1. m[1] \in Files /\ file[m[1]].state = "FAILED"
      BY <1>1, <2>1 DEF IInv, TypeOK, ThreatsHaveFailed
    <3>2. ASSUME NEW q \in Requirements, Current(q) = m[1]
          PROVE  RequirementState(q) \notin {"SATISFIED", "NOT_SATISFIED"}
      <4>1. CurrentState(q) = "FAILED"
        BY <3>1, <3>2 DEF CurrentState
      <4> QED BY <4>1 DEF RequirementState
    <3> QED BY <3>1, <3>2
  <2> QED BY <2>1 DEF AcknowledgedThreatIsOut
<1> QED BY <1>1, Inductive, PTL

\* A requirement that was closed.
IsClosed(q) == requirement[q].state \in {"CANCELLED", "SUPERSEDED"}

\* The history of verification is never rewritten: a closed round keeps its evidence and
\* its decision, a published file remains the evidence of its round, and a failed
\* attempt is never revived by a late verdict, upload or recovery.
HistoryStands ==
  /\ \A q \in Requirements :
       /\ IsClosed(q) => requirement'[q] = requirement[q] /\ decision'[q] = decision[q]
       /\ WasPublished(q) => requirement'[q].current = Current(q) /\ file'[Current(q)].published
  /\ \A f \in Files : file[f].state = "FAILED" => file'[f].state = "FAILED"

\* No command, upload, delivery or recovery rewrites the history of verification.
THEOREM HistoryIsFinal == Spec => [][HistoryStands]_vars
<1>1. ASSUME IInv, [Next]_vars PROVE HistoryStands
  <2>0. TypeOK /\ RoundsInOrder /\ AttemptsBelong /\ EvidenceIsSettled
    BY <1>1 DEF IInv
  <2>1. \A f \in Files : /\ file[f].state = "FAILED" => file'[f].state = "FAILED"
                         /\ file[f].published => file'[f].published
    BY <1>1, StepGoesOn
  <2>2. ASSUME NEW q \in Requirements
        PROVE  /\ IsClosed(q) => requirement'[q] = requirement[q] /\ decision'[q] = decision[q]
               /\ WasPublished(q) => requirement'[q].current = Current(q)
    <3>0. requirement \in [Requirements -> RequirementStates] /\ DOMAIN decision = Requirements
      BY <2>0 DEF TypeOK
    <3>1. CASE Proceeds
      BY <3>1 DEF Proceeds, Current
    <3>2. ASSUME NEW batch \in SUBSET Identities, Request(batch)
          PROVE  /\ IsClosed(q) => requirement'[q] = requirement[q] /\ decision'[q] = decision[q]
                 /\ WasPublished(q) => requirement'[q].current = Current(q)
      <4>1. \/ requirement'[q] = requirement[q]
            \/ requirement[q].state = "ABSENT" /\ Current(q) = NoFile
        BY <2>0, <3>2, RequestRounds DEF AttemptsBelong
      <4> QED BY <3>2, <4>1 DEF Request, IsClosed, WasPublished, Current
    <3>3. ASSUME NEW r \in Requirements, Cancel(r)
          PROVE  /\ IsClosed(q) => requirement'[q] = requirement[q] /\ decision'[q] = decision[q]
                 /\ WasPublished(q) => requirement'[q].current = Current(q)
      <4>1. requirement' = [requirement EXCEPT ![r] = Closed(r, "CANCELLED")] /\ decision' = decision
        BY <3>3 DEF Cancel
      <4>2. requirement[r].state = "OPEN" /\ Closed(r, "CANCELLED").current = Current(r)
        BY <2>0, <3>3, ClosedState DEF Cancel, IsOpen
      <4> QED BY <3>0, <4>1, <4>2 DEF IsClosed, Current
    <3>4. ASSUME NEW r \in Requirements, Replace(r)
          PROVE  /\ IsClosed(q) => requirement'[q] = requirement[q] /\ decision'[q] = decision[q]
                 /\ WasPublished(q) => requirement'[q].current = Current(q)
      <4>1. PICK n \in Requirements : n = <<r[1], r[2] + 1>> /\ requirement[n].state = "ABSENT"
        BY <2>0, <3>4, ReplaceRounds
      <4>2. /\ requirement' = [requirement EXCEPT ![r] = Closed(r, "SUPERSEDED"), ![n] = Open(scope + 1)]
            /\ decision' = decision
        BY <3>4, <4>1 DEF Replace
      <4>3. requirement[r].state = "OPEN" /\ Closed(r, "SUPERSEDED").current = Current(r)
        BY <2>0, <3>4, ClosedState DEF Replace, IsOpen
      <4>4. Current(n) = NoFile
        BY <2>0, <4>1 DEF AttemptsBelong
      <4> QED BY <3>0, <4>1, <4>2, <4>3, <4>4 DEF IsClosed, WasPublished, Current
    <3>5. ASSUME NEW r \in Requirements, NEW outcome \in Outcomes, NEW evidence \in Files \cup {NoFile},
                 Decide(r, outcome, evidence)
          PROVE  /\ IsClosed(q) => requirement'[q] = requirement[q] /\ decision'[q] = decision[q]
                 /\ WasPublished(q) => requirement'[q].current = Current(q)
      <4>1. requirement' = requirement /\ requirement[r].state = "OPEN"
        BY <3>5 DEF Decide, IsOpen
      <4>2. q # r => decision'[q] = decision[q]
        BY <3>0, <3>5 DEF Decide
      <4> QED BY <4>1, <4>2 DEF IsClosed, Current
    <3>6. ASSUME NEW r \in Requirements, NEW f \in Files, Reserve(r, f)
          PROVE  /\ IsClosed(q) => requirement'[q] = requirement[q] /\ decision'[q] = decision[q]
                 /\ WasPublished(q) => requirement'[q].current = Current(q)
      <4>1. /\ requirement' = [requirement EXCEPT ![r].current = f] /\ decision' = decision
            /\ requirement[r].state = "OPEN"
        BY <3>6 DEF Reserve, IsOpen
      <4>2. Current(r) # NoFile => ~file[Current(r)].published
        BY <2>0, <3>6, ReserveShape
      <4> QED BY <3>0, <4>1, <4>2 DEF IsClosed, WasPublished, Current
    <3> QED BY <1>1, <3>1, <3>2, <3>3, <3>4, <3>5, <3>6, StepKinds
  <2>3. \A q \in Requirements : WasPublished(q) => Current(q) \in Files /\ file'[Current(q)].published
    BY <2>0, <2>1, CurrentType DEF WasPublished
  <2> QED BY <2>1, <2>2, <2>3 DEF HistoryStands
<1> QED BY <1>1, Inductive, PTL DEF Spec

-----------------------------------------------------------------------------
(***************************************************************************)
(* What the two sides are shown.                                           *)
(***************************************************************************)
\* What is available was published, so that nobody is shown a file no decision is
\* accepted about.
AvailableIsPublished == \A f \in Files : file[f].state = "AVAILABLE" => file[f].published

LEMMA StepAvailable ==
  ASSUME IInv, [Next]_vars, AvailableIsPublished
  PROVE  AvailableIsPublished'
<1>0. TypeOK
  BY DEF IInv
<1>1. ASSUME NEW f \in Files, file'[f].state = "AVAILABLE"
      PROVE  file'[f].published
  <2>0. file[f].state = "AVAILABLE" => file[f].published
    BY DEF AvailableIsPublished
  <2>1. CASE Proceeds
    <3>1. Progresses(f)
      BY <2>1 DEF Proceeds, FilesProgress
    <3> QED BY <1>1, <2>0, <3>1 DEF Progresses
  <2>2. ASSUME NEW batch \in SUBSET Identities, Request(batch) PROVE file' = file
    BY <2>2 DEF Request
  <2>3. ASSUME NEW q \in Requirements, Cancel(q) \/ Replace(q)
        PROVE  file'[f].state = file[f].state /\ file'[f].published = file[f].published
    <3>1. EndsAttempt(q)
      BY <2>3 DEF Cancel, Replace
    <3> QED BY <1>0, <1>1, <3>1, EndedAttempt
  <2>4. ASSUME NEW q \in Requirements, NEW outcome \in Outcomes, NEW evidence \in Files \cup {NoFile},
               Decide(q, outcome, evidence)
        PROVE  file' = file
    BY <2>4 DEF Decide
  <2>5. ASSUME NEW q \in Requirements, NEW e \in Files, Reserve(q, e)
        PROVE  file'[f] = file[f]
    BY <1>0, <1>1, <2>5, ReserveShape
  <2>6. \/ Proceeds
        \/ file' = file
        \/ file'[f].state = file[f].state /\ file'[f].published = file[f].published
        \/ file'[f] = file[f]
    BY <2>2, <2>3, <2>4, <2>5, StepKinds
  <2> QED BY <1>1, <2>0, <2>1, <2>6
<1> QED BY <1>1 DEF AvailableIsPublished

LEMMA AlwaysReadable == Spec => [](IInv /\ AvailableIsPublished)
<1>1. Init => AvailableIsPublished
  BY DEF Init, AvailableIsPublished, Unused
<1>2. IInv /\ AvailableIsPublished /\ [Next]_vars => AvailableIsPublished'
  BY StepAvailable
<1> QED BY <1>1, <1>2, Inductive, PTL DEF Spec

\* The current file of a requirement, when there is one, is one of its attempts in one of
\* three states, and what was not published is not available.
LEMMA CurrentShape ==
  ASSUME IInv, AvailableIsPublished, NEW q \in Requirements
  PROVE  /\ Current(q) = NoFile => CurrentState(q) = "none" /\ ~WasPublished(q)
         /\ Current(q) # NoFile =>
              /\ Current(q) \in Files /\ file[Current(q)].request = q
              /\ CurrentState(q) = file[Current(q)].state
              /\ CurrentState(q) \in {"PROCESSING", "AVAILABLE", "FAILED"}
              /\ CurrentState(q) = "AVAILABLE" => WasPublished(q)
              /\ WasPublished(q) <=> file[Current(q)].published
<1>0. TypeOK /\ AttemptsBelong
  BY DEF IInv
<1>1. CASE Current(q) = NoFile
  BY <1>1 DEF CurrentState, WasPublished
<1>2. CASE Current(q) # NoFile
  <2>1. Current(q) \in Files
    BY <1>0, <1>2, CurrentType
  <2>2. file[Current(q)] \in FileStates
    BY <1>0, <2>1 DEF TypeOK
  <2>3. file[Current(q)].request = q /\ file[Current(q)].state # "UNUSED"
    BY <1>0, <1>2 DEF AttemptsBelong
  <2>4. file[Current(q)].state \in {"PROCESSING", "AVAILABLE", "FAILED"}
    BY <2>2, <2>3 DEF FileStates
  <2>5. file[Current(q)].state = "AVAILABLE" => file[Current(q)].published
    BY <2>1 DEF AvailableIsPublished
  <2> QED BY <1>2, <2>1, <2>3, <2>4, <2>5 DEF CurrentState, WasPublished
<1> QED BY <1>1, <1>2

-----------------------------------------------------------------------------
(***************************************************************************)
(* The state of verification.                                              *)
(***************************************************************************)
LEMMA RequirementStateType ==
  ASSUME NEW q
  PROVE  RequirementState(q) \in {"WAIVED", "NOT_SATISFIED", "PROCESSING", "AWAITING_EVIDENCE",
                                  "SATISFIED", "AWAITING_DECISION"}
  BY DEF RequirementState

\* The state of the application, when it is one of those that wait, is that of an open
\* requirement.
LEMMA StateIsOfSome ==
  ASSUME ApplicationState \notin {"NOT_REQUESTED", "SATISFIED"}
  PROVE  \E q \in Batch : RequirementState(q) = ApplicationState
<1> DEFINE states == {RequirementState(q) : q \in Batch}
           First(n) == Worst[n] \in states /\ \A m \in 1..(n - 1) : Worst[m] \notin states
           first == CHOOSE n \in 1..4 : First(n)
<1>1. states \subseteq {"WAIVED", "NOT_SATISFIED", "PROCESSING", "AWAITING_EVIDENCE",
                        "SATISFIED", "AWAITING_DECISION"}
  BY RequirementStateType
<1>2. states # {} /\ ~(states \subseteq {"SATISFIED", "WAIVED"}) /\ ApplicationState = Worst[first]
  BY DEF ApplicationState
<1>3. /\ Worst[1] = "NOT_SATISFIED" /\ Worst[2] = "AWAITING_EVIDENCE"
      /\ Worst[3] = "PROCESSING" /\ Worst[4] = "AWAITING_DECISION"
  BY DEF Worst
<1>4. \A s \in states : \E q \in Batch : RequirementState(q) = s
  OBVIOUS
<1> HIDE DEF states
<1>5. \E n \in 1..4 : Worst[n] \in states
  <2>1. PICK s \in states : s \notin {"SATISFIED", "WAIVED"}
    BY <1>2
  <2>2. s \in {"NOT_SATISFIED", "PROCESSING", "AWAITING_EVIDENCE", "AWAITING_DECISION"}
    BY <1>1, <2>1
  <2>3. 1 \in 1..4 /\ 2 \in 1..4 /\ 3 \in 1..4 /\ 4 \in 1..4
    OBVIOUS
  <2> QED BY <1>3, <2>2, <2>3
<1>6. \E n \in 1..4 : First(n)
  <2>1. CASE Worst[1] \in states
    BY <2>1
  <2>2. CASE Worst[1] \notin states /\ Worst[2] \in states
    BY <2>2
  <2>3. CASE Worst[1] \notin states /\ Worst[2] \notin states /\ Worst[3] \in states
    BY <2>3
  <2>4. CASE Worst[1] \notin states /\ Worst[2] \notin states /\ Worst[3] \notin states
    <3>1. Worst[4] \in states
      BY <1>5, <2>4
    <3> QED BY <2>4, <3>1
  <2> QED BY <2>1, <2>2, <2>3, <2>4
<1>7. First(first)
  BY <1>6
<1> HIDE DEF first
<1> QED BY <1>2, <1>4, <1>7

\* While the process is on, whatever the verification waits for, somebody is offered the
\* step: the upload or the replacement, the decision the command accepts, or an attempt
\* recovery will end.
THEOREM VerificationProgresses == Spec => []VerificationCanProgress
<1>1. ASSUME IInv, AvailableIsPublished, mutable PROVE VerificationCanProgress
  <2>1. ASSUME NEW q \in Batch, RequirementState(q) = "AWAITING_EVIDENCE"
        PROVE  CanReplace(q, "provider") \/ \E a \in PendingDocuments("applicant") : a.request = q
    <3>1. q \in Requirements /\ IsOpen(q)
      BY DEF Batch, Requested
    <3>2. CurrentState(q) # "PROCESSING" /\ ~(CurrentState(q) = "AVAILABLE" /\ WasPublished(q))
      BY <2>1 DEF RequirementState
    <3>3. UploadAllowed(q) \/ ReplacementAllowed(q)
      BY <1>1, <3>1, <3>2, CurrentShape DEF UploadAllowed, ReplacementAllowed
    <3>4. CASE ReplacementAllowed(q)
      BY <1>1, <3>1, <3>4 DEF CanReplace
    <3>5. CASE UploadAllowed(q)
      <4> DEFINE a == [type |-> "UPLOAD_REQUESTED_DOCUMENT", request |-> q, document |-> NoFile]
      <4>1. CanUpload(q)
        BY <1>1, <3>1, <3>5 DEF CanUpload
      <4>2. a \in PendingDocuments("applicant")
        BY <4>1 DEF PendingDocuments
      <4>3. a.request = q
        OBVIOUS
      <4> QED BY <4>2, <4>3
    <3> QED BY <3>3, <3>4, <3>5
  <2>2. ASSUME NEW q \in Batch, RequirementState(q) = "PROCESSING"
        PROVE  \E f \in Files : file[f].state = "PROCESSING"
    <3>1. q \in Requirements /\ CurrentState(q) = "PROCESSING"
      BY <2>2 DEF Batch, Requested, RequirementState
    <3> QED BY <1>1, <3>1, CurrentShape
  <2>3. ASSUME NEW q \in Batch, RequirementState(q) = "AWAITING_DECISION"
        PROVE  \E r \in Batch, outcome \in Outcomes : MayDecide(r, outcome, Current(r))
    <3>1. q \in Requirements /\ IsOpen(q) /\ CurrentState(q) = "AVAILABLE" /\ WasPublished(q)
      BY <2>3 DEF Batch, Requested, RequirementState
    <3>2. PICK outcome \in Outcomes : TRUE
      OBVIOUS
    <3>3. MayDecide(q, outcome, Current(q))
      BY <1>1, <3>1 DEF Evidenced, WasPublished
    <3> QED BY <3>2, <3>3
  <2>4. ASSUME NEW q \in Batch, RequirementState(q) = "NOT_SATISFIED"
        PROVE  CanReplace(q, "provider")
    <3>1. q \in Requirements /\ IsOpen(q) /\ CurrentState(q) = "AVAILABLE" /\ WasPublished(q)
      BY <2>4 DEF Batch, Requested, RequirementState
    <3> QED BY <1>1, <3>1 DEF CanReplace, ReplacementAllowed
  <2>5. ApplicationState \notin {"NOT_REQUESTED", "SATISFIED"} =>
          \E q \in Batch : RequirementState(q) = ApplicationState
    BY StateIsOfSome
  <2>6. ApplicationState = "AWAITING_EVIDENCE" =>
          \E q \in Batch :
            /\ RequirementState(q) = "AWAITING_EVIDENCE"
            /\ CanReplace(q, "provider") \/ \E a \in PendingDocuments("applicant") : a.request = q
    BY <2>1, <2>5
  <2>7. ApplicationState = "PROCESSING" => \E f \in Files : file[f].state = "PROCESSING"
    BY <2>2, <2>5
  <2>8. ApplicationState = "AWAITING_DECISION" =>
          \E q \in Batch, outcome \in Outcomes : MayDecide(q, outcome, Current(q))
    BY <2>3, <2>5
  <2>9. ApplicationState = "NOT_SATISFIED" => \E q \in Batch : CanReplace(q, "provider")
    BY <2>4, <2>5
  <2> HIDE DEF MayDecide
  <2> QED BY <2>6, <2>7, <2>8, <2>9 DEF VerificationCanProgress
<1>2. ~mutable => VerificationCanProgress
  BY DEF VerificationCanProgress
<1> QED BY <1>1, <1>2, AlwaysReadable, PTL

-----------------------------------------------------------------------------
(***************************************************************************)
(* Offers and commands.                                                    *)
(***************************************************************************)
\* What may be reviewed is the current file, which is one of the attempts listed.
LEMMA ReviewIsOfCurrent ==
  ASSUME IInv, AvailableIsPublished, NEW q \in Requirements
  PROVE  /\ CanReview(q) <=> MayReview(q)
         /\ CanReview(q) => Current(q) \in FilesOf(q) /\ Current(q) # NoFile /\ file[Current(q)].published
<1>1. Current(q) \in Files => Current(q) # NoFile
  OBVIOUS
<1>2. CASE Current(q) = NoFile
  BY <1>2, CurrentShape DEF CanReview, NeedsReview
<1>3. CASE Current(q) # NoFile
  BY <1>3, CurrentShape DEF CanReview, NeedsReview, FilesOf
<1> QED BY <1>2, <1>3

\* The list offers to review the current file when that can be reviewed, and no other.
LEMMA ListedReview ==
  ASSUME IInv, AvailableIsPublished, NEW q \in Requirements, NEW audience
  PROVE  Listed(q, audience).review =
           IF audience = "provider" /\ CanReview(q) THEN {Current(q)} ELSE {}
<1> DEFINE review == {f \in FilesOf(q) : /\ audience = "provider" /\ mutable /\ IsOpen(q)
                                         /\ f = Current(q) /\ NeedsReview(f)}
<1>1. Listed(q, audience).review = review
  BY DEF Listed
<1>2. CASE audience = "provider" /\ CanReview(q)
  <2>1. Current(q) \in FilesOf(q)
    BY <1>2, ReviewIsOfCurrent
  <2>2. Current(q) \in review
    BY <1>2, <2>1 DEF CanReview
  <2>3. \A f \in review : f = Current(q)
    OBVIOUS
  <2> HIDE DEF review
  <2> QED BY <1>1, <1>2, <2>2, <2>3
<1>3. CASE ~(audience = "provider" /\ CanReview(q))
  BY <1>1, <1>3 DEF CanReview
<1> QED BY <1>2, <1>3

LEMMA ListOffersWhatIsAccepted ==
  ASSUME IInv, AvailableIsPublished, NEW q \in Requested
  PROVE  LET applicant == Listed(q, "applicant")
             provider == Listed(q, "provider")
         IN  /\ ~(applicant.cancel \/ applicant.replace \/ applicant.review # {} \/ provider.upload)
             /\ applicant.upload <=> MayReserve(q)
             /\ provider.cancel <=> MayCancel(q)
             /\ provider.replace <=> MayReplace(q)
             /\ provider.review # {} <=> MayReview(q)
<1>1. q \in Requirements
  BY DEF Requested
<1>2. Listed(q, "applicant").review = {} /\ (Listed(q, "provider").review # {} <=> MayReview(q))
  <2>1. Listed(q, "applicant").review = {}
    BY <1>1, ListedReview
  <2>2. Listed(q, "provider").review = IF CanReview(q) THEN {Current(q)} ELSE {}
    BY <1>1, ListedReview
  <2>3. CanReview(q) <=> MayReview(q)
    BY <1>1, ReviewIsOfCurrent
  <2> QED BY <2>1, <2>2, <2>3
<1>3. \A audience :
        /\ Listed(q, audience).upload = (audience = "applicant" /\ CanUpload(q))
        /\ Listed(q, audience).cancel = CanCancel(q, audience)
        /\ Listed(q, audience).replace = CanReplace(q, audience)
  BY Zenon DEF Listed
<1>4. /\ Listed(q, "applicant").upload <=> MayReserve(q)
      /\ ~Listed(q, "provider").upload
  BY <1>3 DEF CanUpload
<1>5. ~Listed(q, "applicant").cancel /\ (Listed(q, "provider").cancel <=> MayCancel(q))
  BY <1>3 DEF CanCancel
<1>6. ~Listed(q, "applicant").replace /\ (Listed(q, "provider").replace <=> MayReplace(q))
  BY <1>3 DEF CanReplace, ReplacementAllowed
<1> HIDE DEF MayReserve, MayCancel, MayReplace, MayReview
<1> QED BY <1>2, <1>4, <1>5, <1>6

\* The page offers to request an identity again with its last round.
LEMMA PageOffersWhatIsAccepted ==
  ASSUME IInv, NEW i \in Identities, Last(i) # 0
  PROVE  MayRequest({i}) <=>
           \E q \in Page("provider", "ALL") : q[1] = i /\ Paged(q, "provider").reRequest
<1>0. TypeOK /\ RoundsInOrder
  BY DEF IInv
<1>1. PICK k \in 0..MaxRound :
        \A n \in 1..MaxRound : /\ requirement[<<i, n>>].state = "ABSENT" <=> k < n
                               /\ requirement[<<i, n>>].state = "OPEN" => n = k
  BY <1>0 DEF RoundsInOrder, IsOpen
<1>2. Last(i) = k
  BY <1>1, LastRound
<1>3. k \in 1..MaxRound /\ MaxRound \in Nat
  BY <1>2, BoundsAreNat
<1> DEFINE q == <<i, k>>
<1>4. q \in Requirements /\ requirement[q].state # "ABSENT"
  BY <1>1, <1>3 DEF Requirements
<1>5. \A r : Paged(r, "provider").reRequest =
               (mutable /\ ~IsOpen(r) /\ ~HasSuccessor(r) /\ r[2] = Last(r[1]))
  BY Zenon DEF Paged
<1>6. MayRequest({i}) <=> mutable /\ ~IsOpen(q)
  BY <1>2, <1>3
<1>7. ~HasSuccessor(q)
  <2>1. q[2] < MaxRound => k + 1 \in 1..MaxRound /\ k < k + 1
    BY <1>3
  <2>2. q[2] < MaxRound => requirement[<<i, k + 1>>].state = "ABSENT"
    BY <1>1, <1>3, <2>1
  <2> QED BY <2>2 DEF HasSuccessor
<1>8. q \in Page("provider", "ALL")
  BY <1>4 DEF Page, Requested
<1>9. ASSUME MayRequest({i})
      PROVE  \E r \in Page("provider", "ALL") : r[1] = i /\ Paged(r, "provider").reRequest
  <2>1. q[2] = Last(q[1])
    BY <1>2
  <2>2. mutable /\ ~IsOpen(q)
    BY <1>6, <1>9
  <2> HIDE DEF q
  <2>3. Paged(q, "provider").reRequest
    BY <1>5, <1>7, <2>1, <2>2
  <2> QED BY <1>8, <2>3 DEF q
<1>10. ASSUME NEW r \in Page("provider", "ALL"), r[1] = i, Paged(r, "provider").reRequest
       PROVE  MayRequest({i})
  <2>1. r \in Requirements
    BY DEF Page, Requested
  <2>2. mutable /\ ~IsOpen(r) /\ r[2] = Last(r[1])
    BY <1>5, <1>10
  <2>3. r = q
    BY <1>2, <1>10, <2>1, <2>2, RequirementShape
  <2> QED BY <1>6, <2>2, <2>3
<1> HIDE DEF MayRequest
<1> QED BY <1>9, <1>10

LEMMA OffersAreAccepted ==
  ASSUME IInv, AvailableIsPublished
  PROVE  OfferedIsAccepted
<1> HIDE DEF MayReserve, MayCancel, MayReplace, MayReview, MayRequest
<1> QED BY ListOffersWhatIsAccepted, PageOffersWhatIsAccepted DEF OfferedIsAccepted

\* The obligations of a request.
UploadOf(q) == [type |-> "UPLOAD_REQUESTED_DOCUMENT", request |-> q, document |-> NoFile]

ReviewOf(q) == [type |-> "REVIEW_DOCUMENT", request |-> q, document |-> Current(q)]

\* What is pending of a request is what the list offers of it.
LEMMA PendingShape ==
  ASSUME IInv, AvailableIsPublished, NEW audience
  PROVE  \A a : a \in PendingDocuments(audience) <=>
                  \E q \in Requested :
                    \/ audience = "applicant" /\ CanUpload(q) /\ a = UploadOf(q)
                    \/ audience = "provider" /\ CanReview(q) /\ a = ReviewOf(q)
<1>1. \A q \in Requested : q \in Requirements
  BY DEF Requested
<1>2. \A q \in Requested : CanUpload(q) \/ CanReview(q) => q \in Batch
  BY DEF CanUpload, CanReview, Batch
<1>3. \A q \in Requested : CanReview(q) => file[Current(q)].published
  BY <1>1, ReviewIsOfCurrent
<1>4. PendingDocuments(audience) =
        {UploadOf(q) : q \in {r \in Batch : audience = "applicant" /\ CanUpload(r)}}
        \cup {ReviewOf(q) : q \in {r \in Batch : audience = "provider" /\ CanReview(r)
                                                 /\ file[Current(r)].published}}
  BY Zenon DEF PendingDocuments, UploadOf, ReviewOf
<1>5. \A q \in Batch : q \in Requested
  BY DEF Batch
<1> HIDE DEF UploadOf, ReviewOf, CanUpload, CanReview, Batch, Requested
<1> QED BY <1>2, <1>3, <1>4, <1>5

LEMMA AskedShape ==
  ASSUME IInv, AvailableIsPublished, NEW audience, NEW q \in Requested
  PROVE  \A a : (a \in PendingDocuments(audience) /\ a.request = q) <=>
                  \/ audience = "applicant" /\ CanUpload(q) /\ a = UploadOf(q)
                  \/ audience = "provider" /\ CanReview(q) /\ a = ReviewOf(q)
<1>1. \A r : UploadOf(r).request = r /\ ReviewOf(r).request = r
  BY DEF UploadOf, ReviewOf
<1> QED BY <1>1, PendingShape

LEMMA SummaryShowsTheList ==
  ASSUME IInv, AvailableIsPublished, NEW q \in Requested, IsOpen(q), NEW audience
  PROVE  /\ Listed(q, audience) = Summarized(q, audience)
         /\ \A name \in {"upload", "cancel", "replace", "review"} :
              Listed(q, audience)[name] = Paged(q, audience)[name]
<1>1. q \in Requirements
  BY DEF Requested
<1> DEFINE review == {f \in FilesOf(q) : /\ audience = "provider" /\ mutable /\ IsOpen(q)
                                         /\ f = Current(q) /\ NeedsReview(f)}
<1>2. Listed(q, audience).review = review
  BY DEF Listed
<1>3. review = IF audience = "provider" /\ CanReview(q) THEN {Current(q)} ELSE {}
  BY <1>1, <1>2, ListedReview
<1>4. Listed(q, audience) = [status |-> RequestStatus(q),
                             upload |-> audience = "applicant" /\ CanUpload(q),
                             cancel |-> CanCancel(q, audience),
                             replace |-> CanReplace(q, audience),
                             review |-> review]
  BY DEF Listed
<1> HIDE DEF review
<1>5. Listed(q, audience) = Summarized(q, audience)
  BY <1>3, <1>4, Zenon DEF Summarized
<1>6. \A name \in {"upload", "cancel", "replace", "review"} :
        Summarized(q, audience)[name] = Paged(q, audience)[name]
  BY DEF Summarized, Paged
<1> QED BY <1>5, <1>6

\* What is offered is what is pending, each of it in the state its indicator asks for.
LEMMA OffersArePending ==
  ASSUME IInv, AvailableIsPublished, NEW q \in Requested, NEW audience \in Audiences
  PROVE  LET listed == Listed(q, audience)
             asked == {a \in PendingDocuments(audience) : a.request = q}
         IN  /\ listed.upload <=> \E a \in asked : a.type = "UPLOAD_REQUESTED_DOCUMENT"
             /\ listed.review = {a.document : a \in asked} \ {NoFile}
<1> DEFINE listed == Listed(q, audience)
           asked == {a \in PendingDocuments(audience) : a.request = q}
<1>1. q \in Requirements
  BY DEF Requested
<1>2. \A a : a \in asked <=> \/ audience = "applicant" /\ CanUpload(q) /\ a = UploadOf(q)
                             \/ audience = "provider" /\ CanReview(q) /\ a = ReviewOf(q)
  BY AskedShape
<1>3. /\ UploadOf(q).type = "UPLOAD_REQUESTED_DOCUMENT" /\ UploadOf(q).document = NoFile
      /\ ReviewOf(q).type = "REVIEW_DOCUMENT" /\ ReviewOf(q).document = Current(q)
  BY DEF UploadOf, ReviewOf
<1>4. listed.upload = (audience = "applicant" /\ CanUpload(q))
  BY Zenon DEF Listed
<1>5. listed.review = IF audience = "provider" /\ CanReview(q) THEN {Current(q)} ELSE {}
  BY <1>1, ListedReview
<1>6. CanReview(q) => Current(q) # NoFile
  BY <1>1, ReviewIsOfCurrent
<1> HIDE DEF listed, asked
<1>7. listed.upload <=> \E a \in asked : a.type = "UPLOAD_REQUESTED_DOCUMENT"
  BY <1>2, <1>3, <1>4
<1>8. listed.review = {a.document : a \in asked} \ {NoFile}
  <2>1. CASE audience = "provider" /\ CanReview(q)
    <3>1. \A a : a \in asked <=> a = ReviewOf(q)
      BY <1>2, <2>1
    <3>2. {a.document : a \in asked} = {Current(q)}
      BY <1>3, <3>1
    <3> QED BY <1>5, <1>6, <2>1, <3>2
  <2>2. CASE ~(audience = "provider" /\ CanReview(q))
    <3>1. \A a \in asked : a.document = NoFile
      BY <1>2, <1>3, <2>2
    <3> QED BY <1>5, <2>2, <3>1
  <2> QED BY <2>1, <2>2
<1> QED BY <1>7, <1>8 DEF listed, asked

LEMMA PendingIsIndicated ==
  ASSUME IInv, AvailableIsPublished, NEW audience
  PROVE  Indicators(audience) = PendingDocuments(audience)
<1>1. ASSUME NEW a \in PendingDocuments(audience)
      PROVE  RequestStatus(a.request) =
               IF a.type = "REVIEW_DOCUMENT" THEN "RECEIVED" ELSE "UPLOAD_REQUIRED"
  <2>1. PICK q \in Requested : \/ CanUpload(q) /\ a = UploadOf(q)
                               \/ CanReview(q) /\ a = ReviewOf(q)
    BY PendingShape
  <2>2. q \in Requirements
    BY DEF Requested
  <2>3. CASE CanUpload(q) /\ a = UploadOf(q)
    <3>1. a.request = q /\ a.type = "UPLOAD_REQUESTED_DOCUMENT"
      BY <2>3 DEF UploadOf
    <3>2. IsOpen(q) /\ CurrentState(q) # "AVAILABLE" /\ CurrentState(q) # "PROCESSING"
      BY <2>3 DEF CanUpload, UploadAllowed
    <3>3. RequestStatus(q) = "UPLOAD_REQUIRED"
      BY <3>2 DEF RequestStatus
    <3> QED BY <3>1, <3>3
  <2>4. CASE CanReview(q) /\ a = ReviewOf(q)
    <3>1. a.request = q /\ a.type = "REVIEW_DOCUMENT"
      BY <2>4 DEF ReviewOf
    <3>2. IsOpen(q) /\ CurrentState(q) = "AVAILABLE" /\ ~file[Current(q)].reviewed
      BY <2>2, <2>4, CurrentShape DEF CanReview, NeedsReview
    <3>3. RequestStatus(q) = "RECEIVED"
      BY <3>2 DEF RequestStatus
    <3> QED BY <3>1, <3>3
  <2> QED BY <2>1, <2>3, <2>4
<1> QED BY <1>1 DEF Indicators

LEMMA ReadersAgree ==
  ASSUME IInv, AvailableIsPublished
  PROVE  DocumentReadersAgree
<1>1. ASSUME NEW audience \in Audiences PROVE Page(audience, "OPEN") = Batch
  <2>1. \A q \in Requested : IsOpen(q) <=> "OPEN" \in {"ALL", requirement[q].state}
    BY DEF IsOpen
  <2> QED BY <2>1 DEF Page, Batch
<1>2. ASSUME NEW audience \in Audiences, NEW q \in Requested
      PROVE  LET listed == Listed(q, audience)
                 paged == Paged(q, audience)
                 asked == {a \in PendingDocuments(audience) : a.request = q}
             IN  /\ IsOpen(q) =>
                      /\ listed = Summarized(q, audience)
                      /\ \A name \in {"upload", "cancel", "replace", "review"} : listed[name] = paged[name]
                 /\ listed.upload <=> \E a \in asked : a.type = "UPLOAD_REQUESTED_DOCUMENT"
                 /\ listed.review = {a.document : a \in asked} \ {NoFile}
  BY SummaryShowsTheList, OffersArePending
<1> QED BY <1>1, <1>2, PendingIsIndicated DEF DocumentReadersAgree

\* What every reader offers of a request is what its commands accept, and the readers
\* agree.
THEOREM DocumentOffersAreHonest == Spec => []DocumentsOfferedAreAccepted
<1>1. IInv /\ AvailableIsPublished => DocumentsOfferedAreAccepted
  BY OffersAreAccepted, ReadersAgree DEF DocumentsOfferedAreAccepted
<1> QED BY <1>1, AlwaysReadable, PTL
=============================================================================

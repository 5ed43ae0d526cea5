---------------------------- MODULE DocumentReads ----------------------------
(***************************************************************************)
(* What the two sides are shown of the documents of an application.  Four  *)
(* readers derive the same things from the same rows, each in its own way: *)
(* the list of requests, the summary of the workspace, the page of         *)
(* verification requirements and the attention of the menus.  Reads change *)
(* nothing; everything here is derived from the state of Documents.        *)
(***************************************************************************)
EXTENDS Documents, TLC

Audiences == {"provider", "applicant"}

\* Nothing tells attempts apart.
Symmetry == Permutations(Files)

-----------------------------------------------------------------------------
(***************************************************************************)
(* The policy every reader shares.                                         *)
(***************************************************************************)
Requested == {q \in Requirements : requirement[q].state # "ABSENT"}

CanUpload(q) == mutable /\ IsOpen(q) /\ UploadAllowed(q)

\* documentReviewRequired
NeedsReview(f) == f # NoFile /\ file[f].state = "AVAILABLE" /\ ~file[f].reviewed

CanReview(q) == mutable /\ IsOpen(q) /\ NeedsReview(Current(q))

\* documentCancelCapability
CanCancel(q, audience) == audience = "provider" /\ mutable /\ IsOpen(q)

\* Mutated form of CanReplace: only what can be read now is replaced.
CanReplaceReadable(q, audience) ==
  audience = "provider" /\ mutable /\ IsOpen(q) /\ CurrentState(q) = "AVAILABLE"

\* documentReplacementAllowed
CanReplace(q, audience) ==
  audience = "provider" /\ mutable /\ IsOpen(q) /\ ReplacementAllowed(q)

\* documentRequestStatus
RequestStatus(q) ==
  CASE ~IsOpen(q) -> requirement[q].state
    [] IsOpen(q) /\ CurrentState(q) = "AVAILABLE" ->
         IF file[Current(q)].reviewed THEN "REVIEWED" ELSE "RECEIVED"
    [] IsOpen(q) /\ CurrentState(q) = "PROCESSING" -> "PROCESSING"
    [] OTHER -> "UPLOAD_REQUIRED"

-----------------------------------------------------------------------------
(***************************************************************************)
(* The readers.                                                            *)
(***************************************************************************)
FilesOf(q) == {f \in Files : file[f].request = q}

\* The list shows all attempts of all requests, each with its own review capability.
Listed(q, audience) ==
  [status |-> RequestStatus(q),
   upload |-> audience = "applicant" /\ CanUpload(q),
   cancel |-> CanCancel(q, audience),
   replace |-> CanReplace(q, audience),
   review |-> {f \in FilesOf(q) :
                 /\ audience = "provider" /\ mutable /\ IsOpen(q)
                 /\ f = Current(q) /\ NeedsReview(f)}]

\* batch(): the workspace and the menus read the open requests only.
Batch == {q \in Requested : IsOpen(q)}

Summarized(q, audience) ==
  [status |-> RequestStatus(q),
   upload |-> audience = "applicant" /\ CanUpload(q),
   cancel |-> CanCancel(q, audience),
   replace |-> CanReplace(q, audience),
   review |-> IF audience = "provider" /\ CanReview(q) THEN {Current(q)} ELSE {}]

HasSuccessor(q) == q[2] < MaxRound /\ requirement[<<q[1], q[2] + 1>>].state # "ABSENT"

\* The requirements of a page; the applicant has the open ones only.
Page(audience, lifecycle) ==
  {q \in Requested : IF audience = "applicant" THEN IsOpen(q)
                     ELSE lifecycle \in {"ALL", requirement[q].state}}

Paged(q, audience) ==
  [status |-> IF CurrentState(q) = "AVAILABLE" /\ file[Current(q)].reviewed THEN "REVIEWED"
              ELSE CurrentState(q),
   upload |-> audience = "applicant" /\ CanUpload(q),
   cancel |-> CanCancel(q, audience),
   replace |-> CanReplace(q, audience),
   review |-> IF audience = "provider" /\ CanReview(q) THEN {Current(q)} ELSE {},
   reRequest |-> /\ audience = "provider" /\ mutable /\ ~IsOpen(q)
                 /\ ~HasSuccessor(q) /\ q[2] = Last(q[1])]

\* The states of a requirement that stand for the application's, the first before the rest.
Worst == <<"NOT_SATISFIED", "AWAITING_EVIDENCE", "PROCESSING", "AWAITING_DECISION">>

\* readModel(), over all open requirements whatever the page; the worst one counts.
ApplicationState ==
  LET states == {RequirementState(q) : q \in Batch}
  IN  IF states = {} THEN "NOT_REQUESTED"
      ELSE IF states \subseteq {"SATISFIED", "WAIVED"} THEN "SATISFIED"
      ELSE Worst[CHOOSE n \in 1..4 : Worst[n] \in states /\ \A m \in 1..(n - 1) : Worst[m] \notin states]

-----------------------------------------------------------------------------
(***************************************************************************)
(* Attention.                                                              *)
(***************************************************************************)
\* Mutated form of PendingDocuments: what was reviewed before it failed is asked for again.
PendingDocumentsByStatus(audience) ==
  {[type |-> "UPLOAD_REQUESTED_DOCUMENT", request |-> q, document |-> NoFile] :
     q \in {r \in Batch : audience = "applicant" /\ mutable /\ RequestStatus(r) = "UPLOAD_REQUIRED"}}
  \cup {[type |-> "REVIEW_DOCUMENT", request |-> q, document |-> Current(q)] :
          q \in {r \in Batch : audience = "provider" /\ CanReview(r) /\ file[Current(r)].published}}

\* facts() and derive()
PendingDocuments(audience) ==
  {[type |-> "UPLOAD_REQUESTED_DOCUMENT", request |-> q, document |-> NoFile] :
     q \in {r \in Batch : audience = "applicant" /\ CanUpload(r)}}
  \cup {[type |-> "REVIEW_DOCUMENT", request |-> q, document |-> Current(q)] :
          q \in {r \in Batch : audience = "provider" /\ CanReview(r) /\ file[Current(r)].published}}

\* An obligation has an indicator only if the status of its request agrees with it.
Indicators(audience) ==
  {action \in PendingDocuments(audience) :
     RequestStatus(action.request) =
       (IF action.type = "REVIEW_DOCUMENT" THEN "RECEIVED" ELSE "UPLOAD_REQUIRED")}

-----------------------------------------------------------------------------
(***************************************************************************)
(* Properties.                                                             *)
(***************************************************************************)
\* What the list offers is what the commands accept, for every request ever made, and
\* a closed requirement is offered to be requested again exactly when the command
\* opens its next round.
OfferedIsAccepted ==
  /\ \A q \in Requested :
       LET applicant == Listed(q, "applicant")
           provider == Listed(q, "provider")
       IN  /\ ~(applicant.cancel \/ applicant.replace \/ applicant.review # {} \/ provider.upload)
           /\ applicant.upload <=> MayReserve(q)
           /\ provider.cancel <=> MayCancel(q)
           /\ provider.replace <=> MayReplace(q)
           /\ provider.review # {} <=> MayReview(q)
  /\ \A i \in Identities :
       Last(i) # 0 =>
         (MayRequest({i}) <=> \E q \in Page("provider", "ALL") : q[1] = i /\ Paged(q, "provider").reRequest)

\* The readers agree: the summary and the page show of every open request what the
\* list shows of it, and the obligations in the menus are what the list offers, each
\* with its indicator.
DocumentReadersAgree ==
  \A audience \in Audiences :
    LET pending == PendingDocuments(audience)
    IN  /\ Page(audience, "OPEN") = Batch
        /\ \A q \in Requested :
             LET listed == Listed(q, audience)
                 paged == Paged(q, audience)
                 asked == {a \in pending : a.request = q}
             IN  /\ IsOpen(q) =>
                      /\ listed = Summarized(q, audience)
                      /\ \A name \in {"upload", "cancel", "replace", "review"} : listed[name] = paged[name]
                 /\ listed.upload <=> \E a \in asked : a.type = "UPLOAD_REQUESTED_DOCUMENT"
                 /\ listed.review = {a.document : a \in asked} \ {NoFile}
        /\ pending # {} => Indicators(audience) = pending

\* Every reader offers of a request what its commands accept, and all the same.
DocumentsOfferedAreAccepted == OfferedIsAccepted /\ DocumentReadersAgree

\* While the process is on, no verification gets stuck: whatever its state waits for,
\* somebody is offered the step, even after a threat is found in published evidence.
VerificationCanProgress ==
  LET state == ApplicationState
  IN  mutable =>
    /\ state = "AWAITING_EVIDENCE" =>
         \E q \in Batch :
           /\ RequirementState(q) = "AWAITING_EVIDENCE"
           /\ CanReplace(q, "provider") \/ \E a \in PendingDocuments("applicant") : a.request = q
    /\ state = "PROCESSING" => \E f \in Files : file[f].state = "PROCESSING"
    /\ state = "AWAITING_DECISION" =>
         \E q \in Batch, outcome \in Outcomes : MayDecide(q, outcome, Current(q))
    /\ state = "NOT_SATISFIED" => \E q \in Batch : CanReplace(q, "provider")
=============================================================================

----------------------------- MODULE Admission -----------------------------
(***************************************************************************)
(* The admission policy of src/applications/application-admission.service  *)
(* and the pure policies of application-process.policy: whether an         *)
(* applicant may submit a new attempt to a listing, given the attempts     *)
(* the pair already has.                                                   *)
(*                                                                         *)
(* An attempt is a row of the table "applications".  The model keeps the   *)
(* columns the policy reads: status, publicReason, rejectedAt, createdAt,  *)
(* and `event' / `eventAt', the latest REJECTED_BY_PROVIDER or             *)
(* RESTORED_BY_PROVIDER event of the attempt (the only one the service     *)
(* selects).  Instants are natural numbers and NoDate is SQL's NULL.       *)
(***************************************************************************)
EXTENDS Naturals

CONSTANT ReapplyCooldown      \* REAPPLICATION_COOLDOWN_MS

NoDate == 0

(***************************************************************************)
(* Status "NONE" is the attempt that has not been created yet.             *)
(***************************************************************************)
ApplicationStatus == {"NONE", "ACTIVE", "WAITING", "ACCEPTED", "REJECTED", "WITHDRAWN"}

LiveStatus == {"ACTIVE", "WAITING"}

ListingStatus == {"DRAFT", "PUBLISHED", "PAUSED", "RENTED", "ARCHIVED"}

RejectionReason == {"NONE", "NOT_SELECTED", "LISTING_RENTED",
                    "PROFILE_NO_LONGER_ELIGIBLE", "POST_VIEWING_RESPONSE_EXPIRED"}

CurationEvent == {"NONE", "REJECTED", "RESTORED"}

(***************************************************************************)
(* The date of the provider's rejection that is still in force for a row:  *)
(* the latest event decides, a restoration cancels, and a row from before  *)
(* the event history falls back to its own rejectedAt.                     *)
(***************************************************************************)
RejectionOf(r) ==
  CASE r.event = "REJECTED" -> r.eventAt
    [] r.event = "RESTORED" -> NoDate
    [] OTHER -> IF r.publicReason = "NOT_SELECTED" THEN r.rejectedAt ELSE NoDate

UnknownRejection(r) ==
  /\ r.status = "REJECTED"
  /\ \/ r.publicReason = "NONE"
     \/ r.publicReason = "NOT_SELECTED" /\ RejectionOf(r) = NoDate

\* Mutated form of Cooldown: over one instant early.
CooldownEndingEarly(history, asOf) ==
  \E r \in history : RejectionOf(r) # NoDate /\ asOf + 1 < RejectionOf(r) + ReapplyCooldown

\* The cooldown runs from the latest rejection of the whole history.
Cooldown(history, asOf) ==
  \E r \in history : /\ RejectionOf(r) # NoDate
                     /\ asOf < RejectionOf(r) + ReapplyCooldown

(***************************************************************************)
(* evaluate(): canSubmitApplication, one conjunct per block reason.        *)
(***************************************************************************)
CanSubmit(history, listingStatus, eligible, asOf) ==
  /\ listingStatus = "PUBLISHED"
  /\ \A r \in history : /\ r.status \notin LiveStatus \cup {"ACCEPTED"}
                        /\ r.status = "REJECTED" => r.publicReason # "LISTING_RENTED"
                        /\ ~UnknownRejection(r)
  /\ ~Cooldown(history, asOf)
  /\ eligible

(***************************************************************************)
(* Policies of application-process.policy.                                 *)
(***************************************************************************)
CanWithdraw(r) == r.status \in LiveStatus

\* `cooldown' is PROVIDER_CURATION_COOLDOWN_MS, the pause between two curations.
CurationAllowed(lastOccurredAt, asOf, cooldown) ==
  lastOccurredAt = NoDate \/ asOf >= lastOccurredAt + cooldown

\* `activeAt' of a row is whether the column is set.
ProviderVisible(r) ==
  /\ r.status \notin {"NONE", "WAITING"}
  /\ r.status = "ACTIVE" \/ r.activeAt
=============================================================================

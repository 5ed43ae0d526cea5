------------------------ MODULE ApplicationDiscovery ------------------------
(***************************************************************************)
(* The listings an applicant is shown as matching, beside the applications *)
(* to them: Applications decides by which profiles the criteria accept,    *)
(* Eligibility says what criteria and profiles hold.                       *)
(***************************************************************************)
EXTENDS Applications, Eligibility

CONSTANTS
  Demanded,   \* the columns behind each criteria: [Criteria -> ListingCriteria]
  Entered     \* and behind each profile; there are none behind NoProfile

ASSUME AcceptsAssumption ==
  /\ Demanded \in [Criteria -> ListingCriteria]
  /\ Entered \in [Profiles \cup {NoProfile} -> ApplicantProfiles \cup {Null}]
  /\ Entered[NoProfile] = Null
  /\ Accepts = [c \in Criteria |-> {p \in Profiles : CanApply(Demanded[c], Entered[p])}]

\* buildWhere() with `onlyMatching': is l found for applicant p?
Found(p, l) ==
  /\ listingStatus[l] = "PUBLISHED"
  /\ HardMatch(Demanded[criteria[l]], Entered[profile[p]])

-----------------------------------------------------------------------------
(***************************************************************************)
(* Properties.                                                             *)
(***************************************************************************)
\* Whatever becomes of profiles, criteria and listings, the query for matching listings
\* finds a listing exactly when apply() would take an application to it, past attempts
\* of the pair aside: no flat the applicant could have stays hidden and none is shown
\* that would refuse the profile.
DiscoveryFindsTheEligible ==
  \A a \in Attempts :
    row[a].status = "NONE" =>
      (MayApply(a) <=> /\ Found(ApplicantOf[a], ListingOf[a])
                       /\ CanSubmit(History(row, a), "PUBLISHED", TRUE, clock))
=============================================================================

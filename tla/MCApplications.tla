--------------------------- MODULE MCApplications ---------------------------
(***************************************************************************)
(* Small instances of Applications: every applicant may submit `Tries'     *)
(* attempts to every listing.  A good profile fits all criteria, the poor  *)
(* one the lax criteria only.                                              *)
(***************************************************************************)
EXTENDS WaitingPromotion, ApplicationQueues, ApplicationDiscovery, TLC

CONSTANTS Tries, lax, strict, good, poor

MCAttempts == Applicants \X Listings \X Tries

MCApplicantOf == [a \in MCAttempts |-> a[1]]

MCListingOf == [a \in MCAttempts |-> a[2]]

MCDemanded ==
  [c \in Criteria |->
     IF c = lax
     THEN [minimumHouseholdNetIncome |-> Null, suitableForPeopleCount |-> Null, petsPolicy |-> Null,
           smokingPolicy |-> "BY_ARRANGEMENT", schufaRequired |-> FALSE, incomeProofRequired |-> TRUE]
     ELSE [minimumHouseholdNetIncome |-> 2, suitableForPeopleCount |-> 2, petsPolicy |-> "NOT_ALLOWED",
           smokingPolicy |-> "ALLOWED", schufaRequired |-> TRUE, incomeProofRequired |-> FALSE]]

\* The poor profile fits as well, but does not say whether there are pets.
MCEntered ==
  [p \in Profiles \cup {NoProfile} |->
     IF p = NoProfile THEN Null
     ELSE [householdNetIncome |-> 2, adultsCount |-> 1, childrenCount |-> 1, peopleCount |-> 2,
           hasPets |-> IF p = good THEN FALSE ELSE Null, isSmoker |-> TRUE,
           schufaAvailable |-> Null, incomeProofAvailable |-> TRUE]]

MCAccepts == [c \in Criteria |-> Profiles \cap (IF c = lax THEN {good, poor} ELSE {good})]

\* The part of the instance that is explored: of a listing that is over, the states where
\* somebody is left in it, since nothing happens to anybody else; and of the second
\* instant, which a rejection takes to be undone, those where nothing but that is to be seen.
Explored ==
  /\ \A l \in Listings :
       listingStatus[l] \in {"ARCHIVED", "RENTED"} => \E a \in Attempts : ListingOf[a] = l /\ Live(row[a])
  /\ clock > 1 =>
       /\ \A l \in Listings : listingStatus[l] = "PUBLISHED"
       /\ \A a \in Attempts : Live(row[a]) \/ row[a].publicReason = "NOT_SELECTED"

\* Attempts of a pair are interchangeable, and so are applicants, when none is
\* singled out as Legacy.
Symmetry == Permutations(Applicants) \cup Permutations(Tries)
=============================================================================

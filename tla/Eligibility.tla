----------------------------- MODULE Eligibility -----------------------------
(***************************************************************************)
(* Profile prequalification (src/eligibility/profile-eligibility-evaluator *)
(* and the household of src/applicant-profile): every rule is written      *)
(* twice, as a check of one profile against the criteria of one listing    *)
(* and as a condition of the query that finds the listings for a profile.  *)
(* Codes are left out: a check's code follows from its criterion, outcome  *)
(* and fact.  Null is SQL's NULL and, as a profile, that there is none.    *)
(***************************************************************************)
EXTENDS Integers

CONSTANT Null

Policies == {"ALLOWED", "BY_ARRANGEMENT", "NOT_ALLOWED"}

ASSUME NullAssumption == Null \notin Int /\ Null \notin BOOLEAN /\ Null \notin Policies

NumberOrNull == Int \cup {Null}

BooleanOrNull == BOOLEAN \cup {Null}

\* ListingEligibilityCriteria
ListingCriteria ==
  [minimumHouseholdNetIncome : NumberOrNull, suitableForPeopleCount : NumberOrNull,
   petsPolicy : Policies \cup {Null}, smokingPolicy : Policies \cup {Null},
   schufaRequired : BOOLEAN, incomeProofRequired : BOOLEAN]

\* ApplicantEligibilityFacts
ApplicantProfiles ==
  [householdNetIncome : NumberOrNull, adultsCount : NumberOrNull, childrenCount : NumberOrNull,
   peopleCount : NumberOrNull, hasPets : BooleanOrNull, isSmoker : BooleanOrNull,
   schufaAvailable : BooleanOrNull, incomeProofAvailable : BooleanOrNull]

-----------------------------------------------------------------------------
(***************************************************************************)
(* The facts of a profile.                                                 *)
(***************************************************************************)
NumberFact(value) == IF value # Null /\ value >= 0 THEN value ELSE Null

\* Adults and children first; rows from before them have the number of people.
Household(profile) ==
  LET adults == NumberFact(profile.adultsCount)
      children == NumberFact(profile.childrenCount)
  IN  IF adults # Null /\ children # Null THEN adults + children ELSE NumberFact(profile.peopleCount)

\* normalized()
Facts(profile) ==
  IF profile = Null
  THEN [profilePresent |-> FALSE, householdNetIncome |-> Null, householdSize |-> Null, hasPets |-> Null,
        isSmoker |-> Null, schufaAvailable |-> Null, incomeProofAvailable |-> Null]
  ELSE [profilePresent |-> TRUE,
        householdNetIncome |-> NumberFact(profile.householdNetIncome),
        householdSize |-> IF Household(profile) # Null /\ Household(profile) > 0 THEN Household(profile) ELSE Null,
        hasPets |-> profile.hasPets, isSmoker |-> profile.isSmoker,
        schufaAvailable |-> profile.schufaAvailable, incomeProofAvailable |-> profile.incomeProofAvailable]

\* A profile is stored with adults and children together or neither, and their sum.
HouseholdIsConsistent(profile) == profile.adultsCount = Null <=> profile.childrenCount = Null

PeopleCount(profile) ==
  IF profile.adultsCount # Null /\ profile.childrenCount # Null
  THEN profile.adultsCount + profile.childrenCount ELSE Null

-----------------------------------------------------------------------------
(***************************************************************************)
(* The rules.  `within' is the comparison, looked at when both are known.  *)
(***************************************************************************)
NumericOutcome(bound, fact, within) ==
  CASE bound = Null -> "NOT_APPLICABLE"
    [] bound # Null /\ fact = Null -> "UNKNOWN"
    [] bound # Null /\ fact # Null -> IF within THEN "PASS" ELSE "FAIL"

NumericWhere(bound, fact, within) == bound = Null \/ (fact # Null /\ within)

PolicyOutcome(policy, fact) ==
  CASE policy \in {Null, "ALLOWED"} -> "NOT_APPLICABLE"
    [] policy = "NOT_ALLOWED" -> IF fact = Null THEN "UNKNOWN" ELSE IF fact THEN "FAIL" ELSE "PASS"
    [] policy = "BY_ARRANGEMENT" -> IF fact = FALSE THEN "PASS" ELSE "OBSERVATION"

\* Mutated form of PolicyWhere: SQL's <> is not true of NULL.
PolicyWhereDiffers(policy, fact) == fact = FALSE \/ policy \in Policies \ {"NOT_ALLOWED"}

PolicyWhere(policy, fact) ==
  fact = FALSE \/ policy = Null \/ policy \in Policies \ {"NOT_ALLOWED"}

DeclarationOutcome(required) == IF required THEN "OBSERVATION" ELSE "NOT_APPLICABLE"

Income(c, f) == f.householdNetIncome >= c.minimumHouseholdNetIncome

Size(c, f) == f.householdSize <= c.suitableForPeopleCount

\* The checks of evaluateProfile(), by criterion.
Checks(c, f) ==
  [PROFILE |-> IF f.profilePresent THEN "PASS" ELSE "UNKNOWN",
   INCOME |-> NumericOutcome(c.minimumHouseholdNetIncome, f.householdNetIncome, Income(c, f)),
   HOUSEHOLD_SIZE |-> NumericOutcome(c.suitableForPeopleCount, f.householdSize, Size(c, f)),
   PETS |-> PolicyOutcome(c.petsPolicy, f.hasPets),
   SMOKING |-> PolicyOutcome(c.smokingPolicy, f.isSmoker),
   SCHUFA_DECLARATION |-> DeclarationOutcome(c.schufaRequired),
   INCOME_PROOF_DECLARATION |-> DeclarationOutcome(c.incomeProofRequired)]

With(checks, outcome) == {criterion \in DOMAIN checks : checks[criterion] = outcome}

Result(checks) ==
  IF With(checks, "FAIL") # {} THEN "NO_MATCH"
  ELSE IF With(checks, "UNKNOWN") # {} THEN "INSUFFICIENT_INFORMATION"
  ELSE IF With(checks, "OBSERVATION") # {} THEN "MATCH_WITH_OBSERVATIONS"
  ELSE "MATCH"

\* canApply of evaluateProfile()
CanApply(criteria, profile) ==
  Result(Checks(criteria, Facts(profile))) \in {"MATCH", "MATCH_WITH_OBSERVATIONS"}

\* hardProfileMatchWhere(), of one listing's criteria.
MatchedBy(c, f) ==
  /\ f.profilePresent
  /\ NumericWhere(c.minimumHouseholdNetIncome, f.householdNetIncome, Income(c, f))
  /\ NumericWhere(c.suitableForPeopleCount, f.householdSize, Size(c, f))
  /\ PolicyWhere(c.petsPolicy, f.hasPets)
  /\ PolicyWhere(c.smokingPolicy, f.isSmoker)

HardMatch(criteria, profile) == MatchedBy(criteria, Facts(profile))

-----------------------------------------------------------------------------
(***************************************************************************)
(* What an assessment keeps.                                               *)
(***************************************************************************)
UsedIf(used, fact) == IF used THEN fact ELSE Null

\* The facts that configured rules use.
Used(c, f) ==
  [f EXCEPT !.householdNetIncome = UsedIf(c.minimumHouseholdNetIncome # Null, @),
            !.householdSize = UsedIf(c.suitableForPeopleCount # Null, @),
            !.hasPets = UsedIf(c.petsPolicy \in {"NOT_ALLOWED", "BY_ARRANGEMENT"}, @),
            !.isSmoker = UsedIf(c.smokingPolicy \in {"NOT_ALLOWED", "BY_ARRANGEMENT"}, @),
            !.schufaAvailable = UsedIf(c.schufaRequired, @),
            !.incomeProofAvailable = UsedIf(c.incomeProofRequired, @)]
=============================================================================

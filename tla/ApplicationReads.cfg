SPECIFICATION ReadSpec
CONSTANTS
  Applicants = {p1, p2}
  rival = p2
  only = t1
  Listings = {l1}
  Tries = {t1, t2}
  Attempts <- MCFewAttempts
  ApplicantOf <- MCFewApplicantOf
  ListingOf <- MCFewListingOf
  Legacy <- MCFewLegacy
  Limit = 1
  BatchSize = 1
  lax = lax
  strict = strict
  good = good
  poor = poor
  Criteria = {strict}
  Profiles = {good}
  NoProfile = NoProfile
  Null = Null
  Accepts <- MCAccepts
  Demanded <- MCDemanded
  Entered <- MCEntered
  CurationCooldown = 1
  ReapplyCooldown = 1
  MaxClock = 2
INVARIANTS
  OnlyNewestAttemptIsCurrent
  CooldownRespected
  ParticipantsAreShown
  OfferedIsAccepted
  ReadersAgree
